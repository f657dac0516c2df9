------------------------ MODULE InboundDeliveryProofs ------------------------
(***************************************************************************)
(* Proofs about InboundDelivery and the parts it is made of, for any       *)
(* messages, cuts of the stream, handlers and registrations: the codec     *)
(* gives back what it has written, the framing keeps the messages apart,   *)
(* and an answer of success is one of an HTTP server.                      *)
(***************************************************************************)
EXTENDS InboundDelivery, WellFoundedInduction, SequenceTheorems, FiniteSetTheorems, TLAPS

-----------------------------------------------------------------------------
(***************************************************************************)
(* Induction and recursion.                                                *)
(***************************************************************************)

\* A set of naturals has a least element. This form of induction takes a set where the
\* library's takes an operator.
LEMMA Smallest == ASSUME NEW S \in SUBSET Nat, S # {} PROVE \E n \in S : \A m \in S : n <= m
<1> DEFINE R == {ss \in Nat \X Nat : ss[1] < ss[2]}
<1>1. IsWellFoundedOn(R, Nat)
  BY NatLessThanWellFounded DEF OpToRel
<1>2. \A m, n \in Nat : <<m, n>> \in R <=> m < n
  OBVIOUS
<1> HIDE DEF R
<1>3. PICK n \in S : \A m \in S : ~(<<m, n>> \in R)
  BY <1>1, WFMin
<1>4. \A m \in S : m \in Nat
  OBVIOUS
<1>5. \A m \in S : ~(m < n)
  BY <1>2, <1>3, <1>4, Zenon
<1> QED BY <1>4, <1>5

\* What holds for 0, and for n + 1 if it holds for n, holds for all.
LEMMA Induction == ASSUME NEW S \in SUBSET Nat, 0 \in S, \A n \in S : n + 1 \in S PROVE S = Nat
<1> SUFFICES ASSUME Nat \ S # {} PROVE FALSE
  OBVIOUS
<1>1. PICK n \in Nat \ S : \A m \in (Nat \ S) : n <= m
  BY Smallest, Nat \ S \in SUBSET Nat
<1>2. n # 0 /\ n - 1 \in Nat
  OBVIOUS
<1> QED BY <1>1, <1>2

\* The steps of the recursive functions of the codec.
NumStep(b, k, x) == 256 * x + b[k]
CatStep(E, k, x) == {a \o b : a \in x, b \in E[k]}
ItemStep(c, x) ==
    UNION {{[value |-> Append(a.value, y.value), rest |-> y.rest] : y \in DecodeItem(c, a.rest)} : a \in x}
TlvStep(x) == UNION {NextTlv(a) : a \in x}
FieldStep(names, k, x) ==
    UNION {{[value |-> Put(a.value, names[k], y.value), rest |-> y.rest] :
                y \in Decode(FieldCodec(names[k]), a.rest)} : a \in x}
TakenStep(x) == UNION {ExtractNext(a) : a \in x}

\* All of them in one: p[1] is the name of the function, p[2] what it is about.
RecursionStep(p, k, x) ==
    IF p[1] = "num" THEN NumStep(p[2], k, x)
    ELSE IF p[1] = "cat" THEN CatStep(p[2], k, x)
    ELSE IF p[1] = "items" THEN ItemStep(p[2], x)
    ELSE IF p[1] = "tlvs" THEN TlvStep(x)
    ELSE IF p[1] = "fields" THEN FieldStep(p[2], k, x)
    ELSE TakenStep(x)

Recursion(p, base, n, f) ==
    f = [k \in 0 .. n |-> IF k = 0 THEN base ELSE RecursionStep(p, k, f[k - 1])]

\* Each of them has a solution.
LEMMA RecursionExists ==
    ASSUME NEW p, NEW base, NEW n \in Nat
    PROVE  \E f : Recursion(p, base, n, f)
<1> DEFINE S == {m \in Nat : \E f : Recursion(p, base, m, f)}
<1>1. 0 \in S
  <2>1. Recursion(p, base, 0, [k \in 0 .. 0 |-> base])
    BY DEF Recursion
  <2> QED BY <2>1
<1>2. ASSUME NEW m \in S PROVE m + 1 \in S
  <2>1. PICK f : Recursion(p, base, m, f)
    OBVIOUS
  <2> DEFINE g == [k \in 0 .. m + 1 |-> IF k = m + 1 THEN RecursionStep(p, m + 1, f[m]) ELSE f[k]]
  <2>2. /\ \A k \in 0 .. m + 1 :
              k # m + 1 => k \in 0 .. m /\ (k # 0 => k - 1 \in 0 .. m + 1 /\ k - 1 # m + 1)
        /\ m + 1 # 0 /\ (m + 1) - 1 = m /\ m \in 0 .. m + 1 /\ m # m + 1
    OBVIOUS
  <2>3. \A k \in 0 .. m + 1 : g[k] = IF k = 0 THEN base ELSE RecursionStep(p, k, g[k - 1])
    BY <2>1, <2>2 DEF Recursion
  <2>4. Recursion(p, base, m + 1, g)
    BY <2>3 DEF Recursion
  <2> QED BY <2>4
<1>3. S = Nat
  <2> HIDE DEF S
  <2>1. S \in SUBSET Nat
    BY DEF S
  <2> QED BY <1>1, <1>2, <2>1, Induction
<1> QED BY <1>3

\* FromBigEndian goes through the bytes.
LEMMA FromBigEndianSteps ==
    ASSUME NEW b, Len(b) \in Nat
    PROVE  \E f : /\ f[0] = 0
                  /\ \A k \in 1 .. Len(b) : f[k] = NumStep(b, k, f[k - 1])
                  /\ FromBigEndian(b) = f[Len(b)]
<1> DEFINE F(f) == [k \in 0 .. Len(b) |-> IF k = 0 THEN 0 ELSE NumStep(b, k, f[k - 1])]
           num == CHOOSE f : f = F(f)
<1>0. Len(b) \in Nat
  OBVIOUS
<1>1. \E f : f = F(f)
  <2>1. \A k, x : RecursionStep(<<"num", b>>, k, x) = NumStep(b, k, x)
    BY DEF RecursionStep
  <2>2. PICK f : Recursion(<<"num", b>>, 0, Len(b), f)
    BY <1>0, RecursionExists
  <2>3. f = F(f)
    BY <2>1, <2>2, Zenon DEF Recursion
  <2> QED BY <2>3
<1>2. num = F(num)
  <2> HIDE DEF F
  <2> QED BY <1>1
<1>3. FromBigEndian(b) = num[Len(b)]
  BY DEF FromBigEndian, NumStep
<1> HIDE DEF num
<1>4. \A k \in 0 .. Len(b) : num[k] = IF k = 0 THEN 0 ELSE NumStep(b, k, num[k - 1])
  BY <1>2, Zenon
<1>5. 0 \in 0 .. Len(b) /\ \A k \in 1 .. Len(b) : k \in 0 .. Len(b) /\ k # 0
  BY <1>0
<1> QED BY <1>3, <1>4, <1>5, Zenon

\* ConcatAll goes through the encodings.
LEMMA ConcatAllSteps ==
    ASSUME NEW E, Len(E) \in Nat
    PROVE  \E f : /\ f[0] = {<<>>}
                  /\ \A k \in 1 .. Len(E) : f[k] = CatStep(E, k, f[k - 1])
                  /\ ConcatAll(E) = f[Len(E)]
<1> DEFINE F(f) == [k \in 0 .. Len(E) |-> IF k = 0 THEN {<<>>} ELSE CatStep(E, k, f[k - 1])]
           cat == CHOOSE f : f = F(f)
<1>0. Len(E) \in Nat
  OBVIOUS
<1>1. \E f : f = F(f)
  <2>1. \A k, x : RecursionStep(<<"cat", E>>, k, x) = CatStep(E, k, x)
    BY DEF RecursionStep
  <2>2. PICK f : Recursion(<<"cat", E>>, {<<>>}, Len(E), f)
    BY <1>0, RecursionExists
  <2>3. f = F(f)
    BY <2>1, <2>2, Zenon DEF Recursion
  <2> QED BY <2>3
<1>2. cat = F(cat)
  <2> HIDE DEF F
  <2> QED BY <1>1
<1>3. ConcatAll(E) = cat[Len(E)]
  BY DEF ConcatAll, CatStep
<1> HIDE DEF cat
<1>4. \A k \in 0 .. Len(E) : cat[k] = IF k = 0 THEN {<<>>} ELSE CatStep(E, k, cat[k - 1])
  BY <1>2, Zenon
<1>5. 0 \in 0 .. Len(E) /\ \A k \in 1 .. Len(E) : k \in 0 .. Len(E) /\ k # 0
  BY <1>0
<1> QED BY <1>3, <1>4, <1>5, Zenon

\* DecodeItems goes through the items.
ItemsBy(c, n, b, f) ==
    /\ f[0] = {[value |-> <<>>, rest |-> b]}
    /\ \A k \in 1 .. n : f[k] = ItemStep(c, f[k - 1])
    /\ DecodeItems(c, n, b) = f[n]

LEMMA ItemsByExists ==
    ASSUME NEW c, NEW n \in Nat, NEW b
    PROVE  \E f : ItemsBy(c, n, b, f)
<1> DEFINE F(f) == [k \in 0 .. n |-> IF k = 0 THEN {[value |-> <<>>, rest |-> b]} ELSE ItemStep(c, f[k - 1])]
           items == CHOOSE f : f = F(f)
<1>0. n \in Nat
  OBVIOUS
<1>1. \E f : f = F(f)
  <2>1. \A k, x : RecursionStep(<<"items", c>>, k, x) = ItemStep(c, x)
    BY DEF RecursionStep
  <2>2. PICK f : Recursion(<<"items", c>>, {[value |-> <<>>, rest |-> b]}, n, f)
    BY <1>0, RecursionExists
  <2>3. f = F(f)
    BY <2>1, <2>2, Zenon DEF Recursion
  <2> QED BY <2>3
<1>2. items = F(items)
  <2> HIDE DEF F
  <2> QED BY <1>1
<1>3. DecodeItems(c, n, b) = items[n]
  BY DEF DecodeItems, ItemStep
<1> HIDE DEF items
<1>4. \A k \in 0 .. n : items[k] = IF k = 0 THEN {[value |-> <<>>, rest |-> b]} ELSE ItemStep(c, items[k - 1])
  BY <1>2, Zenon
<1>5. 0 \in 0 .. n /\ \A k \in 1 .. n : k \in 0 .. n /\ k # 0
  BY <1>0
<1>6. ItemsBy(c, n, b, items)
  BY <1>3, <1>4, <1>5, Zenon DEF ItemsBy
<1> QED BY <1>6

\* DecodeTlvs takes one TLV after the other.
LEMMA DecodeTlvsSteps ==
    ASSUME NEW y, Len(y.rest) \in Nat
    PROVE  \E f : /\ f[0] = {y}
                  /\ \A k \in 1 .. Len(y.rest) \div 2 : f[k] = TlvStep(f[k - 1])
                  /\ DecodeTlvs(y) = f[Len(y.rest) \div 2]
<1> DEFINE F(f) == [k \in 0 .. Len(y.rest) \div 2 |-> IF k = 0 THEN {y} ELSE TlvStep(f[k - 1])]
           tlvs == CHOOSE f : f = F(f)
<1>0. Len(y.rest) \div 2 \in Nat
  <2>1. \A m \in Nat : m \div 2 \in Nat
    OBVIOUS
  <2> QED BY <2>1
<1>1. \E f : f = F(f)
  <2>1. \A k, x : RecursionStep(<<"tlvs", y>>, k, x) = TlvStep(x)
    BY DEF RecursionStep
  <2>2. PICK f : Recursion(<<"tlvs", y>>, {y}, Len(y.rest) \div 2, f)
    BY <1>0, RecursionExists
  <2>3. f = F(f)
    BY <2>1, <2>2, Zenon DEF Recursion
  <2> QED BY <2>3
<1>2. tlvs = F(tlvs)
  <2> HIDE DEF F
  <2> QED BY <1>1
<1>3. DecodeTlvs(y) = tlvs[Len(y.rest) \div 2]
  BY DEF DecodeTlvs, TlvStep
<1> HIDE DEF tlvs
<1>4. \A k \in 0 .. Len(y.rest) \div 2 : tlvs[k] = IF k = 0 THEN {y} ELSE TlvStep(tlvs[k - 1])
  BY <1>2, Zenon
<1>5. 0 \in 0 .. Len(y.rest) \div 2
      /\ \A k \in 1 .. Len(y.rest) \div 2 : k \in 0 .. Len(y.rest) \div 2 /\ k # 0
  <2>1. \A n \in Nat : 0 \in 0 .. n /\ \A k \in 1 .. n : k \in 0 .. n /\ k # 0
    OBVIOUS
  <2> QED BY <1>0, <2>1, Zenon
<1> QED BY <1>3, <1>4, <1>5, Zenon

\* DecodeFields goes through the fields.
LEMMA DecodeFieldsSteps ==
    ASSUME NEW names, Len(names) \in Nat, NEW b
    PROVE  \E f : /\ f[0] = {[value |-> <<>>, rest |-> b]}
                  /\ \A k \in 1 .. Len(names) : f[k] = FieldStep(names, k, f[k - 1])
                  /\ DecodeFields(names, b) = f[Len(names)]
<1> DEFINE F(f) == [k \in 0 .. Len(names) |-> IF k = 0 THEN {[value |-> <<>>, rest |-> b]} ELSE FieldStep(names, k, f[k - 1])]
           object == CHOOSE f : f = F(f)
<1>0. Len(names) \in Nat
  OBVIOUS
<1>1. \E f : f = F(f)
  <2>1. \A k, x : RecursionStep(<<"fields", names>>, k, x) = FieldStep(names, k, x)
    BY DEF RecursionStep
  <2>2. PICK f : Recursion(<<"fields", names>>, {[value |-> <<>>, rest |-> b]}, Len(names), f)
    BY <1>0, RecursionExists
  <2>3. f = F(f)
    BY <2>1, <2>2, Zenon DEF Recursion
  <2> QED BY <2>3
<1>2. object = F(object)
  <2> HIDE DEF F
  <2> QED BY <1>1
<1>3. DecodeFields(names, b) = object[Len(names)]
  BY DEF DecodeFields, FieldStep
<1> HIDE DEF object
<1>4. \A k \in 0 .. Len(names) : object[k] = IF k = 0 THEN {[value |-> <<>>, rest |-> b]} ELSE FieldStep(names, k, object[k - 1])
  BY <1>2, Zenon
<1>5. 0 \in 0 .. Len(names) /\ \A k \in 1 .. Len(names) : k \in 0 .. Len(names) /\ k # 0
  BY <1>0
<1> QED BY <1>3, <1>4, <1>5, Zenon

\* ExtractAll takes out one message after the other.
LEMMA ExtractAllSteps ==
    ASSUME NEW buf, Len(buf) \in Nat
    PROVE  \E f : /\ f[0] = {[pdus |-> <<>>, rest |-> buf]}
                  /\ \A k \in 1 .. Len(buf) \div HeaderLength : f[k] = TakenStep(f[k - 1])
                  /\ ExtractAll(buf) = f[Len(buf) \div HeaderLength]
<1> DEFINE F(f) == [k \in 0 .. Len(buf) \div HeaderLength |-> IF k = 0 THEN {[pdus |-> <<>>, rest |-> buf]} ELSE TakenStep(f[k - 1])]
           taken == CHOOSE f : f = F(f)
<1>0. Len(buf) \div HeaderLength \in Nat
  BY \A m \in Nat : m \div 16 \in Nat DEF HeaderLength
<1>1. \E f : f = F(f)
  <2>1. \A k, x : RecursionStep(<<"taken", buf>>, k, x) = TakenStep(x)
    BY DEF RecursionStep
  <2>2. PICK f : Recursion(<<"taken", buf>>, {[pdus |-> <<>>, rest |-> buf]}, Len(buf) \div HeaderLength, f)
    BY <1>0, RecursionExists
  <2>3. f = F(f)
    BY <2>1, <2>2, Zenon DEF Recursion
  <2> QED BY <2>3
<1>2. taken = F(taken)
  <2> HIDE DEF F
  <2> QED BY <1>1
<1>3. ExtractAll(buf) = taken[Len(buf) \div HeaderLength]
  BY DEF ExtractAll, TakenStep
<1> HIDE DEF taken
<1>4. \A k \in 0 .. Len(buf) \div HeaderLength : taken[k] = IF k = 0 THEN {[pdus |-> <<>>, rest |-> buf]} ELSE TakenStep(taken[k - 1])
  BY <1>2, Zenon
<1>5. 0 \in 0 .. Len(buf) \div HeaderLength /\ \A k \in 1 .. Len(buf) \div HeaderLength : k \in 0 .. Len(buf) \div HeaderLength /\ k # 0
  BY <1>0
<1> QED BY <1>3, <1>4, <1>5, Zenon
-----------------------------------------------------------------------------
(***************************************************************************)
(* What is read is what was written: numbers and strings.                  *)
(***************************************************************************)

\* The bytes of a number.
LEMMA BigEndianBytes ==
    ASSUME NEW n \in Nat, NEW w \in 0 .. 4
    PROVE  BigEndian(n, w) \in Seq(Bytes) /\ Len(BigEndian(n, w)) = w
<1>1. \A i \in 1 .. w : w - i + 1 \in 1 .. 4
  OBVIOUS
<1>2. \A k \in 1 .. 4 : Powers[k] \in Nat \ {0}
  BY SMT DEF Powers
<1>3. \A m \in Nat, q \in Nat \ {0} : (m \div q) % 256 \in Bytes
  BY SMT DEF Bytes
<1>4. \A i \in 1 .. w : (n \div Powers[w - i + 1]) % 256 \in Bytes
  BY <1>1, <1>2, <1>3
<1> QED BY <1>4 DEF BigEndian

LEMMA BigEndianIs ==
    ASSUME NEW n \in Nat
    PROVE  /\ BigEndian(n, 1)[1] = (n \div Powers[1]) % 256
           /\ BigEndian(n, 2)[1] = (n \div Powers[2]) % 256
           /\ BigEndian(n, 2)[2] = (n \div Powers[1]) % 256
           /\ BigEndian(n, 4)[1] = (n \div Powers[4]) % 256
           /\ BigEndian(n, 4)[2] = (n \div Powers[3]) % 256
           /\ BigEndian(n, 4)[3] = (n \div Powers[2]) % 256
           /\ BigEndian(n, 4)[4] = (n \div Powers[1]) % 256
BY DEF BigEndian

\* The number of up to four bytes.
LEMMA FromBigEndianIs ==
    ASSUME NEW b \in Seq(Bytes)
    PROVE  /\ Len(b) = 1 => FromBigEndian(b) = b[1]
           /\ Len(b) = 2 => FromBigEndian(b) = 256 * b[1] + b[2]
           /\ Len(b) = 4 => FromBigEndian(b) = 256 * (256 * (256 * b[1] + b[2]) + b[3]) + b[4]
<1>1. PICK f : /\ f[0] = 0
               /\ \A k \in 1 .. Len(b) : f[k] = NumStep(b, k, f[k - 1])
               /\ FromBigEndian(b) = f[Len(b)]
  BY FromBigEndianSteps
<1>2. \A k \in 1 .. Len(b) : b[k] \in Nat
  <2>1. Bytes \subseteq Nat
    BY DEF Bytes
  <2> QED BY <2>1, ElementOfSeq
<1>3. Len(b) >= 1 => f[1] = b[1]
  BY <1>1, <1>2 DEF NumStep
<1>4. Len(b) >= 2 => f[2] = 256 * b[1] + b[2]
  BY <1>1, <1>2, <1>3 DEF NumStep
<1>5. Len(b) >= 3 => f[3] = 256 * (256 * b[1] + b[2]) + b[3]
  BY <1>1, <1>2, <1>4 DEF NumStep
<1>6. Len(b) >= 4 => f[4] = 256 * (256 * (256 * b[1] + b[2]) + b[3]) + b[4]
  BY <1>1, <1>2, <1>5 DEF NumStep
<1>7. Len(b) = 1 => FromBigEndian(b) = b[1]
  BY <1>1, <1>3
<1>8. Len(b) = 2 => FromBigEndian(b) = 256 * b[1] + b[2]
  BY <1>1, <1>4
<1>9. Len(b) = 4 => FromBigEndian(b) = 256 * (256 * (256 * b[1] + b[2]) + b[3]) + b[4]
  BY <1>1, <1>6
<1> QED BY <1>7, <1>8, <1>9

\* A number that fits is read as it was written.
LEMMA NumberBack ==
    ASSUME NEW n \in Nat, NEW w \in {1, 2, 4}, n \div Powers[w] < 256
    PROVE  FromBigEndian(BigEndian(n, w)) = n
<1> DEFINE b == BigEndian(n, w)
<1>0. w \in 0 .. 4
  OBVIOUS
<1>1. b \in Seq(Bytes) /\ Len(b) = w
  BY <1>0, BigEndianBytes
<1>2. /\ w = 1 => b[1] = (n \div Powers[1]) % 256
      /\ w = 2 => b[1] = (n \div Powers[2]) % 256 /\ b[2] = (n \div Powers[1]) % 256
      /\ w = 4 => /\ b[1] = (n \div Powers[4]) % 256 /\ b[2] = (n \div Powers[3]) % 256
                  /\ b[3] = (n \div Powers[2]) % 256 /\ b[4] = (n \div Powers[1]) % 256
  BY BigEndianIs
<1> HIDE DEF b
<1>3. /\ Len(b) = 1 => FromBigEndian(b) = b[1]
      /\ Len(b) = 2 => FromBigEndian(b) = 256 * b[1] + b[2]
      /\ Len(b) = 4 => FromBigEndian(b) = 256 * (256 * (256 * b[1] + b[2]) + b[3]) + b[4]
  BY <1>1, FromBigEndianIs, ZenonT(60)
<1>4. Powers[1] = 1 /\ Powers[2] = 256 /\ Powers[3] = 65536 /\ Powers[4] = 16777216
  BY SMT DEF Powers
<1>5. CASE w = 1
  <2>1. b[1] = (n \div 1) % 256 /\ n \div 1 < 256
    BY <1>2, <1>4, <1>5, SMT
  <2>2. b[1] = n
    BY <2>1, SMT
  <2> QED BY <1>1, <1>3, <1>5, <2>2 DEF b
<1>6. CASE w = 2
  <2>1. b[1] = (n \div 256) % 256 /\ b[2] = (n \div 1) % 256 /\ n \div 256 < 256
    BY <1>2, <1>4, <1>6, SMT
  <2>2. 256 * b[1] + b[2] = n
    BY <2>1, SMT
  <2> QED BY <1>1, <1>3, <1>6, <2>2 DEF b
<1>7. CASE w = 4
  <2>1. /\ b[1] = (n \div 16777216) % 256 /\ b[2] = (n \div 65536) % 256
        /\ b[3] = (n \div 256) % 256 /\ b[4] = (n \div 1) % 256 /\ n \div 16777216 < 256
    BY <1>2, <1>4, <1>7, SMT
  <2>2. 256 * (256 * (256 * b[1] + b[2]) + b[3]) + b[4] = n
    BY <2>1, SMT
  <2> QED BY <1>1, <1>3, <1>7, <2>2 DEF b
<1> QED BY <1>5, <1>6, <1>7

\* Two byte strings, one behind the other, are taken apart again.
LEMMA TakeDrop ==
    ASSUME NEW a \in Seq(Bytes), NEW r \in Seq(Bytes)
    PROVE  /\ a \o r \in Seq(Bytes) /\ Len(a \o r) = Len(a) + Len(r)
           /\ Take(a \o r, Len(a)) = a /\ Drop(a \o r, Len(a)) = r
BY DEF Take, Drop

\* read_u8, read_u16, read_u32.
LEMMA ReadUintBack ==
    ASSUME NEW n \in Nat, NEW w \in {1, 2, 4}, n \div Powers[w] < 256, NEW r \in Seq(Bytes)
    PROVE  ReadUint(BigEndian(n, w) \o r, w) = {[value |-> Num(n), rest |-> r]}
<1>0. w \in 0 .. 4
  OBVIOUS
<1>1. BigEndian(n, w) \in Seq(Bytes) /\ Len(BigEndian(n, w)) = w
  BY <1>0, BigEndianBytes, Zenon
<1>2. /\ Len(BigEndian(n, w) \o r) = w + Len(r) /\ Len(r) \in Nat
      /\ Take(BigEndian(n, w) \o r, w) = BigEndian(n, w) /\ Drop(BigEndian(n, w) \o r, w) = r
  BY <1>1, TakeDrop
<1>3. FromBigEndian(BigEndian(n, w)) = n
  BY NumberBack
<1> QED BY <1>2, <1>3 DEF ReadUint

\* read gives the bytes back, if there are any.
LEMMA ReadBack ==
    ASSUME NEW e \in Seq(Bytes), e # <<>>, NEW r \in Seq(Bytes)
    PROVE  Read(e \o r, Len(e)) = {[value |-> Base64(e), rest |-> r]}
<1>1. /\ Len(e \o r) = Len(e) + Len(r) /\ Len(r) \in Nat /\ Len(e) \in Nat /\ Len(e) # 0
      /\ Take(e \o r, Len(e)) = e /\ Drop(e \o r, Len(e)) = r
  BY TakeDrop
<1> QED BY <1>1 DEF Read

\* read_c_octet_str stops at the first zero, which is the one that ends the string.
LEMMA ReadCOctetStrBack ==
    ASSUME NEW t \in Seq(Bytes), 0 \notin ToSet(t), NEW r \in Seq(Bytes)
    PROVE  ReadCOctetStr((t \o <<0>>) \o r) = {[value |-> Text(t), rest |-> r]}
<1> DEFINE e == t \o <<0>>
           b == e \o r
           I == {i \in 1 .. Len(b) : b[i] = 0}
           end == Len(t) + 1
<1>1. /\ e \in Seq(Bytes) /\ Len(e) = end /\ e[end] = 0
      /\ \A i \in 1 .. Len(t) : e[i] = t[i]
  BY DEF Bytes
<1>2. b \in Seq(Bytes) /\ Len(b) = end + Len(r) /\ Take(b, end) = e /\ Drop(b, end) = r
  <2> HIDE DEF e, end
  <2>1. /\ b \in Seq(Bytes) /\ Len(b) = Len(e) + Len(r)
        /\ Take(b, Len(e)) = e /\ Drop(b, Len(e)) = r
    BY <1>1, TakeDrop
  <2> QED BY <1>1, <2>1
<1>3. \A i \in 1 .. end : b[i] = e[i]
  BY <1>1
<1>4. \A i \in 1 .. Len(t) : t[i] # 0
  BY DEF ToSet
<1>5. end \in I /\ \A i \in I : end <= i
  <2>1. end \in 1 .. Len(b) /\ b[end] = 0 /\ end \in Nat /\ Len(b) \in Nat
    BY <1>1, <1>2, <1>3
  <2>2. \A i \in 1 .. Len(t) : b[i] # 0
    BY <1>1, <1>3, <1>4
  <2> QED BY <2>1, <2>2
<1>6. Min(I) = end
  <2>1. \A i \in I : i \in Nat
    OBVIOUS
  <2> HIDE DEF I, b, end
  <2>2. \A x \in I : (\A y \in I : x <= y) => x = end
    BY <1>5, <2>1
  <2>3. Min(I) = CHOOSE x \in I : \A y \in I : x <= y
    BY DEF Min
  <2> QED BY <1>5, <2>2, <2>3
<1>7. SelectInSeq(b, LAMBDA x : x = 0) = end
  <2>1. SelectInSeq(b, LAMBDA x : x = 0) = IF I # {} THEN Min(I) ELSE 0
    BY DEF SelectInSeq
  <2> HIDE DEF I, b, end
  <2> QED BY <1>5, <1>6, <2>1
<1>8. Take(b, end - 1) = t
  <2>1. \A i \in 1 .. Len(t) : b[i] = t[i]
    BY <1>1, <1>3
  <2>2. end - 1 = Len(t) /\ Len(t) <= Len(b) /\ Len(b) \in Nat
    BY <1>2
  <2> HIDE DEF b, end
  <2> QED BY <1>2, <2>1, <2>2 DEF Take
<1>9. end # 0
  OBVIOUS
<1>10. ReadCOctetStr(b) = IF SelectInSeq(b, LAMBDA x : x = 0) = 0 THEN {}
                          ELSE {[value |-> Text(Take(b, SelectInSeq(b, LAMBDA x : x = 0) - 1)),
                                 rest |-> Drop(b, SelectInSeq(b, LAMBDA x : x = 0))]}
  BY DEF ReadCOctetStr
<1> HIDE DEF b, end
<1>11. ReadCOctetStr(b) = {[value |-> Text(t), rest |-> r]}
  BY <1>2, <1>7, <1>8, <1>9, <1>10
<1> QED BY <1>11 DEF b
\* The codecs that hold no others, and those of them that tell where a value ends.
SelfDelimiting(c) == c \in {U8, U16, U32, OctetStr(1)} \/ \E n \in Nat : c = COctetStr(n)
FlatCodec(c) == SelfDelimiting(c) \/ c \in {OptionalU8(0), VarLengthInt, OctetStr(0)}

\* A value and the one that is read for it: an octet string is read as base64.
Same(u, v) == IF Is("base64", u) THEN u.base64 = OctetsOf(v) ELSE u = v

\* What a value of a JSON object can be.
LEMMA FlatKinds ==
    ASSUME NEW v \in FlatValues
    PROVE  /\ Is("num", v) => v.num \in Nat /\ v = Num(v.num) /\ ~Is("text", v) /\ ~Is("base64", v)
           /\ Is("text", v) => v.text \in Seq(Bytes) /\ v = Text(v.text) /\ ~Is("base64", v)
           /\ Is("base64", v) => v.base64 \in Seq(Bytes) /\ v = Base64(v.base64)
           /\ Is("num", v) \/ Is("text", v) \/ Is("base64", v)
<1>1. CASE v \in [num : Nat]
  BY <1>1 DEF Is, Num, Text, Base64
<1>2. CASE v \in [text : Seq(Bytes)]
  BY <1>2 DEF Is, Num, Text, Base64
<1>3. CASE v \in [base64 : Seq(Bytes)]
  BY <1>3 DEF Is, Num, Text, Base64
<1> QED BY <1>1, <1>2, <1>3 DEF FlatValues

\* The octets of a string.
LEMMA OctetsBytes ==
    ASSUME NEW v \in FlatValues, Is("text", v) \/ Is("base64", v)
    PROVE  OctetsOf(v) \in Seq(Bytes)
BY FlatKinds DEF OctetsOf

\* What the encoders of numbers and strings write are bytes.
LEMMA LowFirstBytes ==
    ASSUME NEW n \in Nat
    PROVE  LowFirst(n) \in Seq(Bytes)
<1> DEFINE P(w) == /\ w > 0 => n \div Powers[w] > 0
                   /\ w < 4 => n \div Powers[w + 1] = 0
           w == CHOOSE w \in 0 .. 4 : P(w)
<1>2. \A k \in 1 .. 4 : Powers[k] \in Nat \ {0}
  BY SMT DEF Powers
<1>0. Powers[1] = 1 /\ Powers[2] = 256 /\ Powers[3] = 65536 /\ Powers[4] = 16777216
  BY SMT DEF Powers
<1>1. \E k \in 0 .. 4 : P(k)
  <2>1. CASE n \div Powers[1] = 0
    BY <2>1, P(0)
  <2>2. CASE n \div Powers[1] > 0 /\ n \div Powers[2] = 0
    BY <2>2, P(1)
  <2>3. CASE n \div Powers[2] > 0 /\ n \div Powers[3] = 0
    BY <2>3, P(2)
  <2>4. CASE n \div Powers[3] > 0 /\ n \div Powers[4] = 0
    BY <2>4, P(3)
  <2>5. CASE n \div Powers[4] > 0
    BY <2>5, P(4)
  <2>6. \A k \in 1 .. 4 : n \div Powers[k] \in Nat
    BY <1>2, SMT
  <2> QED BY <2>1, <2>2, <2>3, <2>4, <2>5, <2>6
<1>3. w \in 0 .. 4
  <2> HIDE DEF P
  <2> QED BY <1>1
<1>4. LowFirst(n) = [i \in 1 .. w |-> (n \div Powers[i]) % 256]
  BY DEF LowFirst
<1> HIDE DEF w
<1>5. \A m \in Nat, q \in Nat \ {0} : (m \div q) % 256 \in Bytes
  BY SMT DEF Bytes
<1>6. \A i \in 1 .. w : (n \div Powers[i]) % 256 \in Bytes
  BY <1>2, <1>3, <1>5
<1> QED BY <1>3, <1>4, <1>6

\* A number below 256 is one byte.
LEMMA LowFirstByte ==
    ASSUME NEW n \in 1 .. 255
    PROVE  LowFirst(n) = <<n>>
<1> DEFINE P(w) == /\ w > 0 => n \div Powers[w] > 0
                   /\ w < 4 => n \div Powers[w + 1] = 0
           w == CHOOSE w \in 0 .. 4 : P(w)
<1>0. Powers[1] = 1 /\ Powers[2] = 256 /\ Powers[3] = 65536 /\ Powers[4] = 16777216
  BY SMT DEF Powers
<1>1. /\ n \div Powers[1] = n /\ n \div Powers[2] = 0 /\ n \div Powers[3] = 0 /\ n \div Powers[4] = 0
  BY <1>0, SMT
<1>2. \A k \in 0 .. 4 : P(k) <=> k = 1
  <2>1. ~P(0) /\ P(1) /\ ~P(2) /\ ~P(3) /\ ~P(4)
    BY <1>1
  <2> HIDE DEF P
  <2> QED BY <2>1
<1>3. w = 1
  <2> HIDE DEF P
  <2> QED BY <1>2
<1>4. LowFirst(n) = [i \in 1 .. w |-> (n \div Powers[i]) % 256]
  BY DEF LowFirst
<1> HIDE DEF w
<1>5. (n \div Powers[1]) % 256 = n
  BY <1>1, SMT
<1> QED BY <1>3, <1>4, <1>5
\* The encoders of single values write bytes.
LEMMA FlatBytes ==
    ASSUME NEW c, FlatCodec(c), NEW v \in FlatValues
    PROVE  EncodeFlat(c, v) \subseteq Seq(Bytes)
<1> USE DEF FlatCodec, SelfDelimiting
<1>1. CASE c \in {U8, U16, U32}
  <2>1. c.kind = "uint" /\ c.width \in 0 .. 4
    BY <1>1 DEF U8, U16, U32
  <2>2. EncodeFlat(c, v) \in {{}, {BigEndian(v.num, c.width)}} /\ (~Is("num", v) => EncodeFlat(c, v) = {})
    BY <2>1 DEF EncodeFlat
  <2>3. Is("num", v) => BigEndian(v.num, c.width) \in Seq(Bytes)
    BY <2>1, FlatKinds, BigEndianBytes
  <2> QED BY <2>2, <2>3
<1>2. CASE c = OptionalU8(0)
  <2> DEFINE n == IF Is("num", v) THEN v.num ELSE c.default
  <2>1. c.kind = "optional" /\ c.default = 0
    BY <1>2 DEF OptionalU8
  <2>2. EncodeFlat(c, v) = {BigEndian(n, 1)}
    BY <2>1 DEF EncodeFlat
  <2>3. n \in Nat
    BY <2>1, FlatKinds
  <2> QED BY <2>2, <2>3, BigEndianBytes
<1>3. CASE c = VarLengthInt
  <2>1. EncodeFlat(c, v) \in {{}, {LowFirst(v.num)}} /\ (~Is("num", v) => EncodeFlat(c, v) = {})
    BY <1>3 DEF EncodeFlat, VarLengthInt
  <2>2. Is("num", v) => LowFirst(v.num) \in Seq(Bytes)
    BY FlatKinds, LowFirstBytes
  <2> QED BY <2>1, <2>2
<1>4. CASE \E n \in Nat : c = COctetStr(n)
  <2> DEFINE t == IF Len(v.text) > c.max THEN Take(v.text, c.max) ELSE v.text
  <2>1. c.kind = "cstring" /\ c.max \in Nat
    BY <1>4 DEF COctetStr
  <2>2. EncodeFlat(c, v) \in {{}, {t \o <<0>>}} /\ (~Is("text", v) => EncodeFlat(c, v) = {})
    BY <2>1 DEF EncodeFlat
  <2>3. Is("text", v) => t \in Seq(Bytes)
    BY <2>1, FlatKinds DEF Take
  <2>4. <<0>> \in Seq(Bytes)
    BY DEF Bytes
  <2> HIDE DEF t
  <2>5. Is("text", v) => t \o <<0>> \in Seq(Bytes)
    BY <2>3, <2>4
  <2> QED BY <2>2, <2>5
<1>5. CASE c \in {OctetStr(0), OctetStr(1)}
  <2> DEFINE o == OctetsOf(v)
             e == BigEndian(Len(o), c.length_bytes) \o o
  <2>1. c.kind = "octets" /\ c.length_bytes \in 0 .. 4
    BY <1>5 DEF OctetStr
  <2>2. EncodeFlat(c, v) \in {{}, {e}} /\ (~(Is("text", v) \/ Is("base64", v)) => EncodeFlat(c, v) = {})
    BY <2>1 DEF EncodeFlat
  <2>3. (Is("text", v) \/ Is("base64", v)) => o \in Seq(Bytes)
    BY OctetsBytes
  <2> HIDE DEF o
  <2>4. o \in Seq(Bytes) => e \in Seq(Bytes)
    BY <2>1, BigEndianBytes
  <2> QED BY <2>2, <2>3, <2>4
<1> QED BY <1>1, <1>2, <1>3, <1>4, <1>5

\* As many bytes as were counted.
LEMMA ReadCounted ==
    ASSUME NEW k, NEW q
    PROVE  UNION {Read(l.rest, l.value.num) : l \in {[value |-> Num(k), rest |-> q]}} = Read(q, k)
<1> DEFINE x == [value |-> Num(k), rest |-> q]
           R(l) == Read(l.rest, l.value.num)
<1>1. R(x) = Read(q, k)
  BY DEF Num
<1> HIDE DEF R
<1>2. UNION {R(l) : l \in {x}} = R(x)
  BY Zenon
<1> QED BY <1>1, <1>2 DEF R

\* A value that fits is read back, and what follows it is left.
LEMMA FlatBack ==
    ASSUME NEW c, SelfDelimiting(c), NEW v \in FlatValues, FitsFlat(c, v),
           NEW e \in EncodeFlat(c, v), NEW r \in Seq(Bytes)
    PROVE  \E u : /\ DecodeFlat(c, e \o r) = {[value |-> u, rest |-> r]} /\ Same(u, v)
                  /\ c # OctetStr(1) => u = v
<1> USE DEF SelfDelimiting
<1>1. CASE c \in {U8, U16, U32}
  <2>1. c.kind = "uint" /\ c.width \in {1, 2, 4}
    BY <1>1 DEF U8, U16, U32
  <2>2. Is("num", v) /\ v.num \div Powers[c.width] < 256
    BY <2>1, SMT DEF FitsFlat
  <2>3. e = BigEndian(v.num, c.width)
    BY <2>1, <2>2 DEF EncodeFlat
  <2>4. DecodeFlat(c, e \o r) = ReadUint(e \o r, c.width)
    BY <2>1 DEF DecodeFlat
  <2>5. v.num \in Nat /\ v = Num(v.num) /\ ~Is("base64", v)
    BY <2>2, FlatKinds
  <2>6. ReadUint(e \o r, c.width) = {[value |-> v, rest |-> r]}
    BY <2>1, <2>2, <2>3, <2>5, ReadUintBack
  <2> QED BY <2>4, <2>5, <2>6 DEF Same
<1>2. CASE \E n \in Nat : c = COctetStr(n)
  <2>1. c.kind = "cstring" /\ c.max \in Nat
    BY <1>2 DEF COctetStr
  <2>2. Is("text", v) /\ Len(v.text) <= c.max /\ 0 \notin ToSet(v.text)
    BY <2>1, SMT DEF FitsFlat
  <2>3. v.text \in Seq(Bytes) /\ v = Text(v.text) /\ ~Is("base64", v)
    BY <2>2, FlatKinds
  <2>4. e = v.text \o <<0>>
    BY <2>1, <2>2, <2>3 DEF EncodeFlat
  <2>5. DecodeFlat(c, e \o r) = ReadCOctetStr(e \o r)
    BY <2>1 DEF DecodeFlat
  <2>6. ReadCOctetStr(e \o r) = {[value |-> v, rest |-> r]}
    BY <2>2, <2>3, <2>4, ReadCOctetStrBack
  <2> QED BY <2>3, <2>5, <2>6 DEF Same
<1>3. CASE c = OctetStr(1)
  <2> DEFINE o == OctetsOf(v)
             n == BigEndian(Len(o), 1)
  <2>1. c.kind = "octets" /\ c.length_bytes = 1
    BY <1>3 DEF OctetStr
  <2>2. o # <<>> /\ Len(o) < 256
    BY <2>1, SMT DEF FitsFlat
  <2>3. Is("text", v) \/ Is("base64", v)
    BY <2>1 DEF EncodeFlat
  <2>4. o \in Seq(Bytes)
    BY <2>3, OctetsBytes
  <2>5. e = n \o o
    BY <2>1, <2>3 DEF EncodeFlat
  <2> HIDE DEF o
  <2>6. Len(o) \div Powers[1] < 256 /\ Len(o) \in Nat
    BY <2>2, <2>4, SMT DEF Powers
  <2>7. n \in Seq(Bytes)
    BY <2>6, BigEndianBytes
  <2>8. e \o r = n \o (o \o r) /\ o \o r \in Seq(Bytes)
    <3> HIDE DEF n
    <3> QED BY <2>4, <2>5, <2>7, ConcatAssociative, SMTT(30)
  <2>9. ReadUint(e \o r, 1) = {[value |-> Num(Len(o)), rest |-> o \o r]}
    BY <2>6, <2>8, ReadUintBack
  <2>10. Read(o \o r, Len(o)) = {[value |-> Base64(o), rest |-> r]}
    BY <2>2, <2>4, ReadBack
  <2>11. DecodeFlat(c, e \o r) = UNION {Read(l.rest, l.value.num) : l \in ReadUint(e \o r, 1)}
    BY <2>1 DEF DecodeFlat
  <2>12. DecodeFlat(c, e \o r) = {[value |-> Base64(o), rest |-> r]}
    BY <2>9, <2>10, <2>11, ReadCounted
  <2>13. Same(Base64(o), v)
    BY DEF Same, Is, Base64, o
  <2> QED BY <1>3, <2>12, <2>13
<1> QED BY <1>1, <1>2, <1>3
-----------------------------------------------------------------------------
(***************************************************************************)
(* TLVs.                                                                   *)
(***************************************************************************)
LEMMA TlvTable ==
    ASSUME NEW f \in DOMAIN TlvTags
    PROVE  /\ TlvCodec(f) \in TlvCodecs
           /\ TlvTags[f] \in Nat /\ TlvTags[f] \div Powers[2] < 256
           /\ TlvOfTag(TlvTags[f]) = {f}
<1>1. TlvCodec(f) \in TlvCodecs /\ TlvTags[f] \in Tags /\ IsInjective(TlvTags)
  BY TlvAssumption, Zenon
<1>2. \A n \in Tags : n \in Nat
  BY SMT DEF Tags
<1>3. \A n \in Tags : n \div Powers[2] < 256
  BY SMT DEF Powers, Tags
<1>4. TlvOfTag(TlvTags[f]) = {f}
  BY <1>1, Zenon DEF TlvOfTag, IsInjective
<1> QED BY <1>1, <1>2, <1>3, <1>4, Zenon

\* Every codec of a TLV is one of these.
LEMMA TlvCodecFlat ==
    ASSUME NEW c \in TlvCodecs
    PROVE  FlatCodec(c)
BY DEF TlvCodecs, FlatCodec, SelfDelimiting
\* The value of a TLV that fits has some bytes, and is read back from them.
LEMMA TlvValueBack ==
    ASSUME NEW c \in TlvCodecs, NEW v \in FlatValues, FitsFlat(c, v), NEW e \in EncodeFlat(c, v)
    PROVE  /\ e \in Seq(Bytes) /\ e # <<>> /\ Len(e) \div Powers[2] < 256
           /\ \E u : DecodeFlat(c, e) = {[value |-> u, rest |-> <<>>]} /\ Same(u, v)
<1> DEFINE Back == \E u : DecodeFlat(c, e) = {[value |-> u, rest |-> <<>>]} /\ Same(u, v)
<1>1. e \in Seq(Bytes) /\ e \o <<>> = e /\ <<>> \in Seq(Bytes) /\ Len(e) \in Nat
  BY TlvCodecFlat, FlatBytes
<1>2. ASSUME SelfDelimiting(c) PROVE Back
  <2>1. \A r \in Seq(Bytes) : \E u : DecodeFlat(c, e \o r) = {[value |-> u, rest |-> r]} /\ Same(u, v)
    BY <1>2, FlatBack
  <2>2. PICK r \in Seq(Bytes) : r = <<>> /\ e \o r = e
    BY <1>1
  <2> QED BY <2>1, <2>2
<1> HIDE DEF Back
<1> SUFFICES Len(e) > 0 /\ Len(e) < 65536 /\ Back
  <2>1. \A n \in Nat : n < 65536 => n \div Powers[2] < 256
    BY SMT DEF Powers
  <2>2. ASSUME Len(e) > 0 PROVE e # <<>>
    BY <2>2
  <2> QED BY <1>1, <2>1, <2>2, SMT DEF Back
<1>4. CASE c \in {U8, U16, U32}
  <2>1. c.kind = "uint" /\ c.width \in 1 .. 4 /\ SelfDelimiting(c)
    BY <1>4 DEF U8, U16, U32, SelfDelimiting
  <2>2. Is("num", v)
    BY <2>1, SMT DEF FitsFlat
  <2>3. e = BigEndian(v.num, c.width)
    BY <2>1, <2>2 DEF EncodeFlat
  <2>4. v.num \in Nat /\ c.width \in 0 .. 4
    BY <2>1, <2>2, FlatKinds
  <2>5. Len(e) = c.width
    BY <2>3, <2>4, BigEndianBytes
  <2>6. Len(e) > 0 /\ Len(e) < 65536
    BY <2>1, <2>5, SMT
  <2> QED BY <1>2, <2>1, <2>6, SMT
<1>5. CASE \E n \in 0 .. 256 : c = COctetStr(n)
  <2>1. c.kind = "cstring" /\ c.max \in Nat /\ c.max <= 256
    BY <1>5 DEF COctetStr
  <2>2. SelfDelimiting(c)
    BY <1>5 DEF SelfDelimiting
  <2>3. Is("text", v)
    BY <2>1, SMT DEF FitsFlat
  <2>4. Len(v.text) <= c.max
    BY <2>1, SMT DEF FitsFlat
  <2>5. v.text \in Seq(Bytes)
    BY <2>3, FlatKinds
  <2>6. Len(v.text) \in Nat
    BY <2>5
  <2>7. e = v.text \o <<0>>
    BY <2>1, <2>3, <2>4, <2>6 DEF EncodeFlat
  <2>8. Len(e) = Len(v.text) + 1
    BY <2>5, <2>7
  <2>9. Len(e) > 0 /\ Len(e) < 65536
    BY <2>1, <2>4, <2>6, <2>8, SMT
  <2> QED BY <1>2, <2>2, <2>9, SMT
<1>6. CASE c = OptionalU8(0)
  <2>1. c.kind = "optional"
    BY <1>6 DEF OptionalU8
  <2>2. Is("num", v) /\ v.num < 256
    BY <2>1, SMT DEF FitsFlat
  <2>3. v.num \in Nat /\ v = Num(v.num) /\ ~Is("base64", v)
    BY <2>2, FlatKinds
  <2>4. e = BigEndian(v.num, 1)
    BY <2>1, <2>2 DEF EncodeFlat
  <2>5. Len(e) = 1
    BY <2>3, <2>4, BigEndianBytes
  <2>6. Len(e) > 0 /\ Len(e) < 65536 /\ e # <<>>
    BY <2>5, SMT
  <2>7. v.num \div Powers[1] < 256
    BY <2>2, <2>3, SMT DEF Powers
  <2>8. ReadUint(e \o <<>>, 1) = {[value |-> v, rest |-> <<>>]}
    BY <1>1, <2>3, <2>4, <2>7, ReadUintBack, ZenonT(60)
  <2>9. DecodeFlat(c, e) = ReadUint(e, 1)
    <3>1. DecodeFlat(c, e) = IF e = <<>> THEN {[value |-> Num(c.default), rest |-> e]} ELSE ReadUint(e, 1)
      BY <2>1 DEF DecodeFlat
    <3>2. e # <<>>
      BY <2>5
    <3> QED BY <3>1, <3>2
  <2>10. DecodeFlat(c, e) = {[value |-> v, rest |-> <<>>]}
    BY <1>1, <2>8, <2>9
  <2>11. Back
    BY <2>3, <2>10 DEF Same, Back
  <2> QED BY <2>6, <2>11, SMT
<1>7. CASE c = VarLengthInt
  <2>1. c.kind = "varint"
    BY <1>7 DEF VarLengthInt
  <2>2. Is("num", v) /\ v.num \in 1 .. 255
    BY <2>1, SMT DEF FitsFlat
  <2>3. v = Num(v.num) /\ ~Is("base64", v)
    BY <2>2, FlatKinds
  <2>4. e = <<v.num>>
    BY <2>1, <2>2, LowFirstByte DEF EncodeFlat
  <2>5. Len(e) > 0 /\ Len(e) < 65536 /\ Len(e) = 1 /\ e[1] = v.num
    BY <2>4, SMT
  <2>6. FromBigEndian(e) = v.num
    BY <1>1, <2>5, FromBigEndianIs
  <2>7. DecodeFlat(c, e) = {[value |-> Num(FromBigEndian(e)), rest |-> <<>>]}
    BY <2>1 DEF DecodeFlat
  <2>8. DecodeFlat(c, e) = {[value |-> v, rest |-> <<>>]}
    BY <2>3, <2>6, <2>7
  <2>9. Back
    BY <2>3, <2>8 DEF Same, Back
  <2> QED BY <2>5, <2>9, SMT
<1>8. CASE c = OctetStr(0)
  <2> DEFINE o == OctetsOf(v)
  <2>1. c.kind = "octets" /\ c.length_bytes = 0
    BY <1>8 DEF OctetStr
  <2>2. o # <<>> /\ Len(o) < 65536
    BY <2>1, SMT DEF FitsFlat
  <2>3. Is("text", v) \/ Is("base64", v)
    BY <2>1 DEF EncodeFlat
  <2>4. o \in Seq(Bytes)
    BY <2>3, OctetsBytes
  <2>5. e = BigEndian(Len(o), 0) \o o
    BY <2>1, <2>3 DEF EncodeFlat
  <2> HIDE DEF o
  <2>6. BigEndian(Len(o), 0) = <<>>
    <3>1. BigEndian(Len(o), 0) \in Seq(Bytes) /\ Len(BigEndian(Len(o), 0)) = 0
      BY <2>4, BigEndianBytes
    <3> QED BY <3>1
  <2>7. e = o
    BY <2>4, <2>5, <2>6
  <2>8. Len(o) > 0 /\ o # <<>>
    BY <2>2, <2>4, SMT
  <2>9. Read(o \o <<>>, Len(o)) = {[value |-> Base64(o), rest |-> <<>>]}
    BY <1>1, <2>4, <2>8, ReadBack
  <2>10. DecodeFlat(c, e) = Read(e, Len(e))
    BY <2>1 DEF DecodeFlat
  <2>11. DecodeFlat(c, e) = {[value |-> Base64(o), rest |-> <<>>]}
    BY <1>1, <2>7, <2>9, <2>10
  <2>12. Same(Base64(o), v)
    BY DEF Same, Is, Base64, o
  <2>13. Back
    BY <2>11, <2>12 DEF Back
  <2> QED BY <2>2, <2>7, <2>8, <2>13, SMT
<1> QED BY <1>4, <1>5, <1>6, <1>7, <1>8 DEF TlvCodecs
\* Byte strings one behind the other.
LEMMA CatBytes ==
    ASSUME NEW a \in Seq(Bytes), NEW b \in Seq(Bytes)
    PROVE  a \o b \in Seq(Bytes) /\ Len(a \o b) = Len(a) + Len(b) /\ Len(a) \in Nat /\ Len(b) \in Nat
OBVIOUS

LEMMA TakeDropAt ==
    ASSUME NEW a \in Seq(Bytes), NEW r \in Seq(Bytes), NEW k, k = Len(a)
    PROVE  Take(a \o r, k) = a /\ Drop(a \o r, k) = r
BY TakeDrop

\* read_tlv takes the value and leaves what follows it.
LEMMA ReadTlvBack ==
    ASSUME NEW t \in Seq(Bytes), Len(t) = 2, NEW e \in Seq(Bytes), e # <<>>,
           Len(e) \div Powers[2] < 256, NEW r \in Seq(Bytes)
    PROVE  LET b == t \o (BigEndian(Len(e), 2) \o (e \o r))
           IN  /\ ReadTlv(b).found = {e} /\ ReadTlv(b).rest = r
               /\ Take(b, 2) = t /\ Len(b) \in Nat /\ Len(b) >= Len(r) + 4
<1> DEFINE n == BigEndian(Len(e), 2)
           z == e \o r
           d == n \o z
           b == t \o d
           l == [value |-> Num(Len(e)), rest |-> z]
           x == [value |-> Base64(e), rest |-> r]
<1>1. n \in Seq(Bytes) /\ Len(n) = 2 /\ Len(e) \in Nat /\ Len(r) \in Nat
  BY BigEndianBytes
<1>2. z \in Seq(Bytes) /\ Len(z) = Len(e) + Len(r)
  OBVIOUS
<1>3. Read(z, Len(e)) = {x}
  BY ReadBack
<1>4. ASSUME NEW q \in Seq(Bytes) PROVE ReadUint(n \o q, 2) = {[value |-> Num(Len(e)), rest |-> q]}
  BY <1>1, ReadUintBack
<1> HIDE DEF z
<1>5. ReadUint(d, 2) = {l}
  BY <1>2, <1>4
<1> HIDE DEF n
<1>6. d \in Seq(Bytes) /\ Len(d) = 2 + Len(z)
  <2>1. n \in Seq(Bytes) /\ z \in Seq(Bytes)
    BY <1>1, <1>2
  <2>2. d \in Seq(Bytes) /\ Len(d) = Len(n) + Len(z)
    BY <2>1, CatBytes
  <2> HIDE DEF d
  <2> QED BY <1>1, <2>2
<1> HIDE DEF d
<1>7. b \in Seq(Bytes) /\ Len(b) = 2 + Len(d) /\ Take(b, 2) = t /\ Drop(b, 2) = d
  BY <1>6, CatBytes, TakeDropAt, ZenonT(60)
<1>8. Len(b) >= Len(r) + 4 /\ Len(b) \in Nat
  <2> HIDE DEF b
  <2> QED BY <1>1, <1>2, <1>6, <1>7
<1>9. UNION {Read(k.rest, k.value.num) : k \in {l}} = {x}
  BY <1>3, ReadCounted
<1> HIDE DEF l, b
<1> DEFINE len == ReadUint(Drop(b, 2), 2)
           val == UNION {Read(k.rest, k.value.num) : k \in len}
<1>10. val = {x}
  BY <1>5, <1>7, <1>9
<1>11. ReadTlv(b) = [found |-> {y.value.base64 : y \in val},
                     rest |-> IF val # {} THEN (CHOOSE y \in val : TRUE).rest
                              ELSE Drop(Drop(b, 2), IF len = {} THEN 0 ELSE 2)]
  BY DEF ReadTlv
<1> HIDE DEF len, val
<1>12. ReadTlv(b).found = {e}
  <2>1. ReadTlv(b).found = {y.value.base64 : y \in val}
    BY <1>11
  <2> QED BY <1>10, <2>1 DEF Base64
<1>13. ReadTlv(b).rest = r
  <2>1. val # {} /\ (CHOOSE y \in val : TRUE) = x
    <3> HIDE DEF x
    <3> QED BY <1>10
  <2>2. ReadTlv(b).rest = (CHOOSE y \in val : TRUE).rest
    BY <1>11, <2>1
  <2>3. x.rest = r
    OBVIOUS
  <2> HIDE DEF x
  <2> QED BY <2>1, <2>2, <2>3
<1> QED BY <1>7, <1>8, <1>12, <1>13 DEF b, d, n, z

TlvIs(f, v, e, r) ==
    /\ Len(e \o r) >= Len(r) + 4
    /\ \E u : /\ Same(u, v)
              /\ \A a : a.rest = e \o r => NextTlv(a) = {[value |-> Put(a.value, f, u), rest |-> r]}

\* A TLV that fits is read back, and what follows it is left.
LEMMA NextTlvBack ==
    ASSUME NEW f \in DOMAIN TlvTags, NEW v \in FlatValues, FitsFlat(TlvCodec(f), v),
           NEW e \in EncodeTlv(f, v), NEW r \in Seq(Bytes)
    PROVE  TlvIs(f, v, e, r)
<1> DEFINE c == TlvCodec(f)
           t == BigEndian(TlvTags[f], 2)
           n(y) == BigEndian(Len(y), 2)
<1>1. PICK y \in EncodeFlat(c, v) : e = t \o n(y) \o y
  BY DEF EncodeTlv
<1>2. c \in TlvCodecs /\ TlvTags[f] \in Nat /\ TlvTags[f] \div Powers[2] < 256 /\ TlvOfTag(TlvTags[f]) = {f}
  BY TlvTable
<1>3. PICK u : DecodeFlat(c, y) = {[value |-> u, rest |-> <<>>]} /\ Same(u, v)
  BY <1>2, TlvValueBack
<1>4. y \in Seq(Bytes) /\ y # <<>> /\ Len(y) \div Powers[2] < 256
  BY <1>2, TlvValueBack
<1>5. t \in Seq(Bytes) /\ Len(t) = 2 /\ n(y) \in Seq(Bytes) /\ FromBigEndian(t) = TlvTags[f]
  <2>1. Len(y) \in Nat
    BY <1>4
  <2> QED BY <1>2, <2>1, BigEndianBytes, NumberBack
<1> HIDE DEF t, n, c
<1>6. e \in Seq(Bytes) /\ e \o r \in Seq(Bytes)
  BY <1>1, <1>4, <1>5
<1>7. e \o r = t \o (n(y) \o (y \o r))
  <2>0. t \in Seq(Bytes) /\ n(y) \in Seq(Bytes) /\ y \in Seq(Bytes)
    BY <1>4, <1>5
  <2>1. ((t \o n(y)) \o y) \o r = t \o (n(y) \o (y \o r))
    <3>1. ((t \o n(y)) \o y) \o r = (t \o n(y)) \o (y \o r)
      BY <2>0
    <3>2. (t \o n(y)) \o (y \o r) = t \o (n(y) \o (y \o r))
      BY <2>0, SMTT(30)
    <3> QED BY <3>1, <3>2
  <2> QED BY <1>1, <2>1
<1>8. /\ ReadTlv(e \o r).found = {y} /\ ReadTlv(e \o r).rest = r
      /\ Take(e \o r, 2) = t /\ Len(e \o r) \in Nat /\ Len(e \o r) >= Len(r) + 4
  BY <1>4, <1>5, <1>7, ReadTlvBack DEF n
<1>9. ASSUME NEW a, a.rest = e \o r
      PROVE  NextTlv(a) = {[value |-> Put(a.value, f, u), rest |-> r]}
  <2> DEFINE tlv == ReadTlv(a.rest)
             vs(g) == UNION {DecodeFlat(TlvCodec(g), z) : z \in tlv.found}
             T(g) == [value |-> Put(a.value, g, IF vs(g) = {} THEN Null ELSE (CHOOSE w \in vs(g) : TRUE).value),
                      rest  |-> tlv.rest]
  <2>1. ~(Len(a.rest) < 2)
    BY <1>8, <1>9
  <2>2. NextTlv(a) = {T(g) : g \in TlvOfTag(FromBigEndian(Take(a.rest, 2)))}
    BY <2>1 DEF NextTlv
  <2>3. TlvOfTag(FromBigEndian(Take(a.rest, 2))) = {f}
    BY <1>2, <1>5, <1>8, <1>9
  <2>4. vs(f) = {[value |-> u, rest |-> <<>>]}
    BY <1>3, <1>8, <1>9 DEF c
  <2>5. tlv.rest = r
    BY <1>8, <1>9
  <2> HIDE DEF vs, tlv
  <2>6. (CHOOSE w \in vs(f) : TRUE) = [value |-> u, rest |-> <<>>] /\ vs(f) # {}
    BY <2>4
  <2>7. T(f) = [value |-> Put(a.value, f, u), rest |-> r]
    <3>1. (CHOOSE w \in vs(f) : TRUE).value = u
      BY <2>6, [value |-> u, rest |-> <<>>].value = u
    <3> QED BY <2>5, <2>6, <3>1
  <2> HIDE DEF T
  <2> QED BY <2>2, <2>3, <2>7
<1> QED BY <1>3, <1>8, <1>9 DEF TlvIs
-----------------------------------------------------------------------------
(***************************************************************************)
(* What was put together can be cut again: e are the parts, s what is left *)
(* behind each of them.                                                    *)
(***************************************************************************)
Joined(w, b, r) == w = b \o r

CutBy(E, n, e, s) ==
    /\ e \in [1 .. n -> Seq(Bytes)] /\ s \in [0 .. n -> Seq(Bytes)]
    /\ \A k \in 1 .. n : e[k] \in E[k] /\ Joined(s[k - 1], e[k], s[k])

LEMMA CutStep ==
    ASSUME NEW E, NEW n \in Nat, NEW e, NEW s, CutBy(E, n, e, s),
           NEW b \in Seq(Bytes), b \in E[n + 1], NEW r \in Seq(Bytes), Joined(s[n], b, r)
    PROVE  \E e2, s2 : CutBy(E, n + 1, e2, s2) /\ s2[0] = s[0] /\ s2[n + 1] = r
<1> DEFINE e2 == [k \in 1 .. n + 1 |-> IF k = n + 1 THEN b ELSE e[k]]
           s2 == [k \in 0 .. n + 1 |-> IF k = n + 1 THEN r ELSE s[k]]
<1>1. /\ \A k \in 1 .. n + 1 : k # n + 1 => k \in 1 .. n /\ k - 1 # n + 1
      /\ \A k \in 0 .. n + 1 : k # n + 1 => k \in 0 .. n
      /\ \A k \in 1 .. n + 1 : k - 1 \in 0 .. n + 1 /\ k \in 0 .. n + 1
      /\ (n + 1) - 1 = n /\ n # n + 1 /\ 0 # n + 1 /\ 0 \in 0 .. n + 1 /\ n + 1 \in 0 .. n + 1
  OBVIOUS
<1>2. e2 \in [1 .. n + 1 -> Seq(Bytes)]
  BY <1>1 DEF CutBy
<1>3. s2 \in [0 .. n + 1 -> Seq(Bytes)]
  BY <1>1 DEF CutBy
<1>4. ASSUME NEW k \in 1 .. n + 1 PROVE e2[k] \in E[k] /\ Joined(s2[k - 1], e2[k], s2[k])
  <2>1. CASE k = n + 1
    <3>1. e2[k] = b /\ s2[k] = r /\ s2[k - 1] = s[n]
      BY <1>1, <2>1
    <3> QED BY <2>1, <3>1
  <2>2. CASE k # n + 1
    <3>1. e2[k] = e[k] /\ s2[k] = s[k] /\ s2[k - 1] = s[k - 1] /\ k \in 1 .. n
      BY <1>1, <2>2
    <3> QED BY <3>1 DEF CutBy
  <2> QED BY <2>1, <2>2
<1>5. s2[0] = s[0] /\ s2[n + 1] = r
  BY <1>1
<1>6. CutBy(E, n + 1, e2, s2)
  BY <1>2, <1>3, <1>4 DEF CutBy
<1> QED BY <1>5, <1>6

LEMMA Cut ==
    ASSUME NEW E, Len(E) \in Nat, \A k \in 1 .. Len(E) : E[k] \subseteq Seq(Bytes),
           NEW w \in ConcatAll(E), NEW r \in Seq(Bytes)
    PROVE  /\ w \in Seq(Bytes)
           /\ \E e, s : CutBy(E, Len(E), e, s) /\ s[0] = w \o r /\ s[Len(E)] = r
<1>1. PICK f : /\ f[0] = {<<>>}
               /\ \A k \in 1 .. Len(E) : f[k] = CatStep(E, k, f[k - 1])
               /\ ConcatAll(E) = f[Len(E)]
  BY ConcatAllSteps
<1> DEFINE Good(n) == \A v \in f[n], q \in Seq(Bytes) :
               /\ v \in Seq(Bytes)
               /\ \E e, s : CutBy(E, n, e, s) /\ s[0] = v \o q /\ s[n] = q
           S == {n \in Nat : n <= Len(E) => Good(n)}
<1>2. Good(0)
  <2> SUFFICES ASSUME NEW q \in Seq(Bytes)
               PROVE  \E e, s : CutBy(E, 0, e, s) /\ s[0] = <<>> \o q /\ s[0] = q
    BY <1>1
  <2> DEFINE e == [k \in 1 .. 0 |-> <<>>]
             s == [k \in 0 .. 0 |-> q]
  <2>1. CutBy(E, 0, e, s)
    BY DEF CutBy
  <2>2. s[0] = q /\ <<>> \o q = q
    OBVIOUS
  <2> QED BY <2>1, <2>2
<1>3. ASSUME NEW n \in Nat, n + 1 <= Len(E), Good(n) PROVE Good(n + 1)
  <2> SUFFICES ASSUME NEW v \in f[n + 1], NEW q \in Seq(Bytes)
               PROVE  /\ v \in Seq(Bytes)
                      /\ \E e, s : CutBy(E, n + 1, e, s) /\ s[0] = v \o q /\ s[n + 1] = q
    OBVIOUS
  <2>1. n + 1 \in 1 .. Len(E) /\ (n + 1) - 1 = n
    BY <1>3
  <2>2. v \in CatStep(E, n + 1, f[n])
    BY <1>1, <2>1
  <2>3. PICK a \in f[n], b \in E[n + 1] : v = a \o b
    BY <2>2, SMTT(30) DEF CatStep
  <2>4. b \in Seq(Bytes)
    BY <2>1
  <2>5. b \o q \in Seq(Bytes)
    BY <2>4
  <2>6. a \in Seq(Bytes)
    BY <1>3, <2>5
  <2>7. PICK e, s : CutBy(E, n, e, s) /\ s[0] = a \o (b \o q) /\ s[n] = b \o q
    BY <1>3, <2>5
  <2>8. (a \o b) \o q = a \o (b \o q) /\ a \o b \in Seq(Bytes)
    BY <2>4, <2>6, SMTT(30)
  <2>9. \E e2, s2 : CutBy(E, n + 1, e2, s2) /\ s2[0] = s[0] /\ s2[n + 1] = q
    <3>1. CutBy(E, n, e, s) /\ Joined(s[n], b, q)
      BY <2>7 DEF Joined
    <3> QED BY <2>4, <3>1, CutStep
  <2> QED BY <2>3, <2>7, <2>8, <2>9
<1> HIDE DEF Good
<1>4. S = Nat
  <2>1. S \in SUBSET Nat /\ 0 \in S
    BY <1>2
  <2>2. ASSUME NEW n \in S PROVE n + 1 \in S
    BY <1>3
  <2> HIDE DEF S
  <2> QED BY <2>1, <2>2, Induction
<1>5. Good(Len(E))
  BY <1>4
<1> QED BY <1>1, <1>5 DEF Good
-----------------------------------------------------------------------------
(***************************************************************************)
(* Arrays of addresses.                                                    *)
(***************************************************************************)

LEMMA MemberCodecs ==
    /\ MemberCodec("dest_addr_ton") = U8 /\ MemberCodec("dest_addr_npi") = U8
    /\ MemberCodec("destination_addr") = COctetStr(21) /\ MemberCodec("dl_name") = COctetStr(21)
    /\ MemberCodec("error_status_code") = U32
    /\ \A f : /\ SelfDelimiting(MemberCodec(f)) /\ FlatCodec(MemberCodec(f))
              /\ MemberCodec(f) # OctetStr(1)
<1>1. \A f : MemberCodec(f) = IF f \in {"destination_addr", "dl_name"} THEN COctetStr(21)
                              ELSE IF f = "error_status_code" THEN U32 ELSE U8
  BY DEF MemberCodec
<1>2. COctetStr(21) # OctetStr(1) /\ U32 # OctetStr(1) /\ U8 # OctetStr(1)
  BY DEF COctetStr, OctetStr, U32, U8
<1>3. SelfDelimiting(COctetStr(21)) /\ SelfDelimiting(U32) /\ SelfDelimiting(U8)
  BY DEF SelfDelimiting
<1> QED BY <1>1, <1>2, <1>3 DEF FlatCodec

\* One result of a decoder.
Only(value, rest) == {[value |-> value, rest |-> rest]}

\* A member that fits is read back and put into the object.
LEMMA ThenBack ==
    ASSUME NEW o, NEW f, NEW v \in FlatValues, FitsFlat(MemberCodec(f), v),
           NEW e \in EncodeFlat(MemberCodec(f), v), NEW r \in Seq(Bytes), NEW w, Joined(w, e, r)
    PROVE  Then(Only(o, w), f) = Only(Put(o, f, v), r)
<1> DEFINE c == MemberCodec(f)
           T(a) == {[value |-> Put(a.value, f, x.value), rest |-> x.rest] : x \in DecodeFlat(c, a.rest)}
           a0 == [value |-> o, rest |-> w]
<1>1. SelfDelimiting(c) /\ c # OctetStr(1)
  BY MemberCodecs
<1>2. DecodeFlat(c, w) = {[value |-> v, rest |-> r]}
  BY <1>1, FlatBack DEF Joined
<1>3. T(a0) = {[value |-> Put(o, f, x.value), rest |-> x.rest] : x \in {[value |-> v, rest |-> r]}}
  BY <1>2
<1>4. T(a0) = {[value |-> Put(o, f, v), rest |-> r]}
  BY <1>3
<1>5. Then({a0}, f) = UNION {T(a) : a \in {a0}}
  BY DEF Then
<1> HIDE DEF T, a0
<1>6. Then({a0}, f) = T(a0)
  BY <1>5
<1> QED BY <1>4, <1>6 DEF a0, Only

LEMMA DestBytes ==
    ASSUME NEW d, d \in [DOMAIN d -> FlatValues]
    PROVE  EncodeDest(d) \subseteq Seq(Bytes)
<1> DEFINE NumOr0(f) == IF f \in DOMAIN d THEN IF Is("num", d[f]) THEN d[f].num ELSE 0 ELSE 0
           HasText(f) == IF f \in DOMAIN d THEN Is("text", d[f]) ELSE FALSE
           a == BigEndian(NumOr0("dest_addr_ton"), 1)
           b == BigEndian(NumOr0("dest_addr_npi"), 1)
           x == <<1>> \o a \o b \o d["destination_addr"].text \o <<0>>
           y == <<2>> \o d["dl_name"].text \o <<0>>
<1>1. /\ HasText("destination_addr") => EncodeDest(d) = {x}
      /\ ~HasText("destination_addr") /\ HasText("dl_name") => EncodeDest(d) = {y}
      /\ ~HasText("destination_addr") /\ ~HasText("dl_name") => EncodeDest(d) = {}
  BY DEF EncodeDest
<1>2. \A f : NumOr0(f) \in Nat /\ (HasText(f) => d[f].text \in Seq(Bytes))
  BY FlatKinds
<1> HIDE DEF NumOr0, HasText
<1>3. a \in Seq(Bytes) /\ b \in Seq(Bytes)
  BY <1>2, BigEndianBytes
<1> HIDE DEF a, b
<1>4. <<1>> \in Seq(Bytes) /\ <<2>> \in Seq(Bytes) /\ <<0>> \in Seq(Bytes)
  BY DEF Bytes
<1>5. HasText("destination_addr") => x \in Seq(Bytes)
  BY <1>2, <1>3, <1>4, CatBytes
<1>6. HasText("dl_name") => y \in Seq(Bytes)
  BY <1>2, <1>4, CatBytes
<1> QED BY <1>1, <1>5, <1>6

LEMMA SmeBytes ==
    ASSUME NEW d, d \in [DOMAIN d -> FlatValues]
    PROVE  EncodeSme(d) \subseteq Seq(Bytes)
<1> DEFINE F(i) == IF SmeFields[i] \in DOMAIN d THEN EncodeFlat(MemberCodec(SmeFields[i]), d[SmeFields[i]]) ELSE {}
           E == [i \in DOMAIN SmeFields |-> F(i)]
<1>1. DOMAIN SmeFields = 1 .. 4
  BY DEF SmeFields
<1>2. EncodeSme(d) = ConcatAll(E)
  BY DEF EncodeSme
<1>3. \A i : F(i) \subseteq Seq(Bytes)
  BY MemberCodecs, FlatBytes
<1> HIDE DEF F
<1>4. Len(E) = 4 /\ \A k \in 1 .. Len(E) : E[k] \subseteq Seq(Bytes)
  BY <1>1, <1>3
<1> HIDE DEF E
<1>5. <<>> \in Seq(Bytes)
  OBVIOUS
<1>6. Len(E) \in Nat
  BY <1>4
<1>7. ASSUME NEW w \in ConcatAll(E) PROVE w \in Seq(Bytes)
  BY <1>4, <1>5, <1>6, Cut, Zenon
<1> QED BY <1>2, <1>7
\* The members are put in one after the other.
LEMMA PutAll ==
    ASSUME NEW d
    PROVE  /\ d \in [{"dl_name"} -> FlatValues] => Put(<<>>, "dl_name", d["dl_name"]) = d
           /\ d \in [{"dest_addr_ton", "dest_addr_npi", "destination_addr"} -> FlatValues] =>
                 Put(Put(Put(<<>>, "dest_addr_ton", d["dest_addr_ton"]), "dest_addr_npi", d["dest_addr_npi"]),
                     "destination_addr", d["destination_addr"]) = d
           /\ d \in [{"dest_addr_ton", "dest_addr_npi", "destination_addr", "error_status_code"} -> FlatValues] =>
                 Put(Put(Put(Put(<<>>, "dest_addr_ton", d["dest_addr_ton"]), "dest_addr_npi", d["dest_addr_npi"]),
                         "destination_addr", d["destination_addr"]), "error_status_code", d["error_status_code"]) = d
<1>0. DOMAIN <<>> = {}
  OBVIOUS
<1>1. ASSUME d \in [{"dl_name"} -> FlatValues]
      PROVE  Put(<<>>, "dl_name", d["dl_name"]) = d
  BY <1>0, <1>1 DEF Put
<1> DEFINE p == Put(<<>>, "dest_addr_ton", d["dest_addr_ton"])
           q == Put(p, "dest_addr_npi", d["dest_addr_npi"])
           r == Put(q, "destination_addr", d["destination_addr"])
           s == Put(r, "error_status_code", d["error_status_code"])
<1>2. p = [g \in {"dest_addr_ton"} |-> d[g]]
  BY <1>0 DEF Put
<1> HIDE DEF p
<1>3. q = [g \in {"dest_addr_ton", "dest_addr_npi"} |-> d[g]]
  BY <1>2 DEF Put
<1> HIDE DEF q
<1>4. r = [g \in {"dest_addr_ton", "dest_addr_npi", "destination_addr"} |-> d[g]]
  BY <1>3 DEF Put
<1> HIDE DEF r
<1>5. s = [g \in {"dest_addr_ton", "dest_addr_npi", "destination_addr", "error_status_code"} |-> d[g]]
  BY <1>4 DEF Put
<1> HIDE DEF s
<1>6. d \in [{"dest_addr_ton", "dest_addr_npi", "destination_addr"} -> FlatValues] => r = d
  BY <1>4
<1>7. d \in [{"dest_addr_ton", "dest_addr_npi", "destination_addr", "error_status_code"} -> FlatValues] => s = d
  BY <1>5
<1> QED BY <1>1, <1>6, <1>7 DEF p, q, r, s

\* A number in one byte.
LEMMA ByteOf ==
    ASSUME NEW n \in Bytes
    PROVE  BigEndian(n, 1) = <<n>> /\ n \div Powers[1] < 256 /\ n \in Nat /\ n % 256 = n
<1>1. n \in Nat /\ n < 256
  BY DEF Bytes
<1>2. n \div Powers[1] = n
  BY <1>1, SMT DEF Powers
<1>3. n % 256 = n
  BY <1>1
<1>4. BigEndian(n, 1) \in Seq(Bytes) /\ Len(BigEndian(n, 1)) = 1
  BY <1>1, BigEndianBytes
<1>5. BigEndian(n, 1)[1] = n
  BY <1>1, <1>2, <1>3, BigEndianIs
<1>6. ASSUME NEW b \in Seq(Bytes), Len(b) = 1, b[1] = n PROVE b = <<n>>
  BY <1>6
<1> QED BY <1>1, <1>2, <1>3, <1>4, <1>5, <1>6

\* Joined as a predicate.
LEMMA JoinedIs ==
    ASSUME NEW a \in Seq(Bytes), NEW b \in Seq(Bytes)
    PROVE  /\ Joined(a \o b, a, b) /\ a \o b \in Seq(Bytes)
           /\ \E w \in Seq(Bytes) : Joined(w, a, b)
           /\ \A w : Joined(w, a, b) => w \in Seq(Bytes) /\ w = a \o b /\ Len(w) = Len(a) + Len(b)
BY CatBytes DEF Joined

LEMMA JoinedAssociative ==
    ASSUME NEW a \in Seq(Bytes), NEW b \in Seq(Bytes), NEW c \in Seq(Bytes), NEW w,
           NEW ab, Joined(ab, a, b), NEW bc, Joined(bc, b, c)
    PROVE  Joined(w, ab, c) <=> Joined(w, a, bc)
<1>1. (a \o b) \o c = a \o (b \o c)
  OBVIOUS
<1> QED BY <1>1 DEF Joined
LEMMA DestBack ==
    ASSUME NEW d, d \in [DOMAIN d -> FlatValues],
           DOMAIN d \in {{"dest_addr_ton", "dest_addr_npi", "destination_addr"}, {"dl_name"}},
           \A f \in DOMAIN d : FitsFlat(MemberCodec(f), d[f]),
           NEW e \in EncodeDest(d), NEW r \in Seq(Bytes), NEW w, Joined(w, e, r)
    PROVE  DecodeDest(w) = Only(d, r)
<1> DEFINE NumOr0(f) == IF f \in DOMAIN d THEN IF Is("num", d[f]) THEN d[f].num ELSE 0 ELSE 0
           HasText(f) == IF f \in DOMAIN d THEN Is("text", d[f]) ELSE FALSE
           T(l) == IF l.value.num = 1
                   THEN Then(Then(Then(Start(l.rest), "dest_addr_ton"), "dest_addr_npi"), "destination_addr")
                   ELSE IF l.value.num = 2 THEN Then(Start(l.rest), "dl_name") ELSE {}
<1>0. \A q : Start(q) = Only(<<>>, q)
  BY DEF Start, Only
<1>1. DecodeDest(w) = UNION {T(l) : l \in ReadUint(w, 1)}
  BY DEF DecodeDest
<1>2. ASSUME NEW k \in Bytes, NEW q \in Seq(Bytes), Joined(w, <<k>>, q)
      PROVE  DecodeDest(w) = T([value |-> Num(k), rest |-> q])
  <2>1. BigEndian(k, 1) = <<k>> /\ k \div Powers[1] < 256 /\ k \in Nat
    BY ByteOf
  <2>2. ReadUint(BigEndian(k, 1) \o q, 1) = {[value |-> Num(k), rest |-> q]}
    BY <2>1, ReadUintBack
  <2>3. w = BigEndian(k, 1) \o q
    BY <1>2, <2>1 DEF Joined
  <2>4. ReadUint(w, 1) = {[value |-> Num(k), rest |-> q]}
    BY <2>2, <2>3
  <2> HIDE DEF T
  <2> QED BY <1>1, <2>4
<1>3. 1 \in Bytes /\ 2 \in Bytes /\ <<0>> \in Seq(Bytes) /\ <<1>> \in Seq(Bytes) /\ <<2>> \in Seq(Bytes)
  BY DEF Bytes
<1>o. PICK o \in Seq(Bytes), one \in Seq(Bytes), two \in Seq(Bytes) : o = <<0>> /\ one = <<1>> /\ two = <<2>>
  BY <1>3
<1>v. \A f \in DOMAIN d : d[f] \in FlatValues /\ FitsFlat(MemberCodec(f), d[f])
  OBVIOUS
<1>t. ASSUME NEW f \in DOMAIN d, NEW g, NEW x \in EncodeFlat(MemberCodec(f), d[f]),
             NEW q \in Seq(Bytes), NEW p, Joined(p, x, q)
      PROVE  Then(Only(g, p), f) = Only(Put(g, f, d[f]), q)
  BY <1>t, <1>v, ThenBack
<1>4. ASSUME NEW f, f \in DOMAIN d, MemberCodec(f) = U8
      PROVE  /\ NumOr0(f) = d[f].num /\ NumOr0(f) \in Nat /\ BigEndian(NumOr0(f), 1) \in EncodeFlat(MemberCodec(f), d[f])
  <2>1. FitsFlat(U8, d[f]) /\ d[f] \in FlatValues
    BY <1>4
  <2>2. Is("num", d[f])
    BY <2>1, SMT DEF FitsFlat, U8
  <2>3. d[f].num \in Nat
    BY <2>1, <2>2, FlatKinds
  <2>4. BigEndian(d[f].num, 1) \in EncodeFlat(U8, d[f])
    BY <2>2 DEF EncodeFlat, U8
  <2> QED BY <1>4, <2>2, <2>3, <2>4
<1>5. ASSUME NEW f, f \in DOMAIN d, MemberCodec(f) = COctetStr(21)
      PROVE  /\ HasText(f) /\ d[f].text \in Seq(Bytes)
             /\ \A s : Joined(s, d[f].text, o) => s \in EncodeFlat(MemberCodec(f), d[f])
  <2> DEFINE v == d[f]
             c == COctetStr(21)
  <2>1. FitsFlat(c, v) /\ v \in FlatValues /\ c.kind = "cstring" /\ c.max = 21
    BY <1>5 DEF COctetStr
  <2> HIDE DEF c
  <2>2. Is("text", v)
    BY <2>1, SMT DEF FitsFlat
  <2>3. Len(v.text) <= c.max
    BY <2>1, SMT DEF FitsFlat
  <2>4. v.text \in Seq(Bytes)
    BY <2>1, <2>2, FlatKinds
  <2>5. ~(Len(v.text) > c.max)
    BY <2>1, <2>3, <2>4
  <2>6. EncodeFlat(c, v) = {v.text \o <<0>>}
    BY <2>1, <2>2, <2>5 DEF EncodeFlat
  <2>7. EncodeFlat(MemberCodec(f), d[f]) = {v.text \o o}
    BY <1>5, <1>o, <2>6 DEF c
  <2> QED BY <1>5, <2>2, <2>4, <2>7 DEF Joined
<1>6. CASE DOMAIN d = {"dl_name"}
  <2> DEFINE t == d["dl_name"].text
  <2>1. HasText("dl_name") /\ ~HasText("destination_addr")
    BY <1>5, <1>6, MemberCodecs
  <2>2. e = (<<2>> \o t) \o <<0>>
    BY <2>1 DEF EncodeDest
  <2>3. t \in Seq(Bytes) /\ \A s : Joined(s, t, o) => s \in EncodeFlat(MemberCodec("dl_name"), d["dl_name"])
    BY <1>5, <1>6, MemberCodecs
  <2> HIDE DEF t
  <2>4. PICK s \in Seq(Bytes), k \in Seq(Bytes) : Joined(s, t, o) /\ Joined(k, two, t)
    BY <2>3, JoinedIs
  <2>5. Joined(e, k, o)
    BY <1>o, <2>2, <2>4 DEF Joined
  <2>6. Joined(e, two, s)
    BY <2>3, <2>4, <2>5, JoinedAssociative
  <2>7. PICK q \in Seq(Bytes) : Joined(q, s, r)
    BY JoinedIs
  <2>8. Joined(w, two, q)
    BY <2>6, <2>7, JoinedAssociative
  <2>9. DecodeDest(w) = Then(Start(q), "dl_name")
    <3>1. DecodeDest(w) = T([value |-> Num(2), rest |-> q])
      BY <1>2, <1>3, <1>o, <2>8
    <3>2. T([value |-> Num(2), rest |-> q]) = Then(Start(q), "dl_name")
      BY DEF Num
    <3> QED BY <3>1, <3>2
  <2>10. Then(Start(q), "dl_name") = Only(Put(<<>>, "dl_name", d["dl_name"]), r)
    BY <1>0, <1>6, <1>t, <2>3, <2>4, <2>7
  <2>11. Put(<<>>, "dl_name", d["dl_name"]) = d
    BY <1>6, PutAll
  <2> QED BY <2>9, <2>10, <2>11
<1>7. CASE DOMAIN d = {"dest_addr_ton", "dest_addr_npi", "destination_addr"}
  <2> DEFINE t == d["destination_addr"].text
             y == BigEndian(NumOr0("dest_addr_ton"), 1)
             z == BigEndian(NumOr0("dest_addr_npi"), 1)
  <2>1. HasText("destination_addr")
    BY <1>5, <1>7, MemberCodecs
  <2>2. e = (((<<1>> \o y) \o z) \o t) \o <<0>>
    BY <2>1 DEF EncodeDest
  <2>3. t \in Seq(Bytes)
        /\ \A s : Joined(s, t, o) => s \in EncodeFlat(MemberCodec("destination_addr"), d["destination_addr"])
    BY <1>5, <1>7, MemberCodecs
  <2>4. /\ y \in EncodeFlat(MemberCodec("dest_addr_ton"), d["dest_addr_ton"])
        /\ z \in EncodeFlat(MemberCodec("dest_addr_npi"), d["dest_addr_npi"])
        /\ y \in Seq(Bytes) /\ z \in Seq(Bytes)
    BY <1>4, <1>7, MemberCodecs, BigEndianBytes
  <2> HIDE DEF t, y, z
  <2>5. e = (((one \o y) \o z) \o t) \o o
    BY <1>o, <2>2
  <2>6. PICK s \in Seq(Bytes), q \in Seq(Bytes), q2 \in Seq(Bytes), q1 \in Seq(Bytes) :
           /\ Joined(w, one, q1) /\ Joined(q1, y, q2) /\ Joined(q2, z, q) /\ Joined(q, s, r)
           /\ Joined(s, t, o)
    <3>1. PICK p \in Seq(Bytes), u \in Seq(Bytes), v \in Seq(Bytes) :
             Joined(p, one, y) /\ Joined(u, p, z) /\ Joined(v, u, t) /\ Joined(e, v, o)
      BY <2>3, <2>4, <2>5, CatBytes DEF Joined
    <3>2. t \in Seq(Bytes) /\ y \in Seq(Bytes) /\ z \in Seq(Bytes)
      BY <2>3, <2>4
    <3>3. PICK s \in Seq(Bytes), k \in Seq(Bytes) : Joined(s, t, o) /\ Joined(k, o, r)
      BY <3>2, JoinedIs
    <3>4. PICK q \in Seq(Bytes) : Joined(q, t, k)
      BY <3>2, JoinedIs
    <3>5. PICK q2 \in Seq(Bytes) : Joined(q2, z, q)
      BY <3>2, JoinedIs
    <3>6. PICK q1 \in Seq(Bytes) : Joined(q1, y, q2)
      BY <3>2, JoinedIs
    <3>7. Joined(w, v, k)
      BY <3>1, <3>3, JoinedAssociative
    <3>8. Joined(w, u, q)
      BY <3>1, <3>2, <3>4, <3>7, JoinedAssociative
    <3>9. Joined(w, p, q2)
      BY <3>1, <3>2, <3>5, <3>8, JoinedAssociative
    <3>10. Joined(w, one, q1)
      BY <3>1, <3>2, <3>6, <3>9, JoinedAssociative
    <3>11. Joined(q, s, r)
      BY <3>2, <3>3, <3>4, JoinedAssociative
    <3> QED BY <3>3, <3>5, <3>6, <3>10, <3>11
  <2> DEFINE p1 == Put(<<>>, "dest_addr_ton", d["dest_addr_ton"])
             p2 == Put(p1, "dest_addr_npi", d["dest_addr_npi"])
             p3 == Put(p2, "destination_addr", d["destination_addr"])
  <2>7. DecodeDest(w) = Then(Then(Then(Start(q1), "dest_addr_ton"), "dest_addr_npi"), "destination_addr")
    <3>1. DecodeDest(w) = T([value |-> Num(1), rest |-> q1])
      BY <1>2, <1>3, <1>o, <2>6
    <3>2. T([value |-> Num(1), rest |-> q1])
             = Then(Then(Then(Start(q1), "dest_addr_ton"), "dest_addr_npi"), "destination_addr")
      BY DEF Num
    <3> QED BY <3>1, <3>2
  <2>8. Then(Start(q1), "dest_addr_ton") = Only(p1, q2)
    BY <1>0, <1>7, <1>t, <2>4, <2>6
  <2>9. Then(Only(p1, q2), "dest_addr_npi") = Only(p2, q)
    BY <1>7, <1>t, <2>4, <2>6
  <2>10. Then(Only(p2, q), "destination_addr") = Only(p3, r)
    BY <1>7, <1>t, <2>3, <2>6
  <2>11. p3 = d
    BY <1>7, PutAll
  <2> HIDE DEF p1, p2, p3
  <2> QED BY <2>7, <2>8, <2>9, <2>10, <2>11
<1> QED BY <1>6, <1>7
LEMMA SmeBack ==
    ASSUME NEW d, d \in [DOMAIN d -> FlatValues], DOMAIN d = ToSet(SmeFields),
           \A f \in DOMAIN d : FitsFlat(MemberCodec(f), d[f]),
           NEW e \in EncodeSme(d), NEW r \in Seq(Bytes), NEW w, Joined(w, e, r)
    PROVE  DecodeSme(w) = Only(d, r)
<1> DEFINE F(i) == IF SmeFields[i] \in DOMAIN d THEN EncodeFlat(MemberCodec(SmeFields[i]), d[SmeFields[i]]) ELSE {}
           E == [i \in DOMAIN SmeFields |-> F(i)]
<1>1. /\ DOMAIN SmeFields = 1 .. 4
      /\ SmeFields[1] = "dest_addr_ton" /\ SmeFields[2] = "dest_addr_npi"
      /\ SmeFields[3] = "destination_addr" /\ SmeFields[4] = "error_status_code"
  BY DEF SmeFields
<1>2. DOMAIN d = {"dest_addr_ton", "dest_addr_npi", "destination_addr", "error_status_code"}
  BY <1>1 DEF ToSet
<1>3. \A i : F(i) \subseteq Seq(Bytes)
  BY MemberCodecs, FlatBytes
<1>4. EncodeSme(d) = ConcatAll(E)
  BY DEF EncodeSme
<1>5. \A i \in 1 .. 4 : F(i) = EncodeFlat(MemberCodec(SmeFields[i]), d[SmeFields[i]])
  BY <1>1, <1>2
<1> HIDE DEF F
<1>6. Len(E) = 4 /\ \A k \in 1 .. 4 : E[k] = F(k)
  BY <1>1
<1> HIDE DEF E
<1>7. PICK x, s : CutBy(E, 4, x, s) /\ s[0] = e \o r /\ s[4] = r
  <2>1. Len(E) \in Nat /\ \A k \in 1 .. Len(E) : E[k] \subseteq Seq(Bytes)
    BY <1>3, <1>6
  <2>2. \E x, s : CutBy(E, Len(E), x, s) /\ s[0] = e \o r /\ s[Len(E)] = r
    BY <1>4, <2>1, Cut, SMTT(30)
  <2> QED BY <1>6, <2>2
<1>8. s[0] = w
  BY <1>7 DEF Joined
<1>9. ASSUME NEW k \in 1 .. 4
      PROVE  /\ x[k] \in EncodeFlat(MemberCodec(SmeFields[k]), d[SmeFields[k]])
             /\ Joined(s[k - 1], x[k], s[k]) /\ s[k] \in Seq(Bytes)
  BY <1>5, <1>6, <1>7 DEF CutBy
<1>10. \A f \in DOMAIN d : d[f] \in FlatValues /\ FitsFlat(MemberCodec(f), d[f])
  OBVIOUS
<1>11. ASSUME NEW k \in 1 .. 4, NEW g
       PROVE  Then(Only(g, s[k - 1]), SmeFields[k]) = Only(Put(g, SmeFields[k], d[SmeFields[k]]), s[k])
  <2>1. SmeFields[k] \in DOMAIN d
    BY <1>1, <1>2
  <2> QED BY <1>9, <1>10, <2>1, ThenBack
<1> DEFINE p1 == Put(<<>>, SmeFields[1], d[SmeFields[1]])
           p2 == Put(p1, SmeFields[2], d[SmeFields[2]])
           p3 == Put(p2, SmeFields[3], d[SmeFields[3]])
           p4 == Put(p3, SmeFields[4], d[SmeFields[4]])
<1>12. p4 = d
  BY <1>1, <1>2, PutAll
<1>13. Start(w) = Only(<<>>, s[0])
  BY <1>8 DEF Start, Only
<1>14. Then(Only(<<>>, s[0]), SmeFields[1]) = Only(p1, s[1])
  BY <1>11
<1> HIDE DEF p1
<1>15. Then(Only(p1, s[1]), SmeFields[2]) = Only(p2, s[2])
  BY <1>11
<1> HIDE DEF p2
<1>16. Then(Only(p2, s[2]), SmeFields[3]) = Only(p3, s[3])
  BY <1>11
<1> HIDE DEF p3
<1>17. Then(Only(p3, s[3]), SmeFields[4]) = Only(p4, s[4])
  BY <1>11
<1> HIDE DEF p4
<1> QED BY <1>7, <1>12, <1>13, <1>14, <1>15, <1>16, <1>17 DEF DecodeSme
\* The members of an array.
LEMMA ArrayValue ==
    ASSUME NEW v, IsValue(v), Is("arr", v)
    PROVE  /\ v = Arr(v.arr) /\ Len(v.arr) \in Nat /\ v.arr = [i \in 1 .. Len(v.arr) |-> v.arr[i]]
           /\ DOMAIN v.arr = 1 .. Len(v.arr)
           /\ \A i \in 1 .. Len(v.arr) : v.arr[i] \in [DOMAIN v.arr[i] -> FlatValues]
<1>1. v \notin FlatValues
  <2>1. \A u \in FlatValues : DOMAIN u \in {{"num"}, {"text"}, {"base64"}}
    BY DEF FlatValues
  <2> QED BY <2>1 DEF Is
<1>2. /\ v \in [arr : Seq(ToSet(v.arr))]
      /\ \A o \in ToSet(v.arr) : o \in [DOMAIN o -> FlatValues]
  BY <1>1 DEF IsValue
<1>3. v.arr \in Seq(ToSet(v.arr)) /\ v = Arr(v.arr)
  BY <1>2 DEF Arr
<1>4. Len(v.arr) \in Nat /\ DOMAIN v.arr = 1 .. Len(v.arr) /\ v.arr = [i \in 1 .. Len(v.arr) |-> v.arr[i]]
  BY <1>3
<1>5. \A i \in 1 .. Len(v.arr) : v.arr[i] \in ToSet(v.arr)
  BY <1>3, ElementOfSeq
<1> QED BY <1>2, <1>3, <1>4, <1>5

EncodeItem(c, d) == IF c = DestAddresses THEN EncodeDest(d) ELSE EncodeSme(d)

\* An array is a sequence of encodings: its length and its items.
LEMMA ArrayParts ==
    ASSUME NEW c, NEW s, Len(s) \in Nat, DOMAIN s = 1 .. Len(s),
           \A i \in 1 .. Len(s) : s[i] \in [DOMAIN s[i] -> FlatValues]
    PROVE  \E E : /\ EncodeArray(c, s) = ConcatAll(E) /\ Len(E) = Len(s) + 1
                  /\ E[1] = {BigEndian(Len(s), 1)}
                  /\ \A i \in 1 .. Len(s) : E[i + 1] = EncodeItem(c, s[i])
                  /\ \A k \in 1 .. Len(s) + 1 : E[k] \subseteq Seq(Bytes)
<1> DEFINE b == {BigEndian(Len(s), 1)}
           T == [i \in DOMAIN s |-> EncodeItem(c, s[i])]
           U == SUBSET Seq(Bytes)
           E == <<b>> \o T
<1>1. EncodeArray(c, s) = ConcatAll(E)
  BY DEF EncodeArray, EncodeItem
<1>2. b \in U
  BY BigEndianBytes
<1>3. \A i \in 1 .. Len(s) : EncodeItem(c, s[i]) \in U
  BY DestBytes, SmeBytes DEF EncodeItem
<1>4. T \in Seq(U) /\ Len(T) = Len(s) /\ \A i \in 1 .. Len(s) : T[i] = EncodeItem(c, s[i])
  BY <1>3
<1> HIDE DEF b, T, U
<1>5. <<b>> \in Seq(U) /\ Len(<<b>>) = 1 /\ <<b>>[1] = b
  BY <1>2
<1>6. PICK B \in Seq(U) : B = <<b>> /\ Len(B) = 1 /\ B[1] = b
  BY <1>5
<1>7. /\ B \o T \in Seq(U) /\ Len(B \o T) = Len(B) + Len(T)
      /\ \A i \in 1 .. Len(B) + Len(T) : (B \o T)[i] = IF i <= Len(B) THEN B[i] ELSE T[i - Len(B)]
  BY <1>4, ConcatProperties
<1>8. E = B \o T
  BY <1>6
<1> HIDE DEF E
<1>9. Len(E) = Len(s) + 1 /\ E \in Seq(U)
  BY <1>4, <1>6, <1>7, <1>8
<1>10. E[1] = b
  BY <1>4, <1>6, <1>7, <1>8
<1>11. ASSUME NEW i \in 1 .. Len(s) PROVE E[i + 1] = T[i]
  <2>1. i + 1 \in 1 .. Len(B) + Len(T) /\ ~(i + 1 <= Len(B)) /\ (i + 1) - Len(B) = i
    BY <1>4, <1>6
  <2> QED BY <1>7, <1>8, <2>1
<1>12. \A k \in 1 .. Len(s) + 1 : E[k] \in U
  BY <1>9, ElementOfSeq
<1> QED BY <1>1, <1>4, <1>9, <1>10, <1>11, <1>12 DEF U, b
\* An item that fits is read back.
LEMMA ItemBack ==
    ASSUME NEW c \in {DestAddresses, UnsuccessSmes}, NEW v, IsValue(v), Fits(c, v),
           NEW i \in 1 .. Len(v.arr), NEW e \in EncodeItem(c, v.arr[i]), NEW r \in Seq(Bytes),
           NEW w, Joined(w, e, r)
    PROVE  DecodeItem(c, w) = Only(v.arr[i], r)
<1> DEFINE d == v.arr[i]
<1>1. c.kind \in {"dests", "smes"} /\ DestAddresses # UnsuccessSmes
  BY DEF DestAddresses, UnsuccessSmes
<1>2. Is("arr", v)
  BY <1>1 DEF Fits
<1>3. d \in [DOMAIN d -> FlatValues] /\ i \in DOMAIN v.arr
  BY <1>2, ArrayValue
<1>4. \A f \in DOMAIN d : FitsFlat(MemberCodec(f), d[f])
  BY <1>1, <1>3 DEF Fits
<1>5. CASE c = DestAddresses
  <2>1. DOMAIN d \in {{"dest_addr_ton", "dest_addr_npi", "destination_addr"}, {"dl_name"}}
    BY <1>1, <1>3, <1>5 DEF Fits
  <2>2. e \in EncodeDest(d)
    BY <1>5 DEF EncodeItem
  <2> HIDE DEF d
  <2>3. DecodeDest(w) = Only(d, r)
    BY <1>3, <1>4, <2>1, <2>2, DestBack
  <2> QED BY <1>5, <2>3 DEF DecodeItem, d
<1>6. CASE c = UnsuccessSmes
  <2>1. DOMAIN d = ToSet(SmeFields)
    BY <1>1, <1>3, <1>6 DEF Fits
  <2>2. e \in EncodeSme(d)
    BY <1>1, <1>6 DEF EncodeItem
  <2> HIDE DEF d
  <2>3. DecodeSme(w) = Only(d, r)
    BY <1>3, <1>4, <2>1, <2>2, SmeBack
  <2> QED BY <1>1, <1>6, <2>3 DEF DecodeItem, d
<1> QED BY <1>5, <1>6

LEMMA ItemStepOnly ==
    ASSUME NEW c, NEW x, NEW q, NEW d, NEW r, DecodeItem(c, q) = Only(d, r)
    PROVE  ItemStep(c, Only(x, q)) = Only(Append(x, d), r)
<1> DEFINE T(a) == {[value |-> Append(a.value, y.value), rest |-> y.rest] : y \in DecodeItem(c, a.rest)}
<1>1. ItemStep(c, Only(x, q)) = UNION {T(a) : a \in Only(x, q)}
  BY DEF ItemStep
<1>2. T([value |-> x, rest |-> q]) = Only(Append(x, d), r)
  <2>1. T([value |-> x, rest |-> q]) = {[value |-> Append(x, y.value), rest |-> y.rest] : y \in DecodeItem(c, q)}
    OBVIOUS
  <2>2. DecodeItem(c, q) = {[value |-> d, rest |-> r]}
    BY DEF Only
  <2> HIDE DEF T
  <2> QED BY <2>1, <2>2 DEF Only
<1> HIDE DEF T
<1>3. {T(a) : a \in Only(x, q)} = {T([value |-> x, rest |-> q])}
  BY DEF Only
<1>4. PICK Z : Z = T([value |-> x, rest |-> q])
  OBVIOUS
<1>5. UNION {Z} = Z
  OBVIOUS
<1>6. ItemStep(c, Only(x, q)) = UNION {Z}
  BY <1>1, <1>3, <1>4
<1> QED BY <1>2, <1>4, <1>5, <1>6

\* The items one after the other.
LEMMA ItemsBack ==
    ASSUME NEW c \in {DestAddresses, UnsuccessSmes}, NEW v, IsValue(v), Fits(c, v), Is("arr", v),
           NEW e, NEW s \in [0 .. Len(v.arr) + 1 -> Seq(Bytes)],
           \A k \in 1 .. Len(v.arr) :
               e[k + 1] \in EncodeItem(c, v.arr[k]) /\ Joined(s[k], e[k + 1], s[k + 1])
    PROVE  DecodeItems(c, Len(v.arr), s[1]) = Only(v.arr, s[Len(v.arr) + 1])
<1> DEFINE n == Len(v.arr)
           A(k) == [i \in 1 .. k |-> v.arr[i]]
<1>1. n \in Nat /\ v.arr = A(n)
  BY ArrayValue
<1> HIDE DEF n
<1>2. PICK f : /\ f[0] = {[value |-> <<>>, rest |-> s[1]]}
               /\ \A k \in 1 .. n : f[k] = ItemStep(c, f[k - 1])
               /\ DecodeItems(c, n, s[1]) = f[n]
  <2>1. n \in Nat
    BY <1>1
  <2>2. \E f : ItemsBy(c, n, s[1], f)
    BY <2>1, ItemsByExists
  <2> QED BY <2>2 DEF ItemsBy
<1> DEFINE S == {k \in Nat : k <= n => f[k] = Only(A(k), s[k + 1])}
<1>3. 0 \in S
  <2>1. A(0) = <<>>
    OBVIOUS
  <2>2. f[0] = Only(A(0), s[0 + 1])
    BY <1>2, <2>1 DEF Only
  <2> HIDE DEF A
  <2> QED BY <2>2
<1>4. ASSUME NEW k \in S PROVE k + 1 \in S
  <2> SUFFICES ASSUME k + 1 <= n PROVE f[k + 1] = Only(A(k + 1), s[k + 2])
    OBVIOUS
  <2>1. k \in Nat /\ k + 1 \in 1 .. n /\ (k + 1) - 1 = k /\ (k + 1) + 1 = k + 2
    BY <1>1, SMTT(30)
  <2>2. f[k] = Only(A(k), s[k + 1])
    BY <1>1, <2>1
  <2>3. f[k + 1] = ItemStep(c, f[k])
    BY <1>2, <2>1
  <2>4. DecodeItem(c, s[k + 1]) = Only(v.arr[k + 1], s[k + 2])
    <3>1. e[k + 2] \in EncodeItem(c, v.arr[k + 1]) /\ Joined(s[k + 1], e[k + 2], s[k + 2])
      <4>1. \A j \in 1 .. n : e[j + 1] \in EncodeItem(c, v.arr[j]) /\ Joined(s[j], e[j + 1], s[j + 1])
        BY DEF n
      <4>2. e[(k + 1) + 1] \in EncodeItem(c, v.arr[k + 1]) /\ Joined(s[k + 1], e[(k + 1) + 1], s[(k + 1) + 1])
        BY <2>1, <4>1
      <4> QED BY <2>1, <4>2
    <3>2. k + 2 \in 0 .. n + 1 /\ s[k + 2] \in Seq(Bytes)
      <4>1. k + 2 \in 0 .. n + 1
        BY <1>1, <2>1
      <4> QED BY <4>1 DEF n
    <3>3. k + 1 \in 1 .. Len(v.arr)
      BY <2>1 DEF n
    <3> HIDE DEF A, S
    <3> QED BY <3>1, <3>2, <3>3, ItemBack
  <2>5. Append(A(k), v.arr[k + 1]) = A(k + 1)
    BY <2>1
  <2> HIDE DEF A, S, n
  <2>6. ItemStep(c, Only(A(k), s[k + 1])) = Only(Append(A(k), v.arr[k + 1]), s[k + 2])
    BY <2>4, ItemStepOnly
  <2> QED BY <2>2, <2>3, <2>5, <2>6
<1>5. n \in S
  <2> HIDE DEF n
  <2>1. S \in SUBSET Nat
    OBVIOUS
  <2> HIDE DEF S
  <2> QED BY <1>1, <1>3, <1>4, <2>1, Induction
<1> HIDE DEF A
<1>6. f[n] = Only(A(n), s[n + 1])
  BY <1>1, <1>5
<1> QED BY <1>1, <1>2, <1>6 DEF n

\* An array that fits is read back.
LEMMA ArrayBack ==
    ASSUME NEW c \in {DestAddresses, UnsuccessSmes}, NEW v, IsValue(v), Fits(c, v),
           NEW e \in EncodeArray(c, v.arr), NEW r \in Seq(Bytes), NEW w, Joined(w, e, r)
    PROVE  DecodeArray(c, w) = Only(v, r)
<1> DEFINE n == Len(v.arr)
<1>1. Is("arr", v) /\ n < 256
  <2>1. c.kind \in {"dests", "smes"}
    BY DEF DestAddresses, UnsuccessSmes
  <2> QED BY <2>1 DEF Fits
<1>2. /\ v = Arr(v.arr) /\ n \in Nat /\ DOMAIN v.arr = 1 .. n
      /\ \A i \in 1 .. n : v.arr[i] \in [DOMAIN v.arr[i] -> FlatValues]
  BY <1>1, ArrayValue
<1>3. PICK E : /\ EncodeArray(c, v.arr) = ConcatAll(E) /\ Len(E) = n + 1
               /\ E[1] = {BigEndian(n, 1)}
               /\ \A i \in 1 .. n : E[i + 1] = EncodeItem(c, v.arr[i])
               /\ \A k \in 1 .. n + 1 : E[k] \subseteq Seq(Bytes)
  BY <1>2, ArrayParts
<1>4. Len(E) \in Nat
  BY <1>2, <1>3
<1>5. PICK p, s : CutBy(E, n + 1, p, s) /\ s[0] = e \o r /\ s[n + 1] = r
  <2>1. \A k \in 1 .. Len(E) : E[k] \subseteq Seq(Bytes)
    BY <1>3
  <2>2. e \in ConcatAll(E)
    BY <1>3
  <2>3. \E p, s : CutBy(E, Len(E), p, s) /\ s[0] = e \o r /\ s[Len(E)] = r
    BY <1>4, <2>1, <2>2, Cut
  <2> QED BY <1>3, <2>3
<1>6. /\ s \in [0 .. n + 1 -> Seq(Bytes)]
      /\ \A k \in 1 .. n + 1 : p[k] \in E[k] /\ Joined(s[k - 1], p[k], s[k])
  BY <1>5 DEF CutBy
<1>7. \A k \in 1 .. n : p[k + 1] \in EncodeItem(c, v.arr[k]) /\ Joined(s[k], p[k + 1], s[k + 1])
  <2> SUFFICES ASSUME NEW k \in 1 .. n
               PROVE  p[k + 1] \in EncodeItem(c, v.arr[k]) /\ Joined(s[k], p[k + 1], s[k + 1])
    OBVIOUS
  <2>1. k + 1 \in 1 .. n + 1 /\ (k + 1) - 1 = k
    BY <1>2
  <2>2. p[k + 1] \in E[k + 1] /\ Joined(s[k], p[k + 1], s[k + 1])
    BY <1>6, <2>1
  <2> QED BY <1>3, <2>2
<1>8. DecodeItems(c, n, s[1]) = Only(v.arr, r)
  BY <1>1, <1>5, <1>6, <1>7, ItemsBack
<1>9. ReadUint(w, 1) = {[value |-> Num(n), rest |-> s[1]]}
  <2>1. 1 \in 1 .. n + 1 /\ 1 - 1 = 0 /\ s[1] \in Seq(Bytes)
    BY <1>2, <1>6
  <2>2. p[1] = BigEndian(n, 1) /\ Joined(s[0], p[1], s[1])
    BY <1>3, <1>6, <2>1
  <2>3. w = BigEndian(n, 1) \o s[1]
    BY <1>5, <2>2 DEF Joined
  <2>4. n \in Bytes
    <3>1. n \in Nat /\ n < 256
      BY <1>1, <1>2
    <3> HIDE DEF n
    <3> QED BY <3>1 DEF Bytes
  <2>5. n \div Powers[1] < 256
    BY <2>4, ByteOf
  <2> HIDE DEF n
  <2> QED BY <1>2, <2>1, <2>3, <2>5, ReadUintBack
<1> DEFINE T(l) == DecodeItems(c, l.value.num, l.rest)
<1>10. UNION {T(l) : l \in ReadUint(w, 1)} = Only(v.arr, r)
  <2>1. T([value |-> Num(n), rest |-> s[1]]) = Only(v.arr, r)
    BY <1>8 DEF Num
  <2> HIDE DEF T, n
  <2> QED BY <1>9, <2>1
<1>11. DecodeArray(c, w) = {[value |-> Arr(x.value), rest |-> x.rest] : x \in Only(v.arr, r)}
  BY <1>10 DEF DecodeArray
<1> QED BY <1>2, <1>11 DEF Only
-----------------------------------------------------------------------------
(***************************************************************************)
(* Fields.                                                                 *)
(***************************************************************************)
LEMMA FieldCodecKinds ==
    ASSUME NEW c \in FieldCodecs
    PROVE  \/ c \in {DestAddresses, UnsuccessSmes} /\ c.kind \in {"dests", "smes"}
           \/ SelfDelimiting(c) /\ FlatCodec(c) /\ c.kind \notin {"dests", "smes"} /\ c # OptionalU8(0)
<1>1. CASE c \in {DestAddresses, UnsuccessSmes}
  BY <1>1 DEF DestAddresses, UnsuccessSmes
<1>2. CASE c \in {U8, OctetStr(1)}
  BY <1>2 DEF SelfDelimiting, FlatCodec, U8, OctetStr, OptionalU8
<1>3. CASE \E n \in 0 .. 255 : c = COctetStr(n)
  <2>1. PICK n \in 0 .. 255 : c = COctetStr(n)
    BY <1>3
  <2>2. n \in Nat
    OBVIOUS
  <2>3. SelfDelimiting(c)
    BY <2>1, <2>2 DEF SelfDelimiting
  <2>4. c.kind = "cstring" /\ OptionalU8(0).kind = "optional"
    BY <2>1 DEF COctetStr, OptionalU8
  <2> QED BY <2>3, <2>4 DEF FlatCodec
<1> QED BY <1>1, <1>2, <1>3 DEF FieldCodecs

\* A list has no encoding but by the codec of lists; an optional number is always written.
LEMMA ListNotFlat ==
    ASSUME NEW c, FlatCodec(c), NEW v, IsValue(v), v \notin FlatValues
    PROVE  /\ c # OptionalU8(0) => EncodeFlat(c, v) = {}
           /\ c = OptionalU8(0) => EncodeFlat(c, v) \subseteq Seq(Bytes) /\ ~FitsFlat(c, v)
<1>1. ~Is("num", v) /\ ~Is("text", v) /\ ~Is("base64", v)
  <2>1. DOMAIN v = {"arr"}
    BY DEF IsValue
  <2> QED BY <2>1 DEF Is
<1>2. ASSUME c # OptionalU8(0) PROVE EncodeFlat(c, v) = {}
  <2>1. c.kind \in {"uint", "varint", "cstring", "octets"}
    BY <1>2 DEF FlatCodec, SelfDelimiting, U8, U16, U32, OctetStr, COctetStr, VarLengthInt
  <2> QED BY <1>1, <2>1 DEF EncodeFlat
<1>3. ASSUME c = OptionalU8(0) PROVE EncodeFlat(c, v) \subseteq Seq(Bytes)
  <2>1. c.kind = "optional" /\ c.default = 0
    BY <1>3 DEF OptionalU8
  <2>2. EncodeFlat(c, v) = {BigEndian(0, 1)}
    BY <1>1, <2>1 DEF EncodeFlat
  <2> QED BY <2>2, BigEndianBytes
<1>4. ASSUME c = OptionalU8(0) PROVE ~FitsFlat(c, v)
  <2>1. c.kind = "optional"
    BY <1>4 DEF OptionalU8
  <2> QED BY <1>1, <2>1, SMT DEF FitsFlat
<1> QED BY <1>2, <1>3, <1>4

\* A single value that fits and has an encoding is none of these.
LEMMA FitsIsFlat ==
    ASSUME NEW c, FlatCodec(c), NEW v, IsValue(v), FitsFlat(c, v), EncodeFlat(c, v) # {}
    PROVE  v \in FlatValues
BY ListNotFlat

LEMMA FlatEncodingBytes ==
    ASSUME NEW c, FlatCodec(c), NEW v, IsValue(v)
    PROVE  EncodeFlat(c, v) \subseteq Seq(Bytes)
BY ListNotFlat, FlatBytes

\* The codec of a field writes bytes.
LEMMA FieldBytes ==
    ASSUME NEW c \in FieldCodecs, NEW v, IsValue(v)
    PROVE  Encode(c, v) \subseteq Seq(Bytes)
<1>1. CASE c \in {DestAddresses, UnsuccessSmes} /\ c.kind \in {"dests", "smes"}
  <2> SUFFICES ASSUME NEW e \in Encode(c, v) PROVE e \in Seq(Bytes)
    OBVIOUS
  <2>1. Is("arr", v) /\ e \in EncodeArray(c, v.arr)
    BY <1>1 DEF Encode
  <2>2. /\ Len(v.arr) \in Nat /\ DOMAIN v.arr = 1 .. Len(v.arr)
        /\ \A i \in 1 .. Len(v.arr) : v.arr[i] \in [DOMAIN v.arr[i] -> FlatValues]
    BY <2>1, ArrayValue
  <2>3. PICK E : /\ EncodeArray(c, v.arr) = ConcatAll(E) /\ Len(E) = Len(v.arr) + 1
                 /\ \A k \in 1 .. Len(v.arr) + 1 : E[k] \subseteq Seq(Bytes)
    BY <2>2, ArrayParts
  <2>4. Len(E) \in Nat /\ \A k \in 1 .. Len(E) : E[k] \subseteq Seq(Bytes)
    BY <2>2, <2>3
  <2>5. e \in ConcatAll(E) /\ <<>> \in Seq(Bytes)
    BY <2>1, <2>3
  <2> QED BY <2>4, <2>5, Cut
<1>2. CASE FlatCodec(c) /\ c.kind \notin {"dests", "smes"}
  <2>1. Encode(c, v) = EncodeFlat(c, v)
    BY <1>2 DEF Encode
  <2> QED BY <1>2, <2>1, FlatEncodingBytes
<1> QED BY <1>1, <1>2, FieldCodecKinds

\* A field that fits is read back, and what follows it is left.
LEMMA FieldBack ==
    ASSUME NEW c \in FieldCodecs, NEW v, IsValue(v), Fits(c, v), NEW e \in Encode(c, v),
           NEW r \in Seq(Bytes), NEW w, Joined(w, e, r)
    PROVE  \E u : Decode(c, w) = Only(u, r) /\ Same(u, v) /\ (c # OctetStr(1) => u = v)
<1>1. CASE c \in {DestAddresses, UnsuccessSmes} /\ c.kind \in {"dests", "smes"}
  <2>1. e \in EncodeArray(c, v.arr) /\ Is("arr", v)
    BY <1>1 DEF Encode
  <2>2. DecodeArray(c, w) = Only(v, r)
    BY <1>1, <2>1, ArrayBack
  <2>3. Decode(c, w) = Only(v, r)
    BY <1>1, <2>2 DEF Decode
  <2>4. Same(v, v)
    <3>1. DOMAIN v = {"arr"}
      <4>1. v = Arr(v.arr)
        BY <2>1, ArrayValue
      <4> QED BY <4>1 DEF Arr
    <3> QED BY <3>1 DEF Same, Is
  <2> QED BY <2>3, <2>4
<1>2. CASE SelfDelimiting(c) /\ FlatCodec(c) /\ c.kind \notin {"dests", "smes"}
  <2>1. e \in EncodeFlat(c, v) /\ Decode(c, w) = DecodeFlat(c, w)
    BY <1>2 DEF Encode, Decode
  <2>2. FitsFlat(c, v)
    BY <1>2 DEF Fits
  <2>3. v \in FlatValues
    BY <1>2, <2>1, <2>2, FitsIsFlat
  <2>4. PICK u : /\ DecodeFlat(c, e \o r) = {[value |-> u, rest |-> r]} /\ Same(u, v)
                 /\ c # OctetStr(1) => u = v
    BY <1>2, <2>1, <2>2, <2>3, FlatBack
  <2>5. w = e \o r
    BY DEF Joined
  <2>6. Decode(c, w) = Only(u, r)
    BY <2>1, <2>4, <2>5 DEF Only
  <2> QED BY <2>4, <2>6
<1> QED BY <1>1, <1>2, FieldCodecKinds
\* The values that a field of a message may be written with.
Given(m, f) == IF f \in DOMAIN m.fields THEN {m.fields[f]} ELSE DefaultOf(m.command, f)

\* Fields that can be carried: a value of it and what it is decoded to.
FitsGiven(m, f) == f \in DOMAIN m.fields => Fits(FieldCodec(f), m.fields[f])
GivenAs(m, f, u) == \E v \in Given(m, f) : Same(u, v) /\ (FieldCodec(f) # OctetStr(1) => u = v)

LEMMA FieldNames ==
    ASSUME NEW c \in Commands
    PROVE  LET names == FieldsOf(c)
           IN  /\ Len(names) \in Nat /\ DOMAIN names = 1 .. Len(names)
               /\ \A i, j \in 1 .. Len(names) : names[i] = names[j] => i = j
               /\ ToSet(names) = {names[i] : i \in 1 .. Len(names)}
               /\ \A i \in 1 .. Len(names) : FieldCodec(names[i]) \in FieldCodecs /\ names[i] \in ToSet(names)
<1>1. /\ FieldsOf(c) \in Seq(STRING) /\ IsInjective(FieldsOf(c))
      /\ \A i \in DOMAIN FieldsOf(c) : FieldCodec(FieldsOf(c)[i]) \in FieldCodecs
  BY TableAssumption
<1>2. Len(FieldsOf(c)) \in Nat /\ DOMAIN FieldsOf(c) = 1 .. Len(FieldsOf(c))
  BY <1>1
<1> QED BY <1>1, <1>2 DEF IsInjective, ToSet

\* What is written is a value that can be written.
LEMMA GivenValues ==
    ASSUME NEW m, IsMessage(m), NEW i \in 1 .. Len(FieldsOf(m.command)), NEW v \in Given(m, FieldsOf(m.command)[i])
    PROVE  IsValue(v) /\ (FitsGiven(m, FieldsOf(m.command)[i]) => Fits(FieldCodec(FieldsOf(m.command)[i]), v))
<1> DEFINE f == FieldsOf(m.command)[i]
<1>1. m.command \in Commands /\ \A g \in DOMAIN m.fields : IsValue(m.fields[g])
  BY DEF IsMessage
<1>2. f \in ToSet(FieldsOf(m.command))
  BY <1>1, FieldNames
<1> HIDE DEF f
<1>3. CASE f \in DOMAIN m.fields
  BY <1>1, <1>3 DEF Given, FitsGiven, f
<1>4. CASE f \notin DOMAIN m.fields
  <2>1. v \in DefaultOf(m.command, f)
    BY <1>4 DEF Given, f
  <2> QED BY <1>1, <1>2, <2>1, DefaultAssumption DEF f
<1> QED BY <1>3, <1>4

\* The fields are a sequence of encodings.
LEMMA FieldsParts ==
    ASSUME NEW m, IsMessage(m)
    PROVE  \E E : /\ EncodeFields(m) = ConcatAll(E) /\ Len(E) = Len(FieldsOf(m.command)) /\ Len(E) \in Nat
                  /\ \A i \in 1 .. Len(E) :
                        /\ E[i] \subseteq Seq(Bytes)
                        /\ \A e \in E[i] : \E v \in Given(m, FieldsOf(m.command)[i]) :
                              e \in Encode(FieldCodec(FieldsOf(m.command)[i]), v)
<1> DEFINE names == FieldsOf(m.command)
           P(f) == UNION {Encode(FieldCodec(f), v) : v \in Given(m, f)}
           E == [i \in DOMAIN names |-> P(names[i])]
<1>1. EncodeFields(m) = ConcatAll(E)
  BY DEF EncodeFields, Given
<1>2. m.command \in Commands
  BY DEF IsMessage
<1>3. Len(names) \in Nat /\ DOMAIN names = 1 .. Len(names)
  BY <1>2, FieldNames
<1>4. \A i \in 1 .. Len(names) : FieldCodec(names[i]) \in FieldCodecs
  BY <1>2, FieldNames
<1>5. \A i \in 1 .. Len(names) : \A e \in P(names[i]) : \E v \in Given(m, names[i]) : e \in Encode(FieldCodec(names[i]), v)
  OBVIOUS
<1>6. \A i \in 1 .. Len(names) : P(names[i]) \subseteq Seq(Bytes)
  BY <1>4, GivenValues, FieldBytes
<1> HIDE DEF P
<1>7. Len(E) = Len(names) /\ \A i \in 1 .. Len(names) : E[i] = P(names[i])
  BY <1>3
<1> HIDE DEF E
<1> QED BY <1>1, <1>3, <1>5, <1>6, <1>7
FieldsBy(names, b, f) ==
    /\ f[0] = Only(<<>>, b)
    /\ \A k \in 1 .. Len(names) : f[k] = FieldStep(names, k, f[k - 1])
    /\ DecodeFields(names, b) = f[Len(names)]

LEMMA FieldsByExists ==
    ASSUME NEW names, Len(names) \in Nat, NEW b
    PROVE  \E f : FieldsBy(names, b, f)
BY DecodeFieldsSteps DEF FieldsBy, Only

LEMMA FieldStepOnly ==
    ASSUME NEW names, NEW k, NEW x, NEW q, NEW u, NEW r, Decode(FieldCodec(names[k]), q) = Only(u, r)
    PROVE  FieldStep(names, k, Only(x, q)) = Only(Put(x, names[k], u), r)
<1> DEFINE T(a) == {[value |-> Put(a.value, names[k], y.value), rest |-> y.rest] :
                        y \in Decode(FieldCodec(names[k]), a.rest)}
<1>1. FieldStep(names, k, Only(x, q)) = UNION {T(a) : a \in Only(x, q)}
  BY DEF FieldStep
<1>2. T([value |-> x, rest |-> q]) = Only(Put(x, names[k], u), r)
  <2>1. T([value |-> x, rest |-> q]) =
            {[value |-> Put(x, names[k], y.value), rest |-> y.rest] : y \in Decode(FieldCodec(names[k]), q)}
    OBVIOUS
  <2>2. Decode(FieldCodec(names[k]), q) = {[value |-> u, rest |-> r]}
    BY DEF Only
  <2> HIDE DEF T
  <2> QED BY <2>1, <2>2 DEF Only
<1> HIDE DEF T
<1> QED BY <1>1, <1>2 DEF Only

\* The stream that the fields of a message have been cut from.
FieldsCut(m, e, s) ==
    LET names == FieldsOf(m.command)
    IN  /\ s \in [0 .. Len(names) -> Seq(Bytes)]
        /\ \A i \in 1 .. Len(names) :
              /\ Joined(s[i - 1], e[i], s[i])
              /\ \E v \in Given(m, names[i]) : e[i] \in Encode(FieldCodec(names[i]), v)

\* The first k fields have been read.
ReadFrom(m, V, k) ==
    LET names == FieldsOf(m.command)
    IN  /\ DOMAIN V = {names[i] : i \in 1 .. k}
        /\ \A i \in 1 .. k : GivenAs(m, names[i], V[names[i]])

LEMMA ReadOneMore ==
    ASSUME NEW m, m.command \in Commands, NEW k \in Nat, k + 1 <= Len(FieldsOf(m.command)),
           NEW V, ReadFrom(m, V, k), NEW u, GivenAs(m, FieldsOf(m.command)[k + 1], u)
    PROVE  ReadFrom(m, Put(V, FieldsOf(m.command)[k + 1], u), k + 1)
<1> DEFINE names == FieldsOf(m.command)
           W == Put(V, names[k + 1], u)
<1>0. Len(names) \in Nat /\ \A i, j \in 1 .. Len(names) : names[i] = names[j] => i = j
  BY FieldNames
<1>1. DOMAIN V = {names[i] : i \in 1 .. k} /\ \A i \in 1 .. k : GivenAs(m, names[i], V[names[i]])
  BY DEF ReadFrom
<1> HIDE DEF names
<1>2. DOMAIN W = {names[k + 1]} \cup DOMAIN V
  BY DEF Put
<1>3. \A i \in 1 .. k + 1 : i \in 1 .. k \/ i = k + 1
  OBVIOUS
<1>4. DOMAIN W = {names[i] : i \in 1 .. k + 1}
  <2>1. k + 1 \in 1 .. k + 1 /\ \A i \in 1 .. k : i \in 1 .. k + 1
    OBVIOUS
  <2> QED BY <1>1, <1>2, <1>3, <2>1
<1>5. W[names[k + 1]] = u
  BY DEF Put
<1>6. ASSUME NEW i \in 1 .. k PROVE W[names[i]] = V[names[i]]
  <2>1. i \in 1 .. Len(names) /\ k + 1 \in 1 .. Len(names) /\ i # k + 1
    BY <1>0 DEF names
  <2>2. names[i] # names[k + 1] /\ names[i] \in DOMAIN V
    BY <1>0, <1>1, <2>1
  <2> QED BY <2>2 DEF Put
<1>7. \A i \in 1 .. k + 1 : GivenAs(m, names[i], W[names[i]])
  <2> HIDE DEF W
  <2>1. GivenAs(m, names[k + 1], u)
    BY DEF names
  <2> QED BY <1>1, <1>3, <1>5, <1>6, <2>1
<1> QED BY <1>4, <1>7 DEF ReadFrom, names

\* As far as the fields fit, they are read back.
LEMMA FieldsBack ==
    ASSUME NEW m, IsMessage(m), NEW e, NEW s, FieldsCut(m, e, s), NEW f, FieldsBy(FieldsOf(m.command), s[0], f),
           NEW K \in 0 .. Len(FieldsOf(m.command)), \A i \in 1 .. K : FitsGiven(m, FieldsOf(m.command)[i])
    PROVE  \E V : f[K] = Only(V, s[K]) /\ ReadFrom(m, V, K)
<1> DEFINE names == FieldsOf(m.command)
           n == Len(names)
<1>0. m.command \in Commands
  BY DEF IsMessage
<1>1. n \in Nat
  BY <1>0, FieldNames
<1>2. \A i \in 1 .. n : FieldCodec(names[i]) \in FieldCodecs
  BY <1>0, FieldNames
<1>3. f[0] = Only(<<>>, s[0]) /\ \A k \in 1 .. n : f[k] = FieldStep(names, k, f[k - 1])
  BY DEF FieldsBy
<1>4. /\ s \in [0 .. n -> Seq(Bytes)]
      /\ \A i \in 1 .. n : /\ Joined(s[i - 1], e[i], s[i])
                           /\ \E v \in Given(m, names[i]) : e[i] \in Encode(FieldCodec(names[i]), v)
  BY DEF FieldsCut
<1>5. K \in 0 .. n /\ \A i \in 1 .. K : FitsGiven(m, names[i])
  OBVIOUS
<1>6. ASSUME NEW i \in 1 .. n, NEW v \in Given(m, names[i])
      PROVE  IsValue(v) /\ (FitsGiven(m, names[i]) => Fits(FieldCodec(names[i]), v))
  BY GivenValues
<1> DEFINE S == {k \in Nat : k <= K => \E V : f[k] = Only(V, s[k]) /\ ReadFrom(m, V, k)}
<1>7. 0 \in S
  <2>1. ReadFrom(m, <<>>, 0)
    BY DEF ReadFrom
  <2> QED BY <1>3, <2>1
<1>m. ASSUME NEW k \in Nat, k + 1 <= n, NEW V, ReadFrom(m, V, k), NEW u, GivenAs(m, names[k + 1], u)
      PROVE  ReadFrom(m, Put(V, names[k + 1], u), k + 1)
  BY <1>0, <1>m, ReadOneMore
<1> HIDE DEF names, n
<1>8. ASSUME NEW k \in S PROVE k + 1 \in S
  <2> SUFFICES ASSUME k + 1 <= K PROVE \E V : f[k + 1] = Only(V, s[k + 1]) /\ ReadFrom(m, V, k + 1)
    OBVIOUS
  <2>1. /\ k \in Nat /\ k + 1 \in 1 .. K /\ k + 1 \in 1 .. n /\ k + 1 \in 0 .. n
        /\ (k + 1) - 1 = k /\ k + 1 <= n /\ k <= K
    BY <1>1, <1>5
  <2>2. PICK V : f[k] = Only(V, s[k]) /\ ReadFrom(m, V, k)
    BY <2>1
  <2>3. Joined(s[k], e[k + 1], s[k + 1])
    BY <1>4, <2>1
  <2>4. PICK v \in Given(m, names[k + 1]) : e[k + 1] \in Encode(FieldCodec(names[k + 1]), v)
    BY <1>4, <2>1
  <2>5. IsValue(v) /\ Fits(FieldCodec(names[k + 1]), v)
    BY <1>5, <1>6, <2>1
  <2>6. s[k + 1] \in Seq(Bytes) /\ FieldCodec(names[k + 1]) \in FieldCodecs
    BY <1>2, <1>4, <2>1
  <2>7. PICK u : /\ Decode(FieldCodec(names[k + 1]), s[k]) = Only(u, s[k + 1]) /\ Same(u, v)
                 /\ FieldCodec(names[k + 1]) # OctetStr(1) => u = v
    BY <2>3, <2>4, <2>5, <2>6, FieldBack
  <2>8. f[k + 1] = FieldStep(names, k + 1, Only(V, s[k]))
    BY <1>3, <2>1, <2>2
  <2>9. f[k + 1] = Only(Put(V, names[k + 1], u), s[k + 1])
    BY <2>7, <2>8, FieldStepOnly
  <2>10. GivenAs(m, names[k + 1], u)
    BY <2>7 DEF GivenAs
  <2>11. ReadFrom(m, Put(V, names[k + 1], u), k + 1)
    BY <1>m, <2>1, <2>2, <2>10
  <2> QED BY <2>9, <2>11
<1>9. K \in S
  <2>1. S \in SUBSET Nat /\ K \in Nat
    BY <1>1, <1>5
  <2> HIDE DEF S
  <2> QED BY <1>7, <1>8, <2>1, Induction
<1> QED BY <1>9
-----------------------------------------------------------------------------
(***************************************************************************)
(* What is read of a message, whether it can be carried or not: a decoder  *)
(* leaves bytes, and a field is not touched by those that follow it.       *)
(***************************************************************************)
LEMMA DropBytes ==
    ASSUME NEW b \in Seq(Bytes), NEW n \in Nat, n <= Len(b)
    PROVE  Drop(b, n) \in Seq(Bytes) /\ Len(Drop(b, n)) = Len(b) - n /\ Take(b, n) \in Seq(Bytes) /\ Len(Take(b, n)) = n
<1>1. Len(b) \in Nat /\ \A i \in 1 .. Len(b) : b[i] \in Bytes
  OBVIOUS
<1>2. Drop(b, n) \in Seq(Bytes) /\ Len(Drop(b, n)) = Len(b) - n
  BY <1>1 DEF Drop
<1>3. Take(b, n) \in Seq(Bytes) /\ Len(Take(b, n)) = n
  BY <1>1 DEF Take
<1> QED BY <1>2, <1>3

LEMMA ReadUintLeaves ==
    ASSUME NEW b \in Seq(Bytes), NEW w \in {1, 2, 4}, NEW x \in ReadUint(b, w)
    PROVE  x.rest \in Seq(Bytes) /\ x.value.num \in Nat
<1>1. w \in Nat /\ w <= Len(b)
  BY DEF ReadUint
<1>2. x = [value |-> Num(FromBigEndian(Take(b, w))), rest |-> Drop(b, w)]
  BY <1>1 DEF ReadUint
<1>3. Drop(b, w) \in Seq(Bytes) /\ Take(b, w) \in Seq(Bytes) /\ Len(Take(b, w)) = w
  BY <1>1, DropBytes
<1>4. FromBigEndian(Take(b, w)) \in Nat
  <2>1. PICK t \in Seq(Bytes) : t = Take(b, w) /\ Len(t) = w
    BY <1>3
  <2>2. \A i \in 1 .. Len(t) : t[i] \in Nat
    <3>1. \A i \in 1 .. Len(t) : t[i] \in Bytes
      BY ElementOfSeq
    <3>2. \A y \in Bytes : y \in Nat
      BY DEF Bytes
    <3> QED BY <3>1, <3>2
  <2>3. CASE w = 1
    <3>1. FromBigEndian(t) = t[1]
      BY <2>1, <2>3, FromBigEndianIs
    <3> QED BY <2>1, <2>2, <2>3, <3>1
  <2>4. CASE w = 2
    <3>1. FromBigEndian(t) = 256 * t[1] + t[2]
      BY <2>1, <2>4, FromBigEndianIs
    <3>2. t[1] \in Nat /\ t[2] \in Nat
      BY <2>1, <2>2, <2>4
    <3>3. 256 * t[1] + t[2] \in Nat
      BY <3>2
    <3> QED BY <2>1, <3>1, <3>3
  <2>5. CASE w = 4
    <3>1. FromBigEndian(t) = 256 * (256 * (256 * t[1] + t[2]) + t[3]) + t[4]
      BY <2>1, <2>5, FromBigEndianIs
    <3>2. t[1] \in Nat /\ t[2] \in Nat /\ t[3] \in Nat /\ t[4] \in Nat
      BY <2>1, <2>2, <2>5
    <3>3. 256 * (256 * (256 * t[1] + t[2]) + t[3]) + t[4] \in Nat
      <4>1. \A y, z \in Nat : 256 * y + z \in Nat
        OBVIOUS
      <4>2. 256 * t[1] + t[2] \in Nat
        BY <3>2, <4>1
      <4>3. 256 * (256 * t[1] + t[2]) + t[3] \in Nat
        BY <3>2, <4>1, <4>2, SMTT(30)
      <4> QED BY <3>2, <4>1, <4>3, SMTT(30)
    <3> QED BY <2>1, <3>1, <3>3
  <2> QED BY <2>3, <2>4, <2>5
<1> QED BY <1>2, <1>3, <1>4 DEF Num

LEMMA ReadLeaves ==
    ASSUME NEW b \in Seq(Bytes), NEW n \in Nat, NEW x \in Read(b, n)
    PROVE  x.rest \in Seq(Bytes)
<1>1. n <= Len(b) /\ x.rest = Drop(b, n)
  BY DEF Read
<1> QED BY <1>1, DropBytes

LEMMA ReadCOctetStrLeaves ==
    ASSUME NEW b \in Seq(Bytes), NEW x \in ReadCOctetStr(b)
    PROVE  x.rest \in Seq(Bytes)
<1> DEFINE I == {i \in 1 .. Len(b) : b[i] = 0}
           end == SelectInSeq(b, LAMBDA y : y = 0)
<1>1. end # 0 /\ x.rest = Drop(b, end)
  BY DEF ReadCOctetStr
<1>2. end = IF I # {} THEN Min(I) ELSE 0
  BY DEF SelectInSeq
<1>3. I # {} => Min(I) \in I
  <2>1. I \in SUBSET Nat
    OBVIOUS
  <2>2. Min(I) = CHOOSE z \in I : \A y \in I : z <= y
    BY DEF Min
  <2> HIDE DEF I
  <2> QED BY <2>1, <2>2, Smallest
<1>4. end \in Nat /\ end <= Len(b)
  <2> HIDE DEF end
  <2>1. end \in I
    BY <1>1, <1>2, <1>3
  <2> QED BY <2>1
<1> HIDE DEF end
<1> QED BY <1>1, <1>4, DropBytes

\* A codec that holds no others leaves bytes.
LEMMA FlatLeaves ==
    ASSUME NEW c \in FieldCodecs, c \notin {DestAddresses, UnsuccessSmes}, NEW b \in Seq(Bytes), NEW x \in Decode(c, b)
    PROVE  x.rest \in Seq(Bytes)
<1>1. CASE c = U8
  <2>1. x \in ReadUint(b, 1)
    BY <1>1 DEF Decode, DecodeFlat, U8
  <2> QED BY <2>1, ReadUintLeaves
<1>2. CASE c = OctetStr(1)
  <2>1. x \in UNION {Read(l.rest, l.value.num) : l \in ReadUint(b, 1)}
    BY <1>2 DEF Decode, DecodeFlat, OctetStr
  <2>2. PICK l \in ReadUint(b, 1) : x \in Read(l.rest, l.value.num)
    BY <2>1
  <2>3. l.rest \in Seq(Bytes) /\ l.value.num \in Nat
    BY ReadUintLeaves
  <2> QED BY <2>2, <2>3, ReadLeaves
<1>3. CASE \E n \in 0 .. 255 : c = COctetStr(n)
  <2>1. c.kind = "cstring"
    BY <1>3 DEF COctetStr
  <2>2. x \in ReadCOctetStr(b)
    BY <2>1 DEF Decode, DecodeFlat
  <2> QED BY <2>2, ReadCOctetStrLeaves
<1> QED BY <1>1, <1>2, <1>3 DEF FieldCodecs

Has(o, g, u) == g \in DOMAIN o /\ o[g] = u

LEMMA PutKeeps == ASSUME NEW o, NEW g, NEW u, Has(o, g, u), NEW h, h # g, NEW z PROVE Has(Put(o, h, z), g, u)
BY DEF Has, Put
\* A field that is not among those that follow stays as it is.
LEMMA FieldStepKeeps ==
    ASSUME NEW names, NEW k, NEW x, NEW g, NEW u, \A a \in x : Has(a.value, g, u) /\ a.rest \in Seq(Bytes),
           names[k] # g, FieldCodec(names[k]) \in FieldCodecs, FieldCodec(names[k]) \notin {DestAddresses, UnsuccessSmes},
           NEW z \in FieldStep(names, k, x)
    PROVE  Has(z.value, g, u) /\ z.rest \in Seq(Bytes)
<1>1. PICK a \in x : \E y \in Decode(FieldCodec(names[k]), a.rest) :
          z = [value |-> Put(a.value, names[k], y.value), rest |-> y.rest]
  BY DEF FieldStep
<1>2. PICK y \in Decode(FieldCodec(names[k]), a.rest) :
          z = [value |-> Put(a.value, names[k], y.value), rest |-> y.rest]
  BY <1>1
<1>3. z.value = Put(a.value, names[k], y.value) /\ z.rest = y.rest
  BY <1>2
<1>4. y.rest \in Seq(Bytes)
  BY FlatLeaves
<1> QED BY <1>3, <1>4, PutKeeps

LEMMA NextTlvKeeps ==
    ASSUME NEW a, NEW g, g \notin DOMAIN TlvTags, NEW u, Has(a.value, g, u), NEW z \in NextTlv(a)
    PROVE  Has(z.value, g, u)
<1>1. CASE Len(a.rest) < 2
  BY <1>1 DEF NextTlv
<1>2. CASE ~(Len(a.rest) < 2)
  <2>1. \E f \in TlvOfTag(FromBigEndian(Take(a.rest, 2))) : \E w : z.value = Put(a.value, f, w)
    BY <1>2 DEF NextTlv
  <2>2. PICK f \in DOMAIN TlvTags : \E w : z.value = Put(a.value, f, w)
    BY <2>1 DEF TlvOfTag
  <2> QED BY <2>2, PutKeeps
<1> QED BY <1>1, <1>2

TlvsBy(y, f) ==
    /\ f[0] = {y}
    /\ \A k \in 1 .. Len(y.rest) \div 2 : f[k] = TlvStep(f[k - 1])
    /\ DecodeTlvs(y) = f[Len(y.rest) \div 2]

LEMMA TlvsByExists ==
    ASSUME NEW y, y.rest \in Seq(Bytes)
    PROVE  Len(y.rest) \in Nat /\ Len(y.rest) \div 2 \in Nat /\ \E f : TlvsBy(y, f)
<1>1. Len(y.rest) \in Nat
  OBVIOUS
<1>2. \E f : TlvsBy(y, f)
  BY <1>1, DecodeTlvsSteps DEF TlvsBy
<1>3. Len(y.rest) \div 2 \in Nat
  <2>1. \A k \in Nat : k \div 2 \in Nat
    OBVIOUS
  <2> QED BY <1>1, <2>1
<1> QED BY <1>1, <1>2, <1>3

LEMMA TlvsKeep ==
    ASSUME NEW y, y.rest \in Seq(Bytes), NEW g, g \notin DOMAIN TlvTags, NEW u, Has(y.value, g, u),
           NEW z \in DecodeTlvs(y)
    PROVE  Has(z.value, g, u)
<1> DEFINE n == Len(y.rest) \div 2
<1>1. n \in Nat
  BY TlvsByExists
<1>2. PICK f : TlvsBy(y, f)
  BY TlvsByExists
<1>3. f[0] = {y} /\ (\A k \in 1 .. n : f[k] = TlvStep(f[k - 1])) /\ DecodeTlvs(y) = f[n]
  BY <1>2 DEF TlvsBy
<1> HIDE DEF n
<1> DEFINE S == {k \in Nat : k <= n => \A a \in f[k] : Has(a.value, g, u)}
<1>4. 0 \in S
  BY <1>3
<1>5. ASSUME NEW k \in S PROVE k + 1 \in S
  <2> SUFFICES ASSUME k + 1 <= n, NEW b \in f[k + 1] PROVE Has(b.value, g, u)
    OBVIOUS
  <2>1. k \in Nat /\ k <= n /\ k + 1 \in 1 .. n /\ (k + 1) - 1 = k
    BY <1>1
  <2>2. f[k + 1] = TlvStep(f[k])
    BY <1>3, <2>1
  <2>3. PICK a \in f[k] : b \in NextTlv(a)
    BY <2>2 DEF TlvStep
  <2>4. Has(a.value, g, u)
    BY <2>1
  <2> QED BY <2>3, <2>4, NextTlvKeeps
<1>6. n \in S
  <2>1. S \in SUBSET Nat
    OBVIOUS
  <2> HIDE DEF S
  <2> QED BY <1>1, <1>4, <1>5, <2>1, Induction
<1> QED BY <1>1, <1>3, <1>6

\* The fields that follow the first K.
LEMMA FieldsKeep ==
    ASSUME NEW c \in Deliveries, c \in Commands, NEW b, NEW f, FieldsBy(FieldsOf(c), b, f), NEW K \in 1 .. Len(FieldsOf(c)),
           NEW u, \A a \in f[K] : Has(a.value, FieldsOf(c)[K], u) /\ a.rest \in Seq(Bytes),
           NEW z \in DecodeFields(FieldsOf(c), b)
    PROVE  Has(z.value, FieldsOf(c)[K], u) /\ z.rest \in Seq(Bytes)
<1> DEFINE names == FieldsOf(c)
           n == Len(names)
           g == names[K]
<1>1. /\ n \in Nat /\ \A i, j \in 1 .. n : names[i] = names[j] => i = j
  BY FieldNames
<1>2. \A i \in 1 .. n : FieldCodec(names[i]) \in FieldCodecs /\ names[i] \in ToSet(names)
  BY FieldNames
<1>3. ToSet(names) \cap {"dest_addresses", "unsuccess_smes"} = {}
  BY DefaultAssumption
<1>4. \A i \in 1 .. n : FieldCodec(names[i]) \notin {DestAddresses, UnsuccessSmes}
  <2> SUFFICES ASSUME NEW h, h \notin {"dest_addresses", "unsuccess_smes"}
               PROVE  FieldCodec(h) \notin {DestAddresses, UnsuccessSmes}
    BY <1>2, <1>3
  <2>1. DestAddresses.kind = "dests" /\ UnsuccessSmes.kind = "smes"
    BY DEF DestAddresses, UnsuccessSmes
  <2>2. FieldCodec(h).kind \in {"cstring", "octets", "uint"}
    <3>1. CASE h \in DOMAIN COctetStrFields
      <4>1. h # "short_message"
        BY <3>1 DEF COctetStrFields
      <4>2. FieldCodec(h) = COctetStr(COctetStrFields[h])
        BY <3>1, <4>1 DEF FieldCodec
      <4> QED BY <4>2 DEF COctetStr
    <3>2. CASE h \notin DOMAIN COctetStrFields
      <4>1. FieldCodec(h) = OctetStr(1) \/ FieldCodec(h) = U8
        BY <3>2 DEF FieldCodec
      <4> QED BY <4>1 DEF OctetStr, U8
    <3> QED BY <3>1, <3>2
  <2> QED BY <2>1, <2>2
<1>5. (\A k \in 1 .. n : f[k] = FieldStep(names, k, f[k - 1])) /\ z \in f[n]
  BY DEF FieldsBy
<1>6. K \in 1 .. n /\ \A a \in f[K] : Has(a.value, g, u) /\ a.rest \in Seq(Bytes)
  OBVIOUS
<1> HIDE DEF n, g, names
<1> DEFINE S == {k \in Nat : K + k <= n => \A a \in f[K + k] : Has(a.value, g, u) /\ a.rest \in Seq(Bytes)}
<1>7. 0 \in S
  BY <1>1, <1>6
<1>8. ASSUME NEW k \in S PROVE k + 1 \in S
  <2> SUFFICES ASSUME K + (k + 1) <= n, NEW a \in f[K + (k + 1)] PROVE Has(a.value, g, u) /\ a.rest \in Seq(Bytes)
    OBVIOUS
  <2> DEFINE j == K + (k + 1)
  <2>1. k \in Nat /\ K + k <= n /\ j \in 1 .. n /\ j - 1 = K + k /\ j # K
    BY <1>1, <1>6
  <2> HIDE DEF j
  <2>2. f[j] = FieldStep(names, j, f[K + k])
    BY <1>5, <2>1
  <2>3. names[j] # g
    BY <1>1, <1>6, <2>1 DEF g
  <2>4. \A y \in f[K + k] : Has(y.value, g, u) /\ y.rest \in Seq(Bytes)
    BY <2>1
  <2>5. FieldCodec(names[j]) \in FieldCodecs /\ FieldCodec(names[j]) \notin {DestAddresses, UnsuccessSmes}
    BY <1>2, <1>4, <2>1
  <2>6. a \in FieldStep(names, j, f[K + k])
    BY <2>2 DEF j
  <2> QED BY <2>3, <2>4, <2>5, <2>6, FieldStepKeeps
<1>9. n - K \in S
  <2>1. S \in SUBSET Nat /\ n - K \in Nat
    BY <1>1, <1>6
  <2> HIDE DEF S
  <2> QED BY <1>7, <1>8, <2>1, Induction
<1>10. K + (n - K) = n
  BY <1>1, <1>6
<1>11. \A a \in f[n] : Has(a.value, g, u) /\ a.rest \in Seq(Bytes)
  BY <1>1, <1>9, <1>10
<1> QED BY <1>5, <1>11 DEF g, names
LEMMA AddressFieldsAre ==
    ASSUME NEW c \in Deliveries
    PROVE  /\ c \in Commands /\ 7 \in 1 .. Len(FieldsOf(c)) /\ Len(FieldsOf(c)) \in Nat
           /\ FieldsOf(c)[7] = "destination_addr"
           /\ \A i \in 1 .. 7 : FieldsOf(c)[i] \in ToSet(AddressFields)
<1>1. c \in Commands
  <2>1. c.name \in {"deliver_sm", "data_sm"} /\ c.resp = FALSE /\ c = [name |-> c.name, resp |-> FALSE]
    BY DEF Deliveries
  <2>2. c.name \in DOMAIN FieldTable(FALSE)
    BY <2>1 DEF FieldTable, RequestFields
  <2>3. c \in [name : DOMAIN FieldTable(FALSE), resp : {FALSE}]
    BY <2>1, <2>2
  <2> QED BY <2>3 DEF Commands
<1>2. Len(FieldsOf(c)) \in Nat /\ FieldsOf(c) \in Seq(STRING)
  BY <1>1, FieldNames, TableAssumption
<1>3. Len(FieldsOf(c)) >= 7 /\ SubSeq(FieldsOf(c), 1, 7) = AddressFields
  BY DefaultAssumption
<1>4. \A i \in 1 .. 7 : FieldsOf(c)[i] = AddressFields[i]
  BY <1>2, <1>3
<1>5. AddressFields[7] = "destination_addr" /\ DOMAIN AddressFields = 1 .. 7
  BY DEF AddressFields, SourceFields, DestFields
<1>6. \A i \in 1 .. 7 : AddressFields[i] \in ToSet(AddressFields)
  BY <1>5 DEF ToSet
<1>7. 7 \in 1 .. Len(FieldsOf(c))
  BY <1>2, <1>3
<1> QED BY <1>1, <1>2, <1>4, <1>5, <1>6, <1>7

\* The destination is read as it was sent, if any is, whatever follows it.
LEMMA DestinationKept ==
    ASSUME NEW m, IsMessage(m), m.command \in Deliveries,
           \A f \in ToSet(AddressFields) \cap DOMAIN m.fields : Fits(FieldCodec(f), m.fields[f]),
           NEW e, NEW s, FieldsCut(m, e, s), NEW z \in DecodeBody(m.command, s[0])
    PROVE  "destination_addr" \in DOMAIN m.fields /\ Has(z.value, "destination_addr", m.fields["destination_addr"])
<1> DEFINE c == m.command
           names == FieldsOf(c)
           g == "destination_addr"
<1>1. /\ c \in Commands /\ c \in Deliveries /\ 7 \in 1 .. Len(names) /\ Len(names) \in Nat /\ names[7] = g
      /\ \A i \in 1 .. 7 : names[i] \in ToSet(AddressFields)
  BY AddressFieldsAre
<1>2. PICK f : FieldsBy(names, s[0], f)
  BY <1>1, FieldsByExists
<1>3. \A i \in 1 .. 7 : FitsGiven(m, names[i])
  BY <1>1 DEF FitsGiven
<1>4. 7 \in 0 .. Len(names) /\ s \in [0 .. Len(names) -> Seq(Bytes)] /\ s[7] \in Seq(Bytes)
  BY <1>1 DEF FieldsCut
<1>5. PICK V : f[7] = Only(V, s[7]) /\ ReadFrom(m, V, 7)
  <2>1. PICK K \in 0 .. Len(FieldsOf(m.command)) : K = 7
    BY <1>4
  <2>2. \A i \in 1 .. K : FitsGiven(m, FieldsOf(m.command)[i])
    BY <1>3, <2>1
  <2>3. FieldsBy(FieldsOf(m.command), s[0], f)
    BY <1>2
  <2>4. \E V : f[K] = Only(V, s[K]) /\ ReadFrom(m, V, K)
    BY <2>2, <2>3, FieldsBack
  <2> QED BY <2>1, <2>4
<1>6. g \in DOMAIN V /\ GivenAs(m, g, V[g])
  BY <1>1, <1>5 DEF ReadFrom
<1>7. \A a \in f[7] : Has(a.value, g, V[g]) /\ a.rest \in Seq(Bytes)
  BY <1>4, <1>5, <1>6 DEF Only, Has
<1>8. PICK y \in DecodeFields(names, s[0]) : z \in DecodeTlvs(y)
  BY DEF DecodeBody
<1>9. Has(y.value, g, V[g]) /\ y.rest \in Seq(Bytes)
  <2>1. \A a \in f[7] : Has(a.value, names[7], V[g]) /\ a.rest \in Seq(Bytes)
    BY <1>1, <1>7
  <2> HIDE DEF c, g
  <2>2. Has(y.value, names[7], V[g]) /\ y.rest \in Seq(Bytes)
    BY <1>1, <1>2, <2>1, FieldsKeep
  <2> QED BY <1>1, <2>2
<1>10. g \notin DOMAIN TlvTags
  BY DefaultAssumption
<1>11. Has(z.value, g, V[g])
  BY <1>8, <1>9, <1>10, TlvsKeep
<1>12. FieldCodec(g) # OctetStr(1)
  <2>1. g \in DOMAIN COctetStrFields
    BY DEF COctetStrFields
  <2>2. FieldCodec(g) = COctetStr(COctetStrFields[g])
    BY <2>1 DEF FieldCodec
  <2> QED BY <2>2 DEF COctetStr, OctetStr
<1>13. DefaultOf(c, g) = {}
  <2>1. c.name # "cancel_sm"
    BY <1>1 DEF Deliveries
  <2> HIDE DEF c
  <2> QED BY <2>1 DEF DefaultOf
<1>14. g \in DOMAIN m.fields /\ V[g] = m.fields[g]
  BY <1>6, <1>12, <1>13 DEF GivenAs, Given
<1> QED BY <1>11, <1>14
-----------------------------------------------------------------------------
(***************************************************************************)
(* The TLVs of a message, in whatever order they are written.              *)
(***************************************************************************)
TlvsOf(m) == DOMAIN TlvTags \cap DOMAIN m.fields

LEMMA TlvOrders ==
    ASSUME NEW m, NEW order \in SetToSeqs(TlvsOf(m))
    PROVE  /\ DOMAIN order = 1 .. Len(order) /\ Len(order) \in Nat
           /\ TlvsOf(m) = {order[i] : i \in 1 .. Len(order)}
<1> DEFINE T == TlvsOf(m)
           n == Cardinality(T)
<1>1. IsFiniteSet(T)
  BY TlvAssumption, FS_Subset DEF TlvsOf
<1>2. n \in Nat
  BY <1>1, FS_CardinalityType
<1>3. order \in [1 .. n -> T] /\ \A i, j \in 1 .. n : i # j => order[i] # order[j]
  BY DEF SetToSeqs
<1>4. DOMAIN order = 1 .. n /\ Len(order) = n
  BY <1>2, <1>3
<1>5. order \in Surjection(1 .. n, T)
  <2>1. order \in Injection(1 .. n, T)
    BY <1>3 DEF Injection, IsInjective
  <2>2. Cardinality(1 .. n) = n
    BY <1>2, FS_Interval
  <2> QED BY <1>1, <2>1, <2>2, FS_Injection
<1>6. T = {order[i] : i \in 1 .. n}
  BY <1>3, <1>5 DEF Surjection
<1> QED BY <1>2, <1>4, <1>6

LEMMA TlvBytes ==
    ASSUME NEW f \in DOMAIN TlvTags, NEW v, IsValue(v)
    PROVE  EncodeTlv(f, v) \subseteq Seq(Bytes)
<1> SUFFICES ASSUME NEW e \in EncodeTlv(f, v) PROVE e \in Seq(Bytes)
  OBVIOUS
<1>1. PICK b \in EncodeFlat(TlvCodec(f), v) : e = BigEndian(TlvTags[f], 2) \o BigEndian(Len(b), 2) \o b
  BY DEF EncodeTlv
<1>2. b \in Seq(Bytes)
  BY TlvTable, TlvCodecFlat, FlatEncodingBytes
<1>3. Len(b) \in Nat /\ TlvTags[f] \in Nat /\ 2 \in 0 .. 4
  BY <1>2, TlvTable
<1>4. BigEndian(TlvTags[f], 2) \in Seq(Bytes) /\ BigEndian(Len(b), 2) \in Seq(Bytes)
  BY <1>3, BigEndianBytes
<1>5. BigEndian(TlvTags[f], 2) \o BigEndian(Len(b), 2) \in Seq(Bytes)
  BY <1>4, CatBytes
<1> QED BY <1>1, <1>2, <1>5, CatBytes

\* The TLVs are a sequence of encodings.
LEMMA TlvParts ==
    ASSUME NEW m, IsMessage(m), NEW b \in EncodeTlvs(m)
    PROVE  \E order, E : /\ b \in ConcatAll(E) /\ Len(E) = Len(order) /\ Len(order) \in Nat
                         /\ TlvsOf(m) = {order[i] : i \in 1 .. Len(order)}
                         /\ \A i \in 1 .. Len(order) : E[i] = EncodeTlv(order[i], m.fields[order[i]])
                         /\ \A i \in 1 .. Len(E) : E[i] \subseteq Seq(Bytes)
<1>1. PICK order \in SetToSeqs(TlvsOf(m)) :
          b \in ConcatAll([i \in DOMAIN order |-> EncodeTlv(order[i], m.fields[order[i]])])
  BY DEF EncodeTlvs, TlvsOf
<1> DEFINE E == [i \in DOMAIN order |-> EncodeTlv(order[i], m.fields[order[i]])]
<1>2. DOMAIN order = 1 .. Len(order) /\ Len(order) \in Nat /\ TlvsOf(m) = {order[i] : i \in 1 .. Len(order)}
  BY TlvOrders
<1>3. Len(E) = Len(order) /\ \A i \in 1 .. Len(order) : E[i] = EncodeTlv(order[i], m.fields[order[i]])
  BY <1>2
<1>4. \A i \in 1 .. Len(order) : order[i] \in DOMAIN TlvTags /\ IsValue(m.fields[order[i]])
  <2>1. \A i \in 1 .. Len(order) : order[i] \in TlvsOf(m)
    BY <1>2
  <2> QED BY <2>1 DEF TlvsOf, IsMessage
<1> HIDE DEF E
<1>5. \A i \in 1 .. Len(E) : E[i] \subseteq Seq(Bytes)
  BY <1>3, <1>4, TlvBytes
<1> QED BY <1>1, <1>2, <1>3, <1>5 DEF E

\* V with the first k of the TLVs.
TlvsRead(m, V, order, k, W) ==
    /\ DOMAIN W = DOMAIN V \cup {order[i] : i \in 1 .. k}
    /\ \A g \in DOMAIN W : IF g \in {order[i] : i \in 1 .. k} THEN Same(W[g], m.fields[g]) ELSE W[g] = V[g]

LEMMA TlvsReadMore ==
    ASSUME NEW m, NEW V, NEW order, NEW k \in Nat, NEW W, TlvsRead(m, V, order, k, W),
           NEW u, Same(u, m.fields[order[k + 1]])
    PROVE  TlvsRead(m, V, order, k + 1, Put(W, order[k + 1], u))
<1> DEFINE A(j) == {order[i] : i \in 1 .. j}
           f == order[k + 1]
           X == Put(W, f, u)
<1>1. A(k + 1) = A(k) \cup {f}
  <2>1. \A i \in 1 .. k + 1 : i \in 1 .. k \/ i = k + 1
    OBVIOUS
  <2>2. k + 1 \in 1 .. k + 1 /\ \A i \in 1 .. k : i \in 1 .. k + 1
    OBVIOUS
  <2> QED BY <2>1, <2>2
<1>2. /\ DOMAIN W = DOMAIN V \cup A(k)
      /\ \A g \in DOMAIN W : IF g \in A(k) THEN Same(W[g], m.fields[g]) ELSE W[g] = V[g]
  BY DEF TlvsRead
<1>3. DOMAIN X = {f} \cup DOMAIN W /\ X[f] = u /\ \A g \in DOMAIN W : g # f => X[g] = W[g]
  BY DEF Put
<1>4. Same(u, m.fields[f])
  OBVIOUS
<1> HIDE DEF A, X, f
<1>5. DOMAIN X = DOMAIN V \cup A(k + 1)
  BY <1>1, <1>2, <1>3
<1>6. \A g \in DOMAIN X : IF g \in A(k + 1) THEN Same(X[g], m.fields[g]) ELSE X[g] = V[g]
  BY <1>1, <1>2, <1>3, <1>4
<1> QED BY <1>5, <1>6 DEF TlvsRead, A, X, f
\* The stream that the TLVs of a message have been cut from, to its end.
TlvsCut(m, order, n, e, s) ==
    /\ s \in [0 .. n -> Seq(Bytes)] /\ s[n] = <<>>
    /\ \A i \in 1 .. n : /\ order[i] \in TlvsOf(m) /\ Joined(s[i - 1], e[i], s[i])
                         /\ e[i] \in EncodeTlv(order[i], m.fields[order[i]])

FitsTlvs(m) == \A f \in TlvsOf(m) : FitsFlat(TlvCodec(f), m.fields[f])

LEMMA TlvStepOnly ==
    ASSUME NEW a, NEW V, NEW r, NextTlv(a) = Only(V, r)
    PROVE  TlvStep({a}) = Only(V, r)
<1>1. TlvStep({a}) = NextTlv(a)
  BY DEF TlvStep
<1> QED BY <1>1

\* A TLV of the message.
LEMMA OneTlvBack ==
    ASSUME NEW m, IsMessage(m), FitsTlvs(m), NEW f \in TlvsOf(m), NEW e \in EncodeTlv(f, m.fields[f]),
           NEW r \in Seq(Bytes), NEW w, Joined(w, e, r)
    PROVE  /\ Len(w) >= Len(r) + 4
           /\ \E u : /\ Same(u, m.fields[f])
                     /\ \A V : TlvStep(Only(V, w)) = Only(Put(V, f, u), r)
<1> DEFINE v == m.fields[f]
<1>1. f \in DOMAIN TlvTags /\ IsValue(v) /\ FitsFlat(TlvCodec(f), v)
  BY DEF TlvsOf, IsMessage, FitsTlvs
<1>2. EncodeFlat(TlvCodec(f), v) # {}
  BY DEF EncodeTlv
<1>3. FlatCodec(TlvCodec(f))
  BY <1>1, TlvTable, TlvCodecFlat
<1>4. v \in FlatValues
  BY <1>1, <1>2, <1>3, FitsIsFlat
<1> HIDE DEF v
<1>5. e \in EncodeTlv(f, v) /\ w = e \o r
  BY DEF v, Joined
<1>6. /\ Len(e \o r) >= Len(r) + 4
      /\ \E u : /\ Same(u, v)
                /\ \A a : a.rest = e \o r => NextTlv(a) = {[value |-> Put(a.value, f, u), rest |-> r]}
  <2>1. e \in EncodeTlv(f, v)
    BY <1>5
  <2>2. TlvIs(f, v, e, r)
    BY <1>1, <1>4, <2>1, NextTlvBack
  <2> QED BY <2>2 DEF TlvIs
<1>7. PICK u : /\ Same(u, v)
               /\ \A a : a.rest = e \o r => NextTlv(a) = {[value |-> Put(a.value, f, u), rest |-> r]}
  BY <1>6
<1>8. ASSUME NEW V PROVE TlvStep(Only(V, w)) = Only(Put(V, f, u), r)
  <2> DEFINE a == [value |-> V, rest |-> w]
  <2>1. a.rest = e \o r /\ a.value = V
    BY <1>5
  <2>2. NextTlv(a) = {[value |-> Put(a.value, f, u), rest |-> r]}
    BY <1>7, <2>1
  <2>3. NextTlv(a) = Only(Put(V, f, u), r)
    BY <2>1, <2>2 DEF Only
  <2>4. Only(V, w) = {a}
    BY DEF Only
  <2> HIDE DEF a
  <2> QED BY <2>3, <2>4, TlvStepOnly
<1> QED BY <1>5, <1>6, <1>7, <1>8 DEF v

TlvsFrom(V, b, N, f) == f[0] = Only(V, b) /\ \A k \in 1 .. N : f[k] = TlvStep(f[k - 1])

TlvsReading(m, order, n, e, s, V, N, f) ==
    /\ IsMessage(m) /\ FitsTlvs(m) /\ n \in Nat /\ N \in Nat /\ n <= N
    /\ TlvsCut(m, order, n, e, s) /\ TlvsFrom(V, s[0], N, f)

\* The TLVs are read back, one after the other.
LEMMA TlvsPrefix ==
    ASSUME NEW m, NEW order, NEW n, NEW e, NEW s, NEW V, NEW N, NEW f, TlvsReading(m, order, n, e, s, V, N, f)
    PROVE  \E W : f[n] = Only(W, s[n]) /\ TlvsRead(m, V, order, n, W)
<1>a. /\ IsMessage(m) /\ FitsTlvs(m) /\ n \in Nat /\ N \in Nat /\ n <= N
      /\ TlvsCut(m, order, n, e, s) /\ TlvsFrom(V, s[0], N, f)
  BY DEF TlvsReading
<1>1. /\ s \in [0 .. n -> Seq(Bytes)]
      /\ \A i \in 1 .. n : /\ order[i] \in TlvsOf(m) /\ Joined(s[i - 1], e[i], s[i])
                           /\ e[i] \in EncodeTlv(order[i], m.fields[order[i]])
  BY <1>a DEF TlvsCut
<1>0. f[0] = Only(V, s[0]) /\ \A j \in 1 .. N : f[j] = TlvStep(f[j - 1])
  BY <1>a DEF TlvsFrom
<1> DEFINE P(j) == \E W : f[j] = Only(W, s[j]) /\ TlvsRead(m, V, order, j, W)
           S == {j \in Nat : j <= n /\ j <= N => P(j)}
<1>2. 0 \in S
  <2>1. {order[i] : i \in 1 .. 0} = {}
    OBVIOUS
  <2>2. TlvsRead(m, V, order, 0, V)
    BY <2>1, Zenon DEF TlvsRead
  <2> QED BY <1>0, <2>2
<1>3. ASSUME NEW j \in S PROVE j + 1 \in S
  <2> SUFFICES ASSUME j + 1 <= n, j + 1 <= N PROVE P(j + 1)
    BY DEF P
  <2>1. j \in Nat /\ j <= n /\ j <= N /\ j + 1 \in 1 .. n /\ j + 1 \in 1 .. N /\ j + 1 \in 0 .. n /\ (j + 1) - 1 = j
    BY <1>a
  <2>2. PICK W : f[j] = Only(W, s[j]) /\ TlvsRead(m, V, order, j, W)
    BY <2>1
  <2>3. /\ order[j + 1] \in TlvsOf(m) /\ Joined(s[j], e[j + 1], s[j + 1])
        /\ e[j + 1] \in EncodeTlv(order[j + 1], m.fields[order[j + 1]]) /\ s[j + 1] \in Seq(Bytes)
    BY <1>1, <2>1
  <2>4. PICK u : /\ Same(u, m.fields[order[j + 1]])
                 /\ \A X : TlvStep(Only(X, s[j])) = Only(Put(X, order[j + 1], u), s[j + 1])
    BY <1>a, <2>3, OneTlvBack
  <2>5. f[j + 1] = Only(Put(W, order[j + 1], u), s[j + 1])
    BY <1>0, <2>1, <2>2, <2>4
  <2>6. TlvsRead(m, V, order, j + 1, Put(W, order[j + 1], u))
    BY <2>1, <2>2, <2>4, TlvsReadMore
  <2> QED BY <2>5, <2>6
<1>4. n \in S
  <2>1. S \in SUBSET Nat
    OBVIOUS
  <2> HIDE DEF S
  <2> QED BY <1>a, <1>2, <1>3, <2>1, Induction
<1> QED BY <1>a, <1>4

\* Each of them has four bytes at least.
LEMMA TlvsLength ==
    ASSUME NEW m, IsMessage(m), FitsTlvs(m), NEW order, NEW n \in Nat, NEW e, NEW s, TlvsCut(m, order, n, e, s)
    PROVE  Len(s[0]) \in Nat /\ n <= Len(s[0]) \div 2
<1>1. /\ s \in [0 .. n -> Seq(Bytes)]
      /\ \A i \in 1 .. n : /\ order[i] \in TlvsOf(m) /\ Joined(s[i - 1], e[i], s[i])
                           /\ e[i] \in EncodeTlv(order[i], m.fields[order[i]])
  BY DEF TlvsCut
<1>2. \A k \in 0 .. n : Len(s[k]) \in Nat
  BY <1>1
<1>3. ASSUME NEW k \in 1 .. n PROVE Len(s[k - 1]) >= Len(s[k]) + 4
  <2>1. s[k] \in Seq(Bytes)
    BY <1>1
  <2> QED BY <1>1, <2>1, OneTlvBack
<1> DEFINE D(k) == Len(s[0]) >= Len(s[k]) + 4 * k
           S == {k \in Nat : k <= n => D(k)}
<1>4. 0 \in S
  <2>1. 0 \in 0 .. n /\ Len(s[0]) \in Nat
    BY <1>2
  <2> QED BY <2>1
<1>5. ASSUME NEW k \in S PROVE k + 1 \in S
  <2> HIDE DEF D
  <2> SUFFICES ASSUME k + 1 <= n PROVE D(k + 1)
    OBVIOUS
  <2>0. k \in Nat /\ (k <= n => D(k))
    OBVIOUS
  <2>1. k \in Nat /\ k <= n /\ k + 1 \in 1 .. n /\ (k + 1) - 1 = k /\ k \in 0 .. n /\ k + 1 \in 0 .. n /\ 0 \in 0 .. n
    <3> HIDE DEF S
    <3> QED BY <2>0
  <2>2. Len(s[k]) >= Len(s[k + 1]) + 4
    BY <1>3, <2>1
  <2>3. Len(s[0]) >= Len(s[k]) + 4 * k
    BY <2>0, <2>1 DEF D
  <2>4. Len(s[0]) \in Nat /\ Len(s[k]) \in Nat /\ Len(s[k + 1]) \in Nat
    BY <1>2, <2>1
  <2> HIDE DEF S
  <2>5. \A a, b, c \in Nat : a >= b + 4 * k /\ b >= c + 4 => a >= c + 4 * (k + 1)
    BY <2>1
  <2> QED BY <2>2, <2>3, <2>4, <2>5 DEF D
<1>6. n \in S
  <2>1. S \in SUBSET Nat
    OBVIOUS
  <2> HIDE DEF S, D
  <2> QED BY <1>4, <1>5, <2>1, Induction
<1>7. Len(s[0]) \in Nat /\ Len(s[n]) \in Nat /\ Len(s[0]) >= Len(s[n]) + 4 * n
  <2>1. 0 \in 0 .. n /\ n \in 0 .. n /\ n <= n
    OBVIOUS
  <2>2. n <= n => Len(s[0]) >= Len(s[n]) + 4 * n
    BY <1>6
  <2> HIDE DEF S
  <2> QED BY <1>2, <2>1, <2>2
<1>8. \A a, b \in Nat : a >= b + 4 * n => n <= a \div 2
  OBVIOUS
<1> QED BY <1>7, <1>8
\* All TLVs are read back.
LEMMA TlvsBack ==
    ASSUME NEW m, IsMessage(m), FitsTlvs(m), NEW order, NEW n \in Nat, NEW e, NEW s, TlvsCut(m, order, n, e, s), NEW V
    PROVE  \E W : DecodeTlvs([value |-> V, rest |-> s[0]]) = Only(W, <<>>) /\ TlvsRead(m, V, order, n, W)
<1> DEFINE y == [value |-> V, rest |-> s[0]]
           N == Len(s[0]) \div 2
<1>1. s \in [0 .. n -> Seq(Bytes)] /\ s[n] = <<>>
  BY DEF TlvsCut
<1>2. y.rest = s[0] /\ y.rest \in Seq(Bytes) /\ {y} = Only(V, s[0])
  BY <1>1 DEF Only
<1>3. Len(s[0]) \in Nat /\ n <= N
  BY TlvsLength
<1> HIDE DEF y
<1>4. PICK f : TlvsBy(y, f)
  BY <1>2, TlvsByExists
<1>5. N \in Nat
  BY <1>2, TlvsByExists
<1>6. f[0] = Only(V, s[0]) /\ (\A k \in 1 .. N : f[k] = TlvStep(f[k - 1])) /\ DecodeTlvs(y) = f[N]
  BY <1>2, <1>4 DEF TlvsBy
<1> HIDE DEF N
<1>7. PICK W : f[n] = Only(W, s[n]) /\ TlvsRead(m, V, order, n, W)
  <2>1. n <= n
    OBVIOUS
  <2>2. TlvsFrom(V, s[0], N, f)
    BY <1>6 DEF TlvsFrom
  <2>3. TlvsReading(m, order, n, e, s, V, N, f)
    BY <1>3, <1>5, <2>2 DEF TlvsReading
  <2> QED BY <2>3, TlvsPrefix
<1>8. TlvStep(Only(W, <<>>)) = Only(W, <<>>)
  <2> DEFINE a == [value |-> W, rest |-> <<>>]
  <2>1. Len(a.rest) < 2
    OBVIOUS
  <2>2. NextTlv(a) = {a}
    BY <2>1 DEF NextTlv
  <2>3. Only(W, <<>>) = {a}
    BY DEF Only
  <2> HIDE DEF a
  <2> QED BY <2>2, <2>3 DEF TlvStep
<1> DEFINE S == {k \in Nat : n + k <= N => f[n + k] = Only(W, <<>>)}
<1>9. 0 \in S
  BY <1>1, <1>7
<1>10. ASSUME NEW k \in S PROVE k + 1 \in S
  <2> SUFFICES ASSUME n + (k + 1) <= N PROVE f[n + (k + 1)] = Only(W, <<>>)
    OBVIOUS
  <2> DEFINE j == n + (k + 1)
  <2>1. k \in Nat /\ n + k <= N /\ j \in 1 .. N /\ j - 1 = n + k
    BY <1>5
  <2>2. f[n + k] = Only(W, <<>>)
    BY <2>1
  <2> HIDE DEF j
  <2>3. f[j] = Only(W, <<>>)
    BY <1>6, <1>8, <2>1, <2>2
  <2> QED BY <2>3 DEF j
<1>11. N - n \in S
  <2>1. S \in SUBSET Nat /\ N - n \in Nat
    BY <1>3, <1>5
  <2> HIDE DEF S
  <2> QED BY <1>9, <1>10, <2>1, Induction
<1>12. f[N] = Only(W, <<>>)
  <2>1. n + (N - n) = N /\ N <= N
    BY <1>5
  <2> QED BY <1>11, <2>1
<1> QED BY <1>6, <1>7, <1>12 DEF y
-----------------------------------------------------------------------------
(***************************************************************************)
(* A PDU.                                                                  *)
(***************************************************************************)

\* What was given is as SameMessage asks.
SameField(m, f, u) == IF f \in DOMAIN m.fields THEN Same(u, m.fields[f]) ELSE u \in DefaultOf(m.command, f)

LEMMA GivenIsSame ==
    ASSUME NEW m, NEW f, NEW u, GivenAs(m, f, u)
    PROVE  SameField(m, f, u)
<1>1. PICK v \in Given(m, f) : Same(u, v) /\ (FieldCodec(f) # OctetStr(1) => u = v)
  BY DEF GivenAs
<1>2. CASE f \in DOMAIN m.fields
  BY <1>1, <1>2 DEF Given, SameField
<1>3. CASE f \notin DOMAIN m.fields
  <2>1. v \in DefaultOf(m.command, f)
    BY <1>1, <1>3 DEF Given
  <2>2. FieldCodec(f) # OctetStr(1)
    <3> SUFFICES ASSUME FieldCodec(f) = OctetStr(1) PROVE FALSE
      OBVIOUS
    <3>1. f # "short_message"
      <4>1. DefaultOf(m.command, "short_message") = {}
        BY DEF DefaultOf
      <4> QED BY <2>1, <4>1
    <3>2. OctetStr(1).kind = "octets"
      BY DEF OctetStr
    <3>3. CASE f \in DOMAIN COctetStrFields
      <4>1. f \notin {"short_message", "dest_addresses", "unsuccess_smes"}
        BY <3>3 DEF COctetStrFields
      <4>2. FieldCodec(f) = COctetStr(COctetStrFields[f])
        BY <3>3, <4>1 DEF FieldCodec
      <4> QED BY <3>2, <4>2 DEF COctetStr
    <3>4. CASE f \notin DOMAIN COctetStrFields
      <4>1. FieldCodec(f) \in {DestAddresses, UnsuccessSmes, U8}
        BY <3>1, <3>4 DEF FieldCodec
      <4> QED BY <3>2, <4>1 DEF DestAddresses, UnsuccessSmes, U8
    <3> QED BY <3>3, <3>4
  <2> QED BY <1>1, <1>3, <2>1, <2>2 DEF SameField
<1> QED BY <1>2, <1>3
LEMMA MiddleOf ==
    ASSUME NEW a \in Seq(Bytes), NEW b \in Seq(Bytes), NEW r \in Seq(Bytes), NEW ab, Joined(ab, a, b), NEW w, Joined(w, ab, r)
    PROVE  SubSeq(w, Len(a) + 1, Len(a) + Len(b)) = b
<1> DEFINE i == Len(a) + 1
           j == Len(a) + Len(b)
<1>0. Len(a) \in Nat /\ Len(b) \in Nat /\ Len(r) \in Nat
  OBVIOUS
<1>1. ab \in Seq(Bytes) /\ Len(ab) = Len(a) + Len(b) /\ w \in Seq(Bytes) /\ Len(w) = Len(ab) + Len(r)
  BY JoinedIs
<1>2. \A k \in 1 .. Len(b) : ab[Len(a) + k] = b[k]
  <2> SUFFICES ASSUME NEW k \in 1 .. Len(b) PROVE (a \o b)[Len(a) + k] = b[k]
    BY DEF Joined
  <2>1. Len(a) + k \in 1 .. Len(a) + Len(b) /\ ~(Len(a) + k <= Len(a)) /\ (Len(a) + k) - Len(a) = k
    BY <1>0
  <2> QED BY <2>1, ConcatProperties
<1>3. \A k \in 1 .. Len(ab) : w[k] = ab[k]
  <2> SUFFICES ASSUME NEW k \in 1 .. Len(ab) PROVE (ab \o r)[k] = ab[k]
    BY DEF Joined
  <2>1. k \in 1 .. Len(ab) + Len(r) /\ k <= Len(ab)
    BY <1>0, <1>1
  <2> QED BY <1>1, <2>1, ConcatProperties
<1>4. \A k \in 1 .. Len(b) : w[Len(a) + k] = b[k]
  <2> SUFFICES ASSUME NEW k \in 1 .. Len(b) PROVE w[Len(a) + k] = b[k]
    OBVIOUS
  <2>1. Len(a) + k \in 1 .. Len(ab)
    BY <1>0, <1>1
  <2> QED BY <1>2, <1>3, <2>1
<1>5. /\ SubSeq(w, i, j) = [k \in 1 .. Len(b) |-> w[Len(a) + k]]
  <2>1. SubSeq(w, i, j) = [k \in 1 .. (1 + j - i) |-> w[i + k - 1]]
    BY <1>0, <1>1, SubSeqProperties
  <2>2. 1 + j - i = Len(b) /\ \A k \in 1 .. Len(b) : i + k - 1 = Len(a) + k
    BY <1>0
  <2> QED BY <2>1, <2>2
<1>6. b = [k \in 1 .. Len(b) |-> b[k]]
  OBVIOUS
<1> QED BY <1>4, <1>5, <1>6
\* w is a PDU of m: four bytes of length l, the header and the body q.
Framed(m, l, q, w) ==
    /\ l \in Seq(Bytes) /\ Len(l) = 4 /\ q \in Seq(Bytes)
    /\ \E a, b, c : /\ Joined(a, l, CommandId(m.command)) /\ Joined(b, a, BigEndian(m.status.num, 4))
                    /\ Joined(c, b, BigEndian(m.sequence.num, 4)) /\ Joined(w, c, q)

LEMMA HeaderBytes ==
    ASSUME NEW m, IsMessage(m)
    PROVE  /\ CommandId(m.command) \in Seq(Bytes) /\ Len(CommandId(m.command)) = 4
           /\ \A v \in {m.status, m.sequence} :
                 /\ v.num \in Nat /\ v = Num(v.num) /\ BigEndian(v.num, 4) \in Seq(Bytes)
                 /\ Len(BigEndian(v.num, 4)) = 4 /\ FromBigEndian(BigEndian(v.num, 4)) = v.num
                 /\ HeaderField(v) = BigEndian(v.num, 4)
<1>1. CommandId(m.command) \in [1 .. 4 -> 0 .. 255]
  BY TableAssumption DEF IsMessage
<1>2. CommandId(m.command) \in Seq(Bytes) /\ Len(CommandId(m.command)) = 4
  <2>1. PICK t \in [1 .. 4 -> 0 .. 255] : t = CommandId(m.command)
    BY <1>1
  <2>2. t \in [1 .. 4 -> Bytes]
    BY DEF Bytes
  <2>3. t = [i \in 1 .. 4 |-> t[i]] /\ \A i \in 1 .. 4 : t[i] \in Bytes
    BY <2>2
  <2>4. [i \in 1 .. 4 |-> t[i]] \in Seq(Bytes) /\ Len([i \in 1 .. 4 |-> t[i]]) = 4
    BY <2>3
  <2> QED BY <2>1, <2>3, <2>4
<1>3. ASSUME NEW v \in {m.status, m.sequence}
      PROVE  v.num \in Nat /\ v = Num(v.num) /\ FitsFlat(U32, v) /\ Is("num", v)
  BY DEF IsMessage, Num, Is
<1>4. ASSUME NEW v \in {m.status, m.sequence} PROVE v.num \div Powers[4] < 256
  <2>1. FitsFlat(U32, v) /\ U32.kind = "uint" /\ U32.width = 4
    BY <1>3 DEF U32
  <2> QED BY <2>1, SMT DEF FitsFlat
<1>5. ASSUME NEW v \in {m.status, m.sequence}
      PROVE  /\ BigEndian(v.num, 4) \in Seq(Bytes) /\ Len(BigEndian(v.num, 4)) = 4
             /\ FromBigEndian(BigEndian(v.num, 4)) = v.num
  <2>1. 4 \in {1, 2, 4} /\ 4 \in 0 .. 4
    OBVIOUS
  <2> QED BY <1>3, <1>4, <2>1, BigEndianBytes, NumberBack
<1>6. ASSUME NEW v \in {m.status, m.sequence} PROVE HeaderField(v) = BigEndian(v.num, 4)
  BY <1>3 DEF HeaderField
<1> QED BY <1>2, <1>3, <1>5, <1>6

\* The header is read as it was written.
LEMMA HeaderBack ==
    ASSUME NEW m, IsMessage(m), NEW l, NEW q, NEW w, Framed(m, l, q, w)
    PROVE  /\ w \in Seq(Bytes) /\ Len(w) = 16 + Len(q) /\ Take(w, 4) = l /\ Drop(w, 16) = q
           /\ SubSeq(w, 5, 8) = CommandId(m.command)
           /\ SubSeq(w, 9, 12) = BigEndian(m.status.num, 4)
           /\ SubSeq(w, 13, 16) = BigEndian(m.sequence.num, 4)
<1>1. PICK C \in Seq(Bytes), S \in Seq(Bytes), N \in Seq(Bytes) :
          /\ C = CommandId(m.command) /\ S = BigEndian(m.status.num, 4) /\ N = BigEndian(m.sequence.num, 4)
          /\ Len(C) = 4 /\ Len(S) = 4 /\ Len(N) = 4
  BY HeaderBytes
<1>2. l \in Seq(Bytes) /\ Len(l) = 4 /\ q \in Seq(Bytes)
  BY DEF Framed
<1>3. PICK a, b, c : Joined(a, l, C) /\ Joined(b, a, S) /\ Joined(c, b, N) /\ Joined(w, c, q)
  BY <1>1 DEF Framed
<1>4. a \in Seq(Bytes) /\ Len(a) = 8
  <2>1. a \in Seq(Bytes) /\ Len(a) = Len(l) + Len(C)
    BY <1>2, <1>3, JoinedIs
  <2> QED BY <1>1, <1>2, <2>1
<1>5. b \in Seq(Bytes) /\ Len(b) = 12
  <2>1. b \in Seq(Bytes) /\ Len(b) = Len(a) + Len(S)
    BY <1>3, <1>4, JoinedIs
  <2> QED BY <1>1, <1>4, <2>1
<1>6. c \in Seq(Bytes) /\ Len(c) = 16
  <2>1. c \in Seq(Bytes) /\ Len(c) = Len(b) + Len(N)
    BY <1>3, <1>5, JoinedIs
  <2> QED BY <1>1, <1>5, <2>1
<1>7. w \in Seq(Bytes) /\ Len(w) = 16 + Len(q) /\ w = c \o q
  <2>1. w \in Seq(Bytes) /\ Len(w) = Len(c) + Len(q) /\ w = c \o q
    BY <1>2, <1>3, <1>6, JoinedIs
  <2> QED BY <1>6, <2>1
<1>8. Drop(w, 16) = q
  BY <1>2, <1>6, <1>7, TakeDropAt
<1>9. PICK r3 \in Seq(Bytes) : Joined(r3, N, q)
  BY <1>2, JoinedIs
<1>10. Joined(w, b, r3)
  BY <1>2, <1>3, <1>5, <1>9, JoinedAssociative
<1>11. PICK r2 \in Seq(Bytes) : Joined(r2, S, r3)
  BY JoinedIs
<1>12. Joined(w, a, r2)
  BY <1>3, <1>4, <1>10, <1>11, JoinedAssociative
<1>13. PICK r1 \in Seq(Bytes) : Joined(r1, C, r2)
  BY JoinedIs
<1>14. Joined(w, l, r1)
  BY <1>2, <1>3, <1>12, <1>13, JoinedAssociative
<1>15. Take(w, 4) = l
  <2>1. w = l \o r1
    BY <1>14 DEF Joined
  <2> QED BY <1>2, <2>1, TakeDropAt
<1>16. SubSeq(w, 5, 8) = C
  <2>1. SubSeq(w, Len(l) + 1, Len(l) + Len(C)) = C
    BY <1>2, <1>3, <1>12, MiddleOf, ZenonT(60)
  <2>2. Len(l) = 4 /\ Len(C) = 4
    BY <1>1, <1>2
  <2>3. SubSeq(w, 4 + 1, 4 + 4) = C
    BY <2>1, <2>2, Zenon
  <2>4. 4 + 1 = 5 /\ 4 + 4 = 8
    OBVIOUS
  <2> QED BY <2>3, <2>4, Zenon
<1>17. SubSeq(w, 9, 12) = S
  <2>1. SubSeq(w, Len(a) + 1, Len(a) + Len(S)) = S
    <3>1. a \in Seq(Bytes) /\ S \in Seq(Bytes) /\ r3 \in Seq(Bytes) /\ Joined(b, a, S) /\ Joined(w, b, r3)
      BY <1>3, <1>4, <1>10
    <3> QED BY <3>1, MiddleOf
  <2>2. Len(a) = 8 /\ Len(S) = 4
    BY <1>1, <1>4
  <2>3. SubSeq(w, 8 + 1, 8 + 4) = S
    BY <2>1, <2>2, Zenon
  <2>4. 8 + 1 = 9 /\ 8 + 4 = 12
    OBVIOUS
  <2> QED BY <2>3, <2>4, Zenon
<1>18. SubSeq(w, 13, 16) = N
  <2>1. SubSeq(w, Len(b) + 1, Len(b) + Len(N)) = N
    <3>1. b \in Seq(Bytes) /\ N \in Seq(Bytes) /\ q \in Seq(Bytes) /\ Joined(c, b, N) /\ Joined(w, c, q)
      BY <1>2, <1>3, <1>5
    <3> QED BY <3>1, MiddleOf
  <2>2. Len(b) = 12 /\ Len(N) = 4
    BY <1>1, <1>5
  <2>3. SubSeq(w, 12 + 1, 12 + 4) = N
    BY <2>1, <2>2, Zenon
  <2>4. 12 + 1 = 13 /\ 12 + 4 = 16
    OBVIOUS
  <2> QED BY <2>3, <2>4, Zenon
<1> QED BY <1>1, <1>7, <1>8, <1>15, <1>16, <1>17, <1>18

\* What to_json makes of it.
LEMMA ToJsonBack ==
    ASSUME NEW m, IsMessage(m), NEW l, NEW q, NEW w, Framed(m, l, q, w)
    PROVE  ToJson(w) = {[command |-> m.command, status |-> m.status, sequence |-> m.sequence, fields |-> x.value] :
                            x \in DecodeBody(m.command, q)}
<1> DEFINE T(c) == {[command |-> c, status |-> Num(FromBigEndian(SubSeq(w, 9, 12))),
                     sequence |-> Num(FromBigEndian(SubSeq(w, 13, 16))), fields |-> x.value] :
                        x \in DecodeBody(c, Drop(w, HeaderLength))}
           D == {d \in Commands : CommandId(d) = SubSeq(w, 5, 8)}
<1>1. ~(Len(w) < HeaderLength) /\ HeaderLength = 16
  <2>0. Len(w) = 16 + Len(q)
    BY HeaderBack
  <2>1. Len(w) = 16 + Len(q) /\ Len(q) \in Nat
    BY <2>0 DEF Framed
  <2> QED BY <2>1 DEF HeaderLength
<1>2. ToJson(w) = UNION {T(c) : c \in D}
  BY <1>1 DEF ToJson
<1>3. D = {m.command}
  <2>1. SubSeq(w, 5, 8) = CommandId(m.command)
    BY HeaderBack
  <2> QED BY <2>1, TableAssumption DEF IsMessage
<1>4. /\ Num(FromBigEndian(SubSeq(w, 9, 12))) = m.status
      /\ Num(FromBigEndian(SubSeq(w, 13, 16))) = m.sequence
  <2>1. SubSeq(w, 9, 12) = BigEndian(m.status.num, 4) /\ SubSeq(w, 13, 16) = BigEndian(m.sequence.num, 4)
    BY HeaderBack
  <2>2. FromBigEndian(BigEndian(m.status.num, 4)) = m.status.num /\ m.status = Num(m.status.num)
    BY HeaderBytes
  <2>3. FromBigEndian(BigEndian(m.sequence.num, 4)) = m.sequence.num /\ m.sequence = Num(m.sequence.num)
    BY HeaderBytes
  <2> QED BY <2>1, <2>2, <2>3
<1>5. Drop(w, HeaderLength) = q
  BY <1>1, HeaderBack
<1>6. T(m.command) = {[command |-> m.command, status |-> m.status, sequence |-> m.sequence, fields |-> x.value] :
                          x \in DecodeBody(m.command, q)}
  BY <1>4, <1>5
<1>7. UNION {T(c) : c \in {m.command}} = T(m.command)
  <2> HIDE DEF T
  <2> QED OBVIOUS
<1> HIDE DEF T, D
<1> QED BY <1>2, <1>3, <1>6, <1>7
LEMMA PartsBytes ==
    ASSUME NEW m, IsMessage(m)
    PROVE  EncodeFields(m) \subseteq Seq(Bytes) /\ EncodeTlvs(m) \subseteq Seq(Bytes)
<1>0. <<>> \in Seq(Bytes)
  OBVIOUS
<1>1. ASSUME NEW b \in EncodeFields(m) PROVE b \in Seq(Bytes)
  <2>1. PICK E : /\ EncodeFields(m) = ConcatAll(E) /\ Len(E) \in Nat
                 /\ \A i \in 1 .. Len(E) : E[i] \subseteq Seq(Bytes)
    BY FieldsParts
  <2> QED BY <1>0, <2>1, Cut
<1>2. ASSUME NEW b \in EncodeTlvs(m) PROVE b \in Seq(Bytes)
  <2>1. PICK E : /\ b \in ConcatAll(E) /\ Len(E) \in Nat
                 /\ \A i \in 1 .. Len(E) : E[i] \subseteq Seq(Bytes)
    BY TlvParts
  <2> QED BY <1>0, <2>1, Cut
<1> QED BY <1>1, <1>2

\* The body q of a PDU of m: its fields, its TLVs and what follows them.
Body(m, r, q) ==
    \E F \in EncodeFields(m), T \in EncodeTlvs(m), t \in Seq(Bytes) : Joined(q, F, t) /\ Joined(t, T, r)

HeaderOf(m) == CommandId(m.command) \o HeaderField(m.status) \o HeaderField(m.sequence)
PartsOf(m) == <<{HeaderOf(m)}, EncodeFields(m), EncodeTlvs(m)>>

LEMMA HeaderOfBytes ==
    ASSUME NEW m, IsMessage(m)
    PROVE  /\ HeaderOf(m) \in Seq(Bytes)
           /\ \E a \in Seq(Bytes) : /\ Joined(a, CommandId(m.command), BigEndian(m.status.num, 4))
                                    /\ Joined(HeaderOf(m), a, BigEndian(m.sequence.num, 4))
<1>1. PICK C \in Seq(Bytes), S \in Seq(Bytes), N \in Seq(Bytes) :
          /\ C = CommandId(m.command) /\ S = BigEndian(m.status.num, 4) /\ N = BigEndian(m.sequence.num, 4)
          /\ HeaderField(m.status) = S /\ HeaderField(m.sequence) = N
  BY HeaderBytes
<1>2. PICK a \in Seq(Bytes) : Joined(a, C, S)
  BY JoinedIs
<1>3. HeaderOf(m) = (C \o S) \o N
  BY <1>1 DEF HeaderOf
<1>4. Joined(HeaderOf(m), a, N)
  BY <1>2, <1>3 DEF Joined
<1>5. HeaderOf(m) \in Seq(Bytes)
  BY <1>4, JoinedIs
<1> QED BY <1>1, <1>2, <1>4, <1>5

LEMMA PduCut ==
    ASSUME NEW m, IsMessage(m), NEW b \in ConcatAll(PartsOf(m)), NEW r \in Seq(Bytes), NEW s, Joined(s, b, r)
    PROVE  b \in Seq(Bytes) /\ \E q \in Seq(Bytes) : Joined(s, HeaderOf(m), q) /\ Body(m, r, q)
<1> DEFINE E == PartsOf(m)
<1>1. Len(E) = 3 /\ E[1] = {HeaderOf(m)} /\ E[2] = EncodeFields(m) /\ E[3] = EncodeTlvs(m)
  BY DEF PartsOf
<1>2. HeaderOf(m) \in Seq(Bytes)
  BY HeaderOfBytes
<1>3. EncodeFields(m) \subseteq Seq(Bytes) /\ EncodeTlvs(m) \subseteq Seq(Bytes)
  BY PartsBytes
<1>4. \A k \in 1 .. 3 : E[k] \subseteq Seq(Bytes)
  <2>1. \A k \in 1 .. 3 : k = 1 \/ k = 2 \/ k = 3
    OBVIOUS
  <2> HIDE DEF E
  <2> QED BY <1>1, <1>2, <1>3, <2>1
<1> HIDE DEF E
<1>5. Len(E) \in Nat /\ \A k \in 1 .. Len(E) : E[k] \subseteq Seq(Bytes)
  BY <1>1, <1>4
<1>6. b \in ConcatAll(E)
  BY DEF E
<1>7. b \in Seq(Bytes) /\ \E e, t : CutBy(E, Len(E), e, t) /\ t[0] = b \o r /\ t[Len(E)] = r
  BY <1>5, <1>6, Cut
<1>8. PICK e, t : CutBy(E, 3, e, t) /\ t[0] = b \o r /\ t[3] = r
  BY <1>1, <1>7
<1>9. /\ t \in [0 .. 3 -> Seq(Bytes)]
      /\ \A k \in 1 .. 3 : e[k] \in E[k] /\ Joined(t[k - 1], e[k], t[k])
  BY <1>8 DEF CutBy
<1>10. 1 \in 1 .. 3 /\ 2 \in 1 .. 3 /\ 3 \in 1 .. 3 /\ 1 - 1 = 0 /\ 2 - 1 = 1 /\ 3 - 1 = 2
  OBVIOUS
<1>11. /\ e[1] \in E[1] /\ Joined(t[0], e[1], t[1]) /\ e[2] \in E[2] /\ Joined(t[1], e[2], t[2])
       /\ e[3] \in E[3] /\ Joined(t[2], e[3], t[3])
  BY <1>9, <1>10
<1>12. t[1] \in Seq(Bytes) /\ t[2] \in Seq(Bytes)
  BY <1>9
<1>13. Joined(s, HeaderOf(m), t[1])
  <2>1. s = t[0] /\ e[1] = HeaderOf(m)
    BY <1>1, <1>8, <1>11 DEF Joined
  <2> QED BY <1>11, <2>1
<1>14. Body(m, r, t[1])
  BY <1>1, <1>8, <1>11, <1>12 DEF Body
<1> QED BY <1>7, <1>12, <1>13, <1>14

\* A length before the parts makes a PDU.
LEMMA FramedBy ==
    ASSUME NEW m, IsMessage(m), NEW b \in ConcatAll(PartsOf(m)), NEW r \in Seq(Bytes), NEW s, Joined(s, b, r),
           NEW l \in Seq(Bytes), Len(l) = 4, NEW w, Joined(w, l, s)
    PROVE  \E q : Framed(m, l, q, w) /\ Body(m, r, q)
<1>1. PICK q \in Seq(Bytes) : Joined(s, HeaderOf(m), q) /\ Body(m, r, q)
  BY PduCut
<1>2. PICK H \in Seq(Bytes), C \in Seq(Bytes), S \in Seq(Bytes), N \in Seq(Bytes) :
          /\ H = HeaderOf(m) /\ C = CommandId(m.command)
          /\ S = BigEndian(m.status.num, 4) /\ N = BigEndian(m.sequence.num, 4)
  BY HeaderBytes, HeaderOfBytes
<1>3. PICK cs \in Seq(Bytes) : Joined(cs, C, S) /\ Joined(H, cs, N)
  BY <1>2, HeaderOfBytes
<1>4. Joined(s, H, q)
  BY <1>1, <1>2
<1>5. PICK c \in Seq(Bytes) : Joined(c, l, H)
  BY JoinedIs
<1>6. Joined(w, c, q)
  BY <1>4, <1>5, JoinedAssociative
<1>7. PICK b2 \in Seq(Bytes) : Joined(b2, l, cs)
  BY JoinedIs
<1>8. Joined(c, b2, N)
  BY <1>3, <1>5, <1>7, JoinedAssociative
<1>9. PICK a \in Seq(Bytes) : Joined(a, l, C)
  BY JoinedIs
<1>10. Joined(b2, a, S)
  BY <1>3, <1>7, <1>9, JoinedAssociative
<1>11. \E a2, b3, c2 : Joined(a2, l, C) /\ Joined(b3, a2, S) /\ Joined(c2, b3, N) /\ Joined(w, c2, q)
  BY <1>6, <1>8, <1>9, <1>10
<1>12. Framed(m, l, q, w)
  BY <1>2, <1>11 DEF Framed
<1> QED BY <1>1, <1>12
\* What from_json makes of a message is a PDU of it.
LEMMA FromJsonIs ==
    ASSUME NEW m, IsMessage(m), NEW p \in FromJson(m)
    PROVE  \E b \in ConcatAll(PartsOf(m)), l \in Seq(Bytes) : b \in Seq(Bytes) /\ Len(l) = 4 /\ Joined(p, l, b)
<1>1. m.command \in Commands
  BY DEF IsMessage
<1>2. PICK b \in ConcatAll(PartsOf(m)) : p = BigEndian(Len(b) + 4, 4) \o b
  BY <1>1 DEF FromJson, PartsOf, HeaderOf
<1>3. b \in Seq(Bytes)
  <2>1. Joined(b \o <<>>, b, <<>>) /\ <<>> \in Seq(Bytes)
    BY DEF Joined
  <2> QED BY <2>1, PduCut
<1>4. Len(b) + 4 \in Nat /\ 4 \in 0 .. 4
  BY <1>3
<1>5. BigEndian(Len(b) + 4, 4) \in Seq(Bytes) /\ Len(BigEndian(Len(b) + 4, 4)) = 4
  BY <1>4, BigEndianBytes
<1> QED BY <1>2, <1>3, <1>5 DEF Joined

\* A response of the connection.
LEMMA ResponsePdu ==
    ASSUME NEW m, IsMessage(m), NEW p \in FromJson(m)
    PROVE  \E l, q : Framed(m, l, q, p) /\ Body(m, <<>>, q)
<1>1. PICK b \in ConcatAll(PartsOf(m)), l \in Seq(Bytes) : b \in Seq(Bytes) /\ Len(l) = 4 /\ Joined(p, l, b)
  BY FromJsonIs
<1>2. <<>> \in Seq(Bytes) /\ b \o <<>> = b
  BY <1>1
<1>3. Joined(b, b, <<>>)
  BY <1>2 DEF Joined
<1>4. PICK o \in Seq(Bytes) : o = <<>> /\ Joined(b, b, o)
  BY <1>2, <1>3
<1>5. \E q : Framed(m, l, q, p) /\ Body(m, o, q)
  BY <1>1, <1>4, FramedBy
<1> QED BY <1>4, <1>5

\* What the SMSC writes.
LEMMA OnWireIs ==
    ASSUME NEW m, IsMessage(m), m.extra \in Seq(Bytes), NEW w \in OnWire(m), FitsFlat(U32, Num(Len(w)))
    PROVE  /\ \E l, q : Framed(m, l, q, w) /\ Body(m, m.extra, q)
           /\ w \in Seq(Bytes) /\ Len(w) >= 16 /\ FromBigEndian(Take(w, 4)) = Len(w)
<1>1. PICK p \in FromJson(m) : w = BigEndian(Len(p) + Len(m.extra), 4) \o Drop(p, 4) \o m.extra
  BY DEF OnWire
<1>2. PICK b \in ConcatAll(PartsOf(m)), k \in Seq(Bytes) : b \in Seq(Bytes) /\ Len(k) = 4 /\ Joined(p, k, b)
  BY FromJsonIs
<1>3. Drop(p, 4) = b /\ Len(p) = 4 + Len(b)
  <2>1. p = k \o b
    BY <1>2 DEF Joined
  <2>2. Drop(p, 4) = b
    BY <1>2, <2>1, TakeDropAt
  <2>3. Len(p) = Len(k) + Len(b)
    BY <1>2, JoinedIs
  <2> QED BY <1>2, <2>2, <2>3
<1> DEFINE n == Len(p) + Len(m.extra)
           l == BigEndian(n, 4)
<1>4. n \in Nat /\ Len(b) \in Nat /\ Len(m.extra) \in Nat /\ n = (4 + Len(b)) + Len(m.extra)
  <2>1. Len(b) \in Nat /\ Len(m.extra) \in Nat
    BY <1>2
  <2>2. n = (4 + Len(b)) + Len(m.extra)
    BY <1>3
  <2>3. \A i, j \in Nat : (4 + i) + j \in Nat
    OBVIOUS
  <2>4. n \in Nat
    BY <2>1, <2>2, <2>3, Zenon
  <2> HIDE DEF n
  <2> QED BY <2>1, <2>2, <2>4, Zenon
<1>5. l \in Seq(Bytes) /\ Len(l) = 4
  <2>1. 4 \in 0 .. 4
    OBVIOUS
  <2> HIDE DEF n
  <2> QED BY <1>4, <2>1, BigEndianBytes
<1>6. w = l \o b \o m.extra
  BY <1>1, <1>3
<1> HIDE DEF l, n
<1>7. PICK lb \in Seq(Bytes), s \in Seq(Bytes) : Joined(lb, l, b) /\ Joined(s, b, m.extra)
  BY <1>2, <1>5, JoinedIs
<1>8. Joined(w, lb, m.extra)
  BY <1>6, <1>7 DEF Joined
<1>9. Joined(w, l, s)
  BY <1>2, <1>5, <1>7, <1>8, JoinedAssociative
<1>10. PICK q : Framed(m, l, q, w) /\ Body(m, m.extra, q)
  BY <1>2, <1>5, <1>7, <1>9, FramedBy
<1>11. w \in Seq(Bytes) /\ Len(w) = 16 + Len(q) /\ Take(w, 4) = l
  BY <1>10, HeaderBack
<1>12. Len(q) \in Nat
  BY <1>10 DEF Framed
<1>13. Len(w) = n
  <2>1. Len(lb) = Len(l) + Len(b)
    BY <1>2, <1>5, <1>7, JoinedIs
  <2>2. Len(w) = Len(lb) + Len(m.extra)
    BY <1>7, <1>8, JoinedIs
  <2> QED BY <1>4, <1>5, <2>1, <2>2
<1>14. n \div Powers[4] < 256
  <2>1. FitsFlat(U32, Num(n)) /\ U32.kind = "uint" /\ U32.width = 4 /\ Num(n).num = n
    BY <1>13 DEF U32, Num
  <2> QED BY <2>1, SMT DEF FitsFlat
<1>15. FromBigEndian(Take(w, 4)) = n
  <2>1. 4 \in {1, 2, 4}
    OBVIOUS
  <2>2. FromBigEndian(BigEndian(n, 4)) = n
    BY <1>4, <1>14, <2>1, NumberBack
  <2> QED BY <1>11, <2>2 DEF l
<1>16. Len(w) >= 16
  BY <1>11, <1>12
<1> QED BY <1>10, <1>11, <1>13, <1>15, <1>16

\* The fields of a body.
LEMMA BodyCut ==
    ASSUME NEW m, IsMessage(m), NEW F \in EncodeFields(m), NEW t \in Seq(Bytes), NEW q, Joined(q, F, t)
    PROVE  \E e, s : FieldsCut(m, e, s) /\ s[0] = q /\ s[Len(FieldsOf(m.command))] = t
<1> DEFINE names == FieldsOf(m.command)
<1>1. PICK E : /\ EncodeFields(m) = ConcatAll(E) /\ Len(E) = Len(names) /\ Len(E) \in Nat
               /\ \A i \in 1 .. Len(E) :
                     /\ E[i] \subseteq Seq(Bytes)
                     /\ \A e \in E[i] : \E v \in Given(m, names[i]) : e \in Encode(FieldCodec(names[i]), v)
  BY FieldsParts
<1> HIDE DEF names
<1>2. F \in ConcatAll(E) /\ \A i \in 1 .. Len(E) : E[i] \subseteq Seq(Bytes)
  BY <1>1
<1>3. PICK e, s : CutBy(E, Len(E), e, s) /\ s[0] = F \o t /\ s[Len(E)] = t
  BY <1>1, <1>2, Cut
<1>4. /\ s \in [0 .. Len(E) -> Seq(Bytes)]
      /\ \A k \in 1 .. Len(E) : e[k] \in E[k] /\ Joined(s[k - 1], e[k], s[k])
  BY <1>3 DEF CutBy
<1>5. \A i \in 1 .. Len(names) : /\ Joined(s[i - 1], e[i], s[i])
                                 /\ \E v \in Given(m, names[i]) : e[i] \in Encode(FieldCodec(names[i]), v)
  BY <1>1, <1>4
<1>6. s \in [0 .. Len(names) -> Seq(Bytes)]
  BY <1>1, <1>4
<1>7. FieldsCut(m, e, s)
  BY <1>5, <1>6 DEF FieldsCut, names
<1>8. q = F \o t
  BY DEF Joined
<1> QED BY <1>1, <1>3, <1>7, <1>8 DEF names
\* The TLVs of a body, to its end.
LEMMA TlvsCutExists ==
    ASSUME NEW m, IsMessage(m), NEW T \in EncodeTlvs(m), NEW t, Joined(t, T, <<>>)
    PROVE  \E order, n, e, s : /\ n \in Nat /\ TlvsCut(m, order, n, e, s) /\ s[0] = t
                               /\ TlvsOf(m) = {order[i] : i \in 1 .. n}
<1>1. PICK order, E : /\ T \in ConcatAll(E) /\ Len(E) = Len(order) /\ Len(order) \in Nat
                      /\ TlvsOf(m) = {order[i] : i \in 1 .. Len(order)}
                      /\ \A i \in 1 .. Len(order) : E[i] = EncodeTlv(order[i], m.fields[order[i]])
                      /\ \A i \in 1 .. Len(E) : E[i] \subseteq Seq(Bytes)
  BY TlvParts
<1>2. <<>> \in Seq(Bytes) /\ Len(E) \in Nat
  BY <1>1
<1>3. PICK e, s : CutBy(E, Len(E), e, s) /\ s[0] = T \o <<>> /\ s[Len(E)] = <<>>
  BY <1>1, <1>2, Cut
<1> DEFINE n == Len(order)
<1>4. /\ s \in [0 .. n -> Seq(Bytes)] /\ s[n] = <<>>
      /\ \A k \in 1 .. n : e[k] \in E[k] /\ Joined(s[k - 1], e[k], s[k])
  BY <1>1, <1>3 DEF CutBy
<1>5. \A i \in 1 .. n : order[i] \in TlvsOf(m)
  BY <1>1
<1>6. \A i \in 1 .. n : e[i] \in EncodeTlv(order[i], m.fields[order[i]])
  BY <1>1, <1>4
<1> HIDE DEF n
<1>7. TlvsCut(m, order, n, e, s)
  BY <1>4, <1>5, <1>6 DEF TlvsCut
<1>8. s[0] = t
  BY <1>3 DEF Joined
<1>9. n \in Nat /\ TlvsOf(m) = {order[i] : i \in 1 .. n}
  BY <1>1 DEF n
<1> QED BY <1>7, <1>8, <1>9

LEMMA CarriedFits ==
    ASSUME NEW m, IsMessage(m), Carried(m)
    PROVE  /\ FitsTlvs(m) /\ \A i \in 1 .. Len(FieldsOf(m.command)) : FitsGiven(m, FieldsOf(m.command)[i])
           /\ DOMAIN m.fields \subseteq ToSet(FieldsOf(m.command)) \cup TlvsOf(m)
<1>1. ASSUME NEW f \in TlvsOf(m) PROVE FitsFlat(TlvCodec(f), m.fields[f])
  <2>1. Fits(TlvCodec(f), m.fields[f]) /\ f \in DOMAIN TlvTags
    BY DEF Carried, TlvsOf
  <2>2. FlatCodec(TlvCodec(f))
    BY <2>1, TlvTable, TlvCodecFlat
  <2>3. TlvCodec(f).kind \notin {"dests", "smes"}
    BY <2>2 DEF FlatCodec, SelfDelimiting, U8, U16, U32, OctetStr, COctetStr, VarLengthInt, OptionalU8
  <2> QED BY <2>1, <2>3 DEF Fits
<1>2. ASSUME NEW i \in 1 .. Len(FieldsOf(m.command)) PROVE FitsGiven(m, FieldsOf(m.command)[i])
  <2>1. FieldsOf(m.command)[i] \in ToSet(FieldsOf(m.command))
    BY FieldNames DEF IsMessage
  <2> QED BY <2>1 DEF Carried, FitsGiven
<1>3. DOMAIN m.fields \subseteq ToSet(FieldsOf(m.command)) \cup TlvsOf(m)
  BY DEF Carried, TlvsOf
<1> QED BY <1>1, <1>2, <1>3 DEF FitsTlvs

\* A body that can be carried is decoded in one way, to the fields that were sent.
LEMMA BodyBack ==
    ASSUME NEW m, IsMessage(m), Carried(m), NEW q, Body(m, <<>>, q)
    PROVE  \E W : /\ DecodeBody(m.command, q) = Only(W, <<>>)
                  /\ DOMAIN W = DOMAIN m.fields \cup ToSet(FieldsOf(m.command))
                  /\ \A g \in DOMAIN W : SameField(m, g, W[g])
<1> DEFINE names == FieldsOf(m.command)
           K == Len(names)
<1>0. m.command \in Commands
  BY DEF IsMessage
<1>1. K \in Nat /\ ToSet(names) = {names[i] : i \in 1 .. K}
  BY <1>0, FieldNames
<1>2. PICK F \in EncodeFields(m), T \in EncodeTlvs(m), t \in Seq(Bytes) : Joined(q, F, t) /\ Joined(t, T, <<>>)
  BY DEF Body
<1>3. PICK e, s : FieldsCut(m, e, s) /\ s[0] = q /\ s[K] = t
  BY <1>2, BodyCut
<1>4. PICK f : FieldsBy(names, s[0], f)
  BY <1>1, FieldsByExists
<1>5. FitsTlvs(m) /\ (\A i \in 1 .. K : FitsGiven(m, names[i])) /\ DOMAIN m.fields \subseteq ToSet(names) \cup TlvsOf(m)
  BY CarriedFits
<1>6. PICK V : f[K] = Only(V, s[K]) /\ ReadFrom(m, V, K)
  <2>1. K \in 0 .. K
    BY <1>1
  <2> QED BY <1>3, <1>4, <1>5, <2>1, FieldsBack
<1>7. DecodeFields(names, q) = Only(V, t)
  BY <1>3, <1>4, <1>6 DEF FieldsBy
<1>8. DOMAIN V = ToSet(names) /\ \A g \in DOMAIN V : SameField(m, g, V[g])
  <2>1. DOMAIN V = {names[i] : i \in 1 .. K} /\ \A i \in 1 .. K : GivenAs(m, names[i], V[names[i]])
    BY <1>6 DEF ReadFrom
  <2> HIDE DEF names, K
  <2> QED BY <1>1, <2>1, GivenIsSame
<1>9. PICK order, n, e2, s2 : /\ n \in Nat /\ TlvsCut(m, order, n, e2, s2) /\ s2[0] = t
                              /\ TlvsOf(m) = {order[i] : i \in 1 .. n}
  BY <1>2, TlvsCutExists
<1>10. PICK W : DecodeTlvs([value |-> V, rest |-> t]) = Only(W, <<>>) /\ TlvsRead(m, V, order, n, W)
  <2>1. \E W : DecodeTlvs([value |-> V, rest |-> s2[0]]) = Only(W, <<>>) /\ TlvsRead(m, V, order, n, W)
    BY <1>5, <1>9, TlvsBack
  <2> QED BY <1>9, <2>1
<1>11. DecodeBody(m.command, q) = Only(W, <<>>)
  <2>1. DecodeBody(m.command, q) = UNION {DecodeTlvs(x) : x \in Only(V, t)}
    BY <1>7 DEF DecodeBody
  <2> QED BY <1>10, <2>1 DEF Only
<1>12. /\ DOMAIN W = ToSet(names) \cup TlvsOf(m)
       /\ \A g \in DOMAIN W : IF g \in TlvsOf(m) THEN Same(W[g], m.fields[g]) ELSE W[g] = V[g]
  BY <1>8, <1>9, <1>10 DEF TlvsRead
<1>13. DOMAIN W = DOMAIN m.fields \cup ToSet(names)
  BY <1>5, <1>12 DEF TlvsOf
<1>14. \A g \in DOMAIN W : SameField(m, g, W[g])
  <2> SUFFICES ASSUME NEW g \in DOMAIN W PROVE SameField(m, g, W[g])
    OBVIOUS
  <2>1. CASE g \in TlvsOf(m)
    BY <1>12, <2>1 DEF SameField, TlvsOf
  <2>2. CASE g \notin TlvsOf(m)
    BY <1>8, <1>12, <2>2
  <2> QED BY <2>1, <2>2
<1> QED BY <1>11, <1>13, <1>14

\* A message that can be carried comes back as it was sent.
LEMMA RoundTrip ==
    ASSUME NEW m, IsMessage(m), Carried(m), NEW l, NEW q, NEW w, Framed(m, l, q, w), Body(m, <<>>, q)
    PROVE  \E got \in ToJson(w) : SameMessage(m, got)
<1>1. PICK W : /\ DecodeBody(m.command, q) = Only(W, <<>>)
               /\ DOMAIN W = DOMAIN m.fields \cup ToSet(FieldsOf(m.command))
               /\ \A g \in DOMAIN W : SameField(m, g, W[g])
  BY BodyBack
<1> DEFINE got == [command |-> m.command, status |-> m.status, sequence |-> m.sequence, fields |-> W]
<1>2. got \in ToJson(w)
  <2>1. ToJson(w) = {[command |-> m.command, status |-> m.status, sequence |-> m.sequence, fields |-> x.value] :
                         x \in DecodeBody(m.command, q)}
    BY ToJsonBack
  <2> QED BY <1>1, <2>1 DEF Only
<1>3. SameMessage(m, got)
  BY <1>1 DEF SameMessage, SameField, Same
<1> QED BY <1>2, <1>3
-----------------------------------------------------------------------------
(***************************************************************************)
(* The stream. e are the PDUs that were sent, s what follows each of them. *)
(***************************************************************************)
LEMMA TakeOfJoined ==
    ASSUME NEW b \in Seq(Bytes), NEW r \in Seq(Bytes), NEW w, Joined(w, b, r), NEW k \in Nat, k <= Len(b)
    PROVE  Take(w, k) = Take(b, k)
<1>1. w \in Seq(Bytes) /\ Len(w) = Len(b) + Len(r) /\ Len(b) \in Nat /\ Len(r) \in Nat
  <2>1. w \in Seq(Bytes) /\ Len(w) = Len(b) + Len(r)
    BY JoinedIs
  <2>2. Len(b) \in Nat /\ Len(r) \in Nat
    OBVIOUS
  <2> QED BY <2>1, <2>2
<1>2. \A i \in 1 .. k : w[i] = b[i]
  <2> SUFFICES ASSUME NEW i \in 1 .. k PROVE (b \o r)[i] = b[i]
    BY DEF Joined
  <2>1. i \in 1 .. Len(b) + Len(r) /\ i <= Len(b)
    BY <1>1
  <2> QED BY <2>1, ConcatProperties
<1>3. Take(w, k) = [i \in 1 .. k |-> w[i]] /\ Take(b, k) = [i \in 1 .. k |-> b[i]]
  BY <1>1 DEF Take
<1> QED BY <1>2, <1>3

LEMMA TakeAndDrop ==
    ASSUME NEW b \in Seq(Bytes), NEW k \in Nat, k <= Len(b)
    PROVE  Joined(b, Take(b, k), Drop(b, k))
<1>1. Len(b) \in Nat /\ b = [i \in 1 .. Len(b) |-> b[i]]
  OBVIOUS
<1>2. PICK t \in Seq(Bytes), d \in Seq(Bytes) :
          t = Take(b, k) /\ d = Drop(b, k) /\ Len(t) = k /\ Len(d) = Len(b) - k
  BY DropBytes
<1>3. \A i \in 1 .. k : t[i] = b[i]
  BY <1>1, <1>2 DEF Take
<1>4. \A i \in 1 .. Len(b) - k : d[i] = b[k + i]
  BY <1>1, <1>2 DEF Drop
<1>5. Len(t) + Len(d) = Len(b)
  BY <1>1, <1>2
<1>6. ASSUME NEW i \in 1 .. Len(b) PROVE (t \o d)[i] = b[i]
  <2>1. (t \o d)[i] = IF i <= Len(t) THEN t[i] ELSE d[i - Len(t)]
    BY <1>5, ConcatProperties
  <2>2. CASE i <= k
    <3>1. i \in 1 .. k
      BY <2>2
    <3> QED BY <1>2, <1>3, <2>1, <2>2, <3>1
  <2>3. CASE ~(i <= k)
    <3>1. i - k \in 1 .. Len(b) - k /\ k + (i - k) = i
      BY <1>1, <2>3
    <3> QED BY <1>2, <1>4, <2>1, <2>3, <3>1
  <2> QED BY <2>2, <2>3
<1>7. t \o d \in Seq(Bytes) /\ Len(t \o d) = Len(b)
  BY <1>5, CatBytes
<1>8. t \o d = [i \in 1 .. Len(b) |-> (t \o d)[i]]
  <2> DEFINE td == t \o d
  <2>1. td \in Seq(Bytes) /\ Len(td) = Len(b)
    BY <1>7
  <2> HIDE DEF td
  <2>2. td = [i \in 1 .. Len(b) |-> td[i]]
    BY <2>1
  <2> QED BY <2>2 DEF td
<1>9. t \o d = b
  BY <1>1, <1>6, <1>8
<1> QED BY <1>2, <1>9 DEF Joined

\* What has been read of the stream holds the whole of the next PDU, and its length.
LEMMA NextFrame ==
    ASSUME NEW e \in Seq(Bytes), NEW t \in Seq(Bytes), NEW w, Joined(w, e, t),
           NEW b \in Seq(Bytes), NEW r \in Seq(Bytes), Joined(w, b, r), Len(e) <= Len(b)
    PROVE  Take(b, Len(e)) = e /\ Drop(b, Len(e)) \in Seq(Bytes) /\ Joined(t, Drop(b, Len(e)), r)
<1>0. Len(e) \in Nat
  OBVIOUS
<1>1. w = e \o t
  BY DEF Joined
<1>2. Take(w, Len(e)) = e /\ Drop(w, Len(e)) = t
  BY <1>1, TakeDropAt
<1>3. Take(b, Len(e)) = e
  <2>1. Take(w, Len(e)) = Take(b, Len(e))
    BY <1>0, TakeOfJoined
  <2> QED BY <1>2, <2>1
<1>4. PICK d \in Seq(Bytes) : d = Drop(b, Len(e))
  BY <1>0, DropBytes
<1>5. Joined(b, e, d)
  BY <1>0, <1>3, <1>4, TakeAndDrop
<1>6. PICK dr \in Seq(Bytes) : Joined(dr, d, r)
  BY JoinedIs
<1>7. Joined(w, e, dr)
  BY <1>5, <1>6, JoinedAssociative
<1>8. w = e \o dr
  BY <1>7 DEF Joined
<1>9. Drop(w, Len(e)) = dr
  BY <1>8, TakeDropAt
<1>10. dr = t
  BY <1>2, <1>9
<1> QED BY <1>3, <1>4, <1>6, <1>10

Stream(n, e, s) ==
    /\ n \in Nat /\ s \in [0 .. n -> Seq(Bytes)] /\ (s[n] = <<>> \/ FromBigEndian(Take(s[n], 4)) = 0)
    /\ \A k \in 1 .. n : /\ e[k] \in Seq(Bytes) /\ Len(e[k]) >= 16 /\ FromBigEndian(Take(e[k], 4)) = Len(e[k])
                         /\ Joined(s[k - 1], e[k], s[k])

\* a holds the PDUs behind the first r, and leaves the rest of what was read.
Taken(n, e, s, r, wr, a) ==
    \E j \in 0 .. n - r : /\ a.rest \in Seq(Bytes) /\ Joined(s[r + j], a.rest, wr)
                         /\ a.pdus \in Seq(Seq(Bytes)) /\ Len(a.pdus) = j
                         /\ \A i \in 1 .. j : a.pdus[i] = e[r + i]

\* What is left begins with a length of 0, and will do so for ever.
Stuck(a) == a.rest \in Seq(Bytes) /\ Len(a.rest) >= 16 /\ FromBigEndian(Take(a.rest, 4)) = 0

LEMMA StuckExtract ==
    ASSUME NEW a, Stuck(a)
    PROVE  Extract(a.rest) # {} /\ \A x \in Extract(a.rest) : x.rest = a.rest
<1>1. Len(a.rest) \in Nat /\ Len(a.rest) >= 16 /\ FromBigEndian(Take(a.rest, 4)) = 0 /\ a.rest \in Seq(Bytes)
  BY DEF Stuck
<1>2. ~(Len(a.rest) < HeaderLength) /\ ~(Len(a.rest) < 0)
  BY <1>1 DEF HeaderLength
<1>3. Extract(a.rest) = {[pdu |-> Take(a.rest, 0), rest |-> Drop(a.rest, 0)]}
  BY <1>1, <1>2 DEF Extract
<1>4. Drop(a.rest, 0) = a.rest
  <2>0. <<>> \in Seq(Bytes) /\ Len(<<>>) = 0
    OBVIOUS
  <2>1. PICK b \in Seq(Bytes) : b = a.rest
    BY <1>1
  <2>2. <<>> \o b = b
    OBVIOUS
  <2>3. Drop(<<>> \o b, 0) = b
    BY <2>0, TakeDropAt
  <2> QED BY <2>1, <2>2, <2>3
<1> QED BY <1>3, <1>4

LEMMA StuckStays ==
    ASSUME NEW a, Stuck(a), NEW b \in ExtractNext(a)
    PROVE  Stuck(b)
<1>1. Extract(a.rest) # {} /\ \A x \in Extract(a.rest) : x.rest = a.rest
  BY StuckExtract
<1>2. PICK x \in Extract(a.rest) : b = [pdus |-> Append(a.pdus, x.pdu), rest |-> x.rest]
  BY <1>1 DEF ExtractNext
<1>3. b.rest = a.rest
  BY <1>1, <1>2
<1> QED BY <1>3 DEF Stuck

\* extract_message takes the next PDU, or none, or it is at a length of 0.
LEMMA TakenNext ==
    ASSUME NEW n, NEW e, NEW s, Stream(n, e, s), NEW r \in 0 .. n, NEW wr \in Seq(Bytes), NEW a, Taken(n, e, s, r, wr, a),
           ~Stuck(a), NEW b \in ExtractNext(a)
    PROVE  Taken(n, e, s, r, wr, b)
<1>1. /\ n \in Nat /\ s \in [0 .. n -> Seq(Bytes)] /\ (s[n] = <<>> \/ FromBigEndian(Take(s[n], 4)) = 0)
      /\ \A k \in 1 .. n : /\ e[k] \in Seq(Bytes) /\ Len(e[k]) >= 16 /\ FromBigEndian(Take(e[k], 4)) = Len(e[k])
                           /\ Joined(s[k - 1], e[k], s[k])
  BY DEF Stream
<1>2. PICK j \in 0 .. n - r : /\ a.rest \in Seq(Bytes) /\ Joined(s[r + j], a.rest, wr)
                             /\ a.pdus \in Seq(Seq(Bytes)) /\ Len(a.pdus) = j
                             /\ \A i \in 1 .. j : a.pdus[i] = e[r + i]
  BY DEF Taken
<1>3. CASE Extract(a.rest) = {}
  <2>1. b = a
    BY <1>3 DEF ExtractNext
  <2> QED BY <2>1
<1>4. CASE Extract(a.rest) # {}
  <2> DEFINE N == FromBigEndian(Take(a.rest, 4))
  <2>1. /\ ~(Len(a.rest) < HeaderLength) /\ ~(Len(a.rest) < N)
        /\ Extract(a.rest) = {[pdu |-> Take(a.rest, N), rest |-> Drop(a.rest, N)]}
    BY <1>4 DEF Extract
  <2>2. b = [pdus |-> Append(a.pdus, Take(a.rest, N)), rest |-> Drop(a.rest, N)]
    BY <1>4, <2>1 DEF ExtractNext
  <2>3. Len(a.rest) \in Nat /\ Len(a.rest) >= 16
    BY <1>2, <2>1 DEF HeaderLength
  <2>4. r + j # n
    <3> SUFFICES ASSUME r + j = n PROVE FALSE
      OBVIOUS
    <3>0. PICK t \in Seq(Bytes) : t = s[n] /\ (t = <<>> \/ FromBigEndian(Take(t, 4)) = 0)
      BY <1>1
    <3>1. Joined(t, a.rest, wr)
      BY <1>2, <3>0
    <3>2. Len(t) = Len(a.rest) + Len(wr)
      BY <1>2, <3>1, JoinedIs
    <3>3. Len(wr) \in Nat /\ Len(<<>>) = 0
      OBVIOUS
    <3>4. t # <<>>
      BY <2>3, <3>2, <3>3
    <3>5. 4 \in Nat /\ 4 <= Len(a.rest)
      BY <2>3
    <3>6. Take(t, 4) = Take(a.rest, 4)
      BY <1>2, <3>1, <3>5, TakeOfJoined
    <3>7. FromBigEndian(Take(a.rest, 4)) = 0
      BY <3>0, <3>4, <3>6
    <3> QED BY <1>2, <2>3, <3>7 DEF Stuck
  <2> DEFINE k == r + j + 1
  <2>5. k \in 1 .. n /\ k - 1 = r + j /\ j + 1 \in 0 .. n - r /\ r + (j + 1) = k /\ k \in 0 .. n
    BY <1>1, <2>4
  <2> HIDE DEF k
  <2>0. PICK w : w = s[r + j]
    OBVIOUS
  <2>6. PICK x \in Seq(Bytes), t \in Seq(Bytes) :
            /\ x = e[k] /\ t = s[k] /\ Joined(w, x, t)
            /\ Len(x) >= 16 /\ FromBigEndian(Take(x, 4)) = Len(x)
    BY <1>1, <2>0, <2>5
  <2>7. N = Len(x)
    <3>0. Len(x) \in Nat
      OBVIOUS
    <3>4. Len(x) >= 16
      BY <2>6
    <3>1. Len(x) \in Nat /\ 4 \in Nat /\ 4 <= Len(x) /\ 4 <= Len(a.rest)
      BY <2>3, <3>0, <3>4
    <3>2. Take(w, 4) = Take(x, 4)
      BY <2>6, <3>1, TakeOfJoined
    <3>3. Take(w, 4) = Take(a.rest, 4)
      BY <1>2, <2>0, <3>1, TakeOfJoined
    <3> QED BY <2>6, <3>2, <3>3
  <2>8. Len(x) <= Len(a.rest)
    BY <2>1, <2>3, <2>7
  <2>9. Take(a.rest, Len(x)) = x /\ Drop(a.rest, Len(x)) \in Seq(Bytes) /\ Joined(t, Drop(a.rest, Len(x)), wr)
    BY <1>2, <2>0, <2>6, <2>8, NextFrame
  <2> HIDE DEF N
  <2>10. b.rest = Drop(a.rest, Len(x)) /\ b.pdus = Append(a.pdus, x)
    BY <2>2, <2>7, <2>9
  <2>11. b.rest \in Seq(Bytes) /\ Joined(s[r + (j + 1)], b.rest, wr)
    BY <2>5, <2>6, <2>9, <2>10
  <2>12. /\ b.pdus \in Seq(Seq(Bytes)) /\ Len(b.pdus) = j + 1
         /\ \A i \in 1 .. j : b.pdus[i] = a.pdus[i]
         /\ b.pdus[j + 1] = x
    <3> DEFINE P == Seq(Bytes)
    <3>1. a.pdus \in Seq(P) /\ x \in P /\ Len(a.pdus) = j
      BY <1>2
    <3> HIDE DEF P
    <3> QED BY <2>10, <3>1 DEF P
  <2>13. \A i \in 1 .. j + 1 : b.pdus[i] = e[r + i]
    <3>1. \A i \in 1 .. j + 1 : i \in 1 .. j \/ i = j + 1
      OBVIOUS
    <3> QED BY <1>2, <2>5, <2>6, <2>12, <3>1
  <2> QED BY <2>5, <2>11, <2>12, <2>13 DEF Taken
<1> QED BY <1>3, <1>4

TakenBy(buf, f) ==
    /\ f[0] = {[pdus |-> <<>>, rest |-> buf]}
    /\ \A k \in 1 .. Len(buf) \div HeaderLength : f[k] = TakenStep(f[k - 1])
    /\ ExtractAll(buf) = f[Len(buf) \div HeaderLength]

LEMMA TakenByExists ==
    ASSUME NEW buf \in Seq(Bytes)
    PROVE  Len(buf) \div HeaderLength \in Nat /\ \E f : TakenBy(buf, f)
<1>1. Len(buf) \in Nat
  OBVIOUS
<1>2. \A k \in Nat : k \div HeaderLength \in Nat
  BY DEF HeaderLength
<1>3. \E f : TakenBy(buf, f)
  BY <1>1, ExtractAllSteps DEF TakenBy
<1> QED BY <1>1, <1>2, <1>3

\* All PDUs that are complete are taken, in order, unless a length of 0 has come up.
LEMMA ExtractAllBack ==
    ASSUME NEW n, NEW e, NEW s, Stream(n, e, s), NEW r \in 0 .. n, NEW buf \in Seq(Bytes), NEW wr \in Seq(Bytes),
           Joined(s[r], buf, wr), NEW x \in ExtractAll(buf)
    PROVE  IF Spins(x.rest) THEN x.rest \in Seq(Bytes) ELSE Taken(n, e, s, r, wr, x)
<1> DEFINE N == Len(buf) \div HeaderLength
<1>1. N \in Nat
  BY TakenByExists
<1>2. PICK f : TakenBy(buf, f)
  BY TakenByExists
<1>3. f[0] = {[pdus |-> <<>>, rest |-> buf]} /\ (\A k \in 1 .. N : f[k] = TakenStep(f[k - 1])) /\ ExtractAll(buf) = f[N]
  BY <1>2 DEF TakenBy
<1> HIDE DEF N
<1>4. Taken(n, e, s, r, wr, [pdus |-> <<>>, rest |-> buf])
  <2> DEFINE a == [pdus |-> <<>>, rest |-> buf]
  <2>1. 0 \in 0 .. n - r /\ r + 0 = r
    BY DEF Stream
  <2>2. a.rest \in Seq(Bytes) /\ Joined(s[r + 0], a.rest, wr)
    BY <2>1
  <2>3. a.pdus \in Seq(Seq(Bytes)) /\ Len(a.pdus) = 0
    OBVIOUS
  <2>4. \A i \in 1 .. 0 : a.pdus[i] = e[r + i]
    OBVIOUS
  <2> HIDE DEF a
  <2> QED BY <2>1, <2>2, <2>3, <2>4 DEF Taken, a
<1> DEFINE S == {k \in Nat : k <= N => \A a \in f[k] : Taken(n, e, s, r, wr, a) \/ Stuck(a)}
<1>5. 0 \in S
  BY <1>3, <1>4
<1>6. ASSUME NEW k \in S PROVE k + 1 \in S
  <2> SUFFICES ASSUME k + 1 <= N, NEW b \in f[k + 1] PROVE Taken(n, e, s, r, wr, b) \/ Stuck(b)
    OBVIOUS
  <2>1. k \in Nat /\ k <= N /\ k + 1 \in 1 .. N /\ (k + 1) - 1 = k
    BY <1>1
  <2>2. f[k + 1] = TakenStep(f[k])
    BY <1>3, <2>1
  <2>3. PICK a \in f[k] : b \in ExtractNext(a)
    BY <2>2 DEF TakenStep
  <2>4. Taken(n, e, s, r, wr, a) \/ Stuck(a)
    BY <2>1
  <2>5. CASE Stuck(a)
    BY <2>3, <2>5, StuckStays
  <2>6. CASE ~Stuck(a)
    BY <2>3, <2>4, <2>6, TakenNext
  <2> QED BY <2>5, <2>6
<1>7. N \in S
  <2>1. S \in SUBSET Nat
    OBVIOUS
  <2> HIDE DEF S
  <2> QED BY <1>1, <1>5, <1>6, <2>1, Induction
<1>8. Taken(n, e, s, r, wr, x) \/ Stuck(x)
  BY <1>1, <1>3, <1>7
<1>9. CASE Stuck(x)
  <2>1. Spins(x.rest) /\ x.rest \in Seq(Bytes)
    BY <1>9, StuckExtract DEF Spins, Stuck
  <2> QED BY <2>1
<1>10. CASE Taken(n, e, s, r, wr, x)
  <2>1. x.rest \in Seq(Bytes)
    BY <1>10 DEF Taken
  <2> QED BY <1>10, <2>1
<1> QED BY <1>8, <1>9, <1>10
-----------------------------------------------------------------------------
(***************************************************************************)
(* The receipt manager.                                                    *)
(***************************************************************************)

\* The history agrees with the entries: what is still to come was asked for by the entry
\* that is there, and no registration cleans by a time that is yet to come.
OwedWasWanted == \A i \in MsgIds : owed[i] \subseteq wanted[i]
CleanTimeIsPast == \A g \in Registrations : gnow[g] <= now

ReceiptInv == ReceiptTypeOK /\ OwedWasWanted /\ CleanTimeIsPast /\ OwedIsRegistered

\* A registered_delivery asks for kinds of receipts that there are.
LEMMA WantedType == \A byte \in Bytes : Wanted(byte) \subseteq ReceiptKinds
BY DEF Wanted

\* A new manager has no entries and owes nothing.
LEMMA ReceiptInitInv == ReceiptInit => ReceiptInv
BY ReceiptAssumption
   DEF ReceiptInit, ReceiptInv, ReceiptTypeOK, OwedWasWanted, CleanTimeIsPast, OwedIsRegistered

\* Time only makes entries expire.
LEMMA ReceiptTickInv == ReceiptInv /\ ReceiptTick => ReceiptInv'
BY ReceiptAssumption
   DEF ReceiptTick, ReceiptInv, ReceiptTypeOK, OwedWasWanted, CleanTimeIsPast, OwedIsRegistered

\* The start of register_receipt_url reads the clock and leaves the entries alone.
LEMMA RegisterStartInv ==
    ASSUME ReceiptInv, NEW g \in Registrations, RegisterStart(g)
    PROVE  ReceiptInv'
<1> USE DEF ReceiptInv
<1>1. ReceiptTypeOK'
  BY ReceiptAssumption DEF RegisterStart, ReceiptTypeOK
<1>2. OwedWasWanted' /\ OwedIsRegistered'
  BY DEF RegisterStart, OwedWasWanted, OwedIsRegistered
<1>3. CleanTimeIsPast'
  BY DEF RegisterStart, ReceiptTypeOK, CleanTimeIsPast
<1> QED BY <1>1, <1>2, <1>3

\* Only entries that have expired by a time that is past are cleaned away.
LEMMA RegisterCleanInv ==
    ASSUME ReceiptInv, NEW g \in Registrations, RegisterClean(g)
    PROVE  ReceiptInv'
<1> USE DEF ReceiptInv
<1>1. ReceiptTypeOK'
  BY DEF RegisterClean, ReceiptTypeOK
<1>2. OwedWasWanted' /\ CleanTimeIsPast'
  BY DEF RegisterClean, OwedWasWanted, CleanTimeIsPast
<1>3. OwedIsRegistered'
  BY DEF RegisterClean, ReceiptTypeOK, CleanTimeIsPast, OwedIsRegistered
<1> QED BY <1>1, <1>2, <1>3

\* The entry of a registration asks for exactly what it owes.
LEMMA RegisterInsertInv ==
    ASSUME ReceiptInv, NEW g \in Registrations, RegisterInsert(g)
    PROVE  ReceiptInv'
<1> USE DEF ReceiptInv
<1> DEFINE r == RegOf[g]
<1>0. r.id \in MsgIds /\ Wanted(r.registered_delivery) \in SUBSET ReceiptKinds
  BY ReceiptAssumption, WantedType
<1>1. ReceiptTypeOK'
  BY <1>0, ReceiptAssumption DEF RegisterInsert, ReceiptTypeOK
<1>2. OwedWasWanted'
  BY <1>0 DEF RegisterInsert, ReceiptTypeOK, OwedWasWanted
<1>3. CleanTimeIsPast'
  BY DEF RegisterInsert, CleanTimeIsPast
<1>4. OwedIsRegistered'
  BY <1>0 DEF RegisterInsert, ReceiptTypeOK, OwedIsRegistered
<1> QED BY <1>1, <1>2, <1>3, <1>4

\* An entry goes only with a message that brings all that is still owed.
LEMMA GetReceiptUrlInv ==
    ASSUME ReceiptInv, NEW i \in MsgIds, NEW byte, GetReceiptUrl(i, byte)
    PROVE  ReceiptInv'
<1> USE DEF ReceiptInv
<1>1. ReceiptTypeOK'
  BY DEF GetReceiptUrl, ReceiptTypeOK
<1>2. OwedWasWanted'
  BY DEF GetReceiptUrl, ReceiptTypeOK, OwedWasWanted
<1>3. CleanTimeIsPast'
  BY DEF GetReceiptUrl, CleanTimeIsPast
<1>4. OwedIsRegistered'
  BY DEF GetReceiptUrl, ReceiptTypeOK, OwedWasWanted, OwedIsRegistered
<1> QED BY <1>1, <1>2, <1>3, <1>4

\* remove_receipt_info gives up what is owed together with the entry.
LEMMA RemoveReceiptInfoInv ==
    ASSUME ReceiptInv, NEW i \in MsgIds, RemoveReceiptInfo(i)
    PROVE  ReceiptInv'
<1> USE DEF ReceiptInv
<1>1. ReceiptTypeOK'
  BY DEF RemoveReceiptInfo, ReceiptTypeOK
<1>2. OwedWasWanted' /\ CleanTimeIsPast'
  BY DEF RemoveReceiptInfo, ReceiptTypeOK, OwedWasWanted, CleanTimeIsPast
<1>3. OwedIsRegistered'
  BY DEF RemoveReceiptInfo, ReceiptTypeOK, OwedIsRegistered
<1> QED BY <1>1, <1>2, <1>3

\* While a receipt that was asked for is still to come and its hour is not over, the URL
\* of its message is registered: get_receipt_url, a clean-up and other registrations never
\* take it away.
THEOREM ReceiptsCorrect == ReceiptSpec => []OwedIsRegistered
<1>1. ReceiptInv /\ [ReceiptNext]_receiptVars => ReceiptInv'
  <2> SUFFICES ASSUME ReceiptInv, [ReceiptNext]_receiptVars PROVE ReceiptInv'
    OBVIOUS
  <2>1. CASE ReceiptTick
    BY <2>1, ReceiptTickInv
  <2>2. CASE \E g \in Registrations : RegisterStep(g)
    BY <2>2, RegisterStartInv, RegisterCleanInv, RegisterInsertInv DEF RegisterStep
  <2>3. CASE \E i \in MsgIds : RemoveReceiptInfo(i) \/ \E byte \in Bytes : GetReceiptUrl(i, byte)
    BY <2>3, GetReceiptUrlInv, RemoveReceiptInfoInv
  <2>4. CASE UNCHANGED receiptVars
    BY <2>4 DEF receiptVars, ReceiptInv, ReceiptTypeOK, OwedWasWanted, CleanTimeIsPast,
                OwedIsRegistered
  <2> QED BY <2>1, <2>2, <2>3, <2>4 DEF ReceiptNext
<1>2. ReceiptInv => OwedIsRegistered
  BY DEF ReceiptInv
<1> QED BY ReceiptInitInv, <1>1, <1>2, PTL DEF ReceiptSpec
-----------------------------------------------------------------------------
(***************************************************************************)
(* Sequences, of whatever elements.                                        *)
(***************************************************************************)
IsSequence(s) == s \in Seq(ToSet(s))

LEMMA SequenceOf ==
    ASSUME NEW S, NEW s \in Seq(S)
    PROVE  IsSequence(s)
<1>1. Len(s) \in Nat /\ DOMAIN s = 1 .. Len(s) /\ s = [i \in 1 .. Len(s) |-> s[i]]
  OBVIOUS
<1>2. \A i \in 1 .. Len(s) : s[i] \in ToSet(s)
  BY <1>1 DEF ToSet
<1>3. [i \in 1 .. Len(s) |-> s[i]] \in Seq(ToSet(s))
  BY <1>1, <1>2
<1> QED BY <1>1, <1>3 DEF IsSequence

LEMMA SequenceIs ==
    ASSUME NEW s, IsSequence(s)
    PROVE  /\ Len(s) \in Nat /\ DOMAIN s = 1 .. Len(s) /\ (s = <<>> <=> Len(s) = 0)
           /\ \A y : y \in ToSet(s) <=> \E i \in 1 .. Len(s) : y = s[i]
<1>1. s \in Seq(ToSet(s))
  BY DEF IsSequence
<1>2. Len(s) \in Nat /\ DOMAIN s = 1 .. Len(s) /\ (s = <<>> <=> Len(s) = 0)
  BY <1>1
<1>3. \A y : y \in ToSet(s) <=> \E i \in 1 .. Len(s) : y = s[i]
  BY <1>2 DEF ToSet
<1> QED BY <1>2, <1>3

Appended(t, s, y) == t = Append(s, y)

LEMMA AppendIs ==
    ASSUME NEW s, IsSequence(s), NEW y, NEW t, Appended(t, s, y)
    PROVE  /\ IsSequence(t) /\ Len(t) = Len(s) + 1 /\ DOMAIN t = 1 .. Len(s) + 1
           /\ t[Len(s) + 1] = y /\ ToSet(t) = ToSet(s) \cup {y}
           /\ \A i \in 1 .. Len(s) : t[i] = s[i]
<1> DEFINE S == ToSet(s) \cup {y}
<1>1. s \in Seq(ToSet(s)) /\ Len(s) \in Nat
  BY DEF IsSequence
<1>2. \A i \in 1 .. Len(s) : s[i] \in S
  BY <1>1, ElementOfSeq
<1>3. s \in Seq(S)
  <2>1. s = [i \in 1 .. Len(s) |-> s[i]]
    BY <1>1
  <2> HIDE DEF S
  <2>2. [i \in 1 .. Len(s) |-> s[i]] \in Seq(S)
    BY <1>1, <1>2
  <2> QED BY <2>1, <2>2
<1>4. y \in S
  OBVIOUS
<1> HIDE DEF S
<1>5. /\ t \in Seq(S) /\ Len(t) = Len(s) + 1 /\ t[Len(s) + 1] = y
      /\ \A i \in 1 .. Len(s) : t[i] = s[i]
  BY <1>3, <1>4, AppendProperties DEF Appended
<1>6. IsSequence(t)
  BY <1>5, SequenceOf
<1>7. DOMAIN t = 1 .. Len(s) + 1
  BY <1>5, <1>6, SequenceIs
<1>8. ToSet(t) = ToSet(s) \cup {y}
  <2>1. \A i \in 1 .. Len(s) + 1 : i \in 1 .. Len(s) \/ i = Len(s) + 1
    BY <1>1
  <2>2. \A i \in 1 .. Len(s) : i \in 1 .. Len(s) + 1
    BY <1>1
  <2>3. Len(s) + 1 \in 1 .. Len(s) + 1
    BY <1>1
  <2>4. \A z : z \in ToSet(t) <=> \E i \in 1 .. Len(s) + 1 : z = t[i]
    <3>1. \A z : z \in ToSet(t) <=> \E i \in 1 .. Len(t) : z = t[i]
      BY <1>7, <1>5 DEF ToSet
    <3>2. Len(t) = Len(s) + 1
      BY <1>5
    <3> QED BY <3>1, <3>2
  <2>5. \A z : z \in ToSet(s) <=> \E i \in 1 .. Len(s) : z = s[i]
    BY SequenceIs
  <2>6. ASSUME NEW z \in ToSet(t) PROVE z \in ToSet(s) \cup {y}
    BY <1>5, <2>1, <2>4, <2>5
  <2>7. ASSUME NEW z \in ToSet(s) \cup {y} PROVE z \in ToSet(t)
    BY <1>5, <2>2, <2>3, <2>4, <2>5
  <2> QED BY <2>6, <2>7
<1> QED BY <1>5, <1>6, <1>7, <1>8

LEMMA TailIs ==
    ASSUME NEW s, IsSequence(s), s # <<>>, NEW t, t = Tail(s)
    PROVE  /\ IsSequence(t) /\ Len(t) = Len(s) - 1 /\ Head(s) = s[1]
           /\ \A i \in 1 .. Len(s) - 1 : t[i] = s[i + 1]
<1>1. s \in Seq(ToSet(s)) /\ Len(s) \in Nat
  BY DEF IsSequence
<1>2. t \in Seq(ToSet(s)) /\ Len(t) = Len(s) - 1 /\ Head(s) = s[1] /\ \A i \in 1 .. Len(s) - 1 : t[i] = s[i + 1]
  <2> DEFINE S == ToSet(s)
  <2> HIDE DEF S
  <2>1. s \in Seq(S)
    BY <1>1 DEF S
  <2>2. t \in Seq(S) /\ Len(t) = Len(s) - 1 /\ Head(s) = s[1]
    BY <2>1, HeadTailProperties
  <2>3. \A i \in 1 .. Len(s) - 1 : t[i] = s[i + 1]
    BY <2>1
  <2> QED BY <2>2, <2>3 DEF S
<1> QED BY <1>2, SequenceOf
-----------------------------------------------------------------------------
(***************************************************************************)
(* The invariant: what has been handled, extracted, read and sent, one     *)
(* behind the other, is what the SMSC has sent, cut between its messages.  *)
(***************************************************************************)
Frames(e, s) ==
    LET n == Len(scene.pdus)
        done == Len(outcome) + Len(messages)
    IN  /\ Stream(n, e, s) /\ \A k \in 1 .. n : e[k] \in OnWire(scene.pdus[k])
        /\ IsSequence(outcome) /\ IsSequence(messages) /\ done <= n
        /\ buffer \in Seq(Bytes) /\ wire \in Seq(Bytes) /\ (pc # "spin" => Joined(s[done], buffer, wire))
        /\ \A i \in 1 .. Len(outcome) : outcome[i].got = ToJson(e[i])
        /\ \A i \in 1 .. Len(messages) : messages[i] = ToJson(e[Len(outcome) + i])

FrameInv ==
    /\ scene \in Scenes /\ \E e, s : Frames(e, s)
    /\ pc \in {"read", "process", "http", "answer", "enquire", "spin", "ended"}
    /\ pc \in {"process", "http", "answer"} <=> messages # <<>>

LEMMA SceneIs ==
    ASSUME NEW sc \in Scenes
    PROVE  /\ Len(sc.pdus) \in Nat /\ DOMAIN sc.pdus = 1 .. Len(sc.pdus)
           /\ \A k \in 1 .. Len(sc.pdus) : IsMessage(sc.pdus[k]) /\ sc.pdus[k].extra \in Seq(Bytes)
           /\ \A k \in 1 .. Len(sc.pdus) : \A b \in OnWire(sc.pdus[k]) : FitsFlat(U32, Num(Len(b)))
<1>1. /\ Len(sc.pdus) \in 0 .. MaxPdus /\ DOMAIN sc.pdus = 1 .. Len(sc.pdus)
      /\ \A i \in DOMAIN sc.pdus :
            /\ IsMessage(sc.pdus[i]) /\ sc.pdus[i].extra \in Seq(Bytes)
            /\ \A b \in OnWire(sc.pdus[i]) : FitsFlat(U32, Num(Len(b)))
  BY InboundAssumption
<1>2. Len(sc.pdus) \in Nat
  BY <1>1
<1> QED BY <1>1, <1>2

\* A PDU that was sent can be told from the others by its length.
LEMMA SentIs ==
    ASSUME NEW sc \in Scenes, NEW k \in 1 .. Len(sc.pdus), NEW b \in OnWire(sc.pdus[k])
    PROVE  b \in Seq(Bytes) /\ Len(b) >= 16 /\ FromBigEndian(Take(b, 4)) = Len(b)
<1>1. IsMessage(sc.pdus[k]) /\ sc.pdus[k].extra \in Seq(Bytes) /\ FitsFlat(U32, Num(Len(b)))
  BY SceneIs
<1> QED BY <1>1, OnWireIs

LEMMA AtMostIs ==
    ASSUME NEW k \in Nat, NEW b \in Seq(Bytes)
    PROVE  AtMost(k, b) \in Nat /\ AtMost(k, b) <= Len(b)
<1>1. Len(b) \in Nat
  OBVIOUS
<1> QED BY <1>1 DEF AtMost

LEMMA FrameInit ==
    ASSUME Init
    PROVE  FrameInv
<1> DEFINE n == Len(scene.pdus)
           E == [i \in DOMAIN scene.pdus |-> OnWire(scene.pdus[i])]
<1>1. PICK w \in ConcatAll(E), z \in scene.with_bind :
          /\ scene \in Scenes
          /\ buffer = Take(w \o scene.tail, AtMost(z, w \o scene.tail))
          /\ wire = Drop(w \o scene.tail, AtMost(z, w \o scene.tail))
  BY DEF Init
<1>2. /\ n \in Nat /\ DOMAIN scene.pdus = 1 .. n /\ z \in Nat
      /\ scene.tail \in Seq(Bytes) /\ (scene.tail = <<>> \/ FromBigEndian(Take(scene.tail, 4)) = 0)
  BY <1>1, SceneIs, InboundAssumption
<1>3. Len(E) = n /\ \A k \in 1 .. n : E[k] = OnWire(scene.pdus[k])
  BY <1>2
<1> HIDE DEF E
<1>4. \A k \in 1 .. Len(E) : E[k] \subseteq Seq(Bytes)
  BY <1>1, <1>3, SentIs
<1>5. <<>> \in Seq(Bytes) /\ Len(E) \in Nat
  BY <1>2, <1>3
<1>6. w \in Seq(Bytes) /\ \E e, s : CutBy(E, Len(E), e, s) /\ s[0] = w \o scene.tail /\ s[Len(E)] = scene.tail
  BY <1>1, <1>2, <1>4, <1>5, Cut
<1>7. PICK e, s : CutBy(E, n, e, s) /\ s[0] = w \o scene.tail /\ s[n] = scene.tail
  BY <1>3, <1>6
<1>8. s \in [0 .. n -> Seq(Bytes)] /\ \A k \in 1 .. n : e[k] \in E[k] /\ Joined(s[k - 1], e[k], s[k])
  BY <1>7 DEF CutBy
<1>9. \A k \in 1 .. n : e[k] \in OnWire(scene.pdus[k])
  BY <1>3, <1>8
<1>10. \A k \in 1 .. n : e[k] \in Seq(Bytes) /\ Len(e[k]) >= 16 /\ FromBigEndian(Take(e[k], 4)) = Len(e[k])
  BY <1>1, <1>9, SentIs
<1>11. Stream(n, e, s)
  BY <1>2, <1>7, <1>8, <1>10 DEF Stream
<1>12. outcome = <<>> /\ messages = <<>> /\ pc = "read"
  BY DEF Init
<1>13. IsSequence(<<>>) /\ Len(<<>>) = 0
  BY <1>5, SequenceOf
<1>14. buffer \in Seq(Bytes) /\ wire \in Seq(Bytes) /\ Joined(s[0], buffer, wire)
  <2>1. PICK all \in Seq(Bytes) : all = w \o scene.tail
    BY <1>2, <1>6, CatBytes
  <2>2. PICK g : g = AtMost(z, all)
    OBVIOUS
  <2>3. g \in Nat /\ g <= Len(all)
    BY <1>2, <2>1, <2>2, AtMostIs
  <2>4. buffer = Take(all, g) /\ wire = Drop(all, g) /\ s[0] = all
    BY <1>1, <1>7, <2>1, <2>2
  <2>5. Joined(all, Take(all, g), Drop(all, g)) /\ Take(all, g) \in Seq(Bytes) /\ Drop(all, g) \in Seq(Bytes)
    BY <2>3, TakeAndDrop, DropBytes
  <2> QED BY <2>4, <2>5
<1>15. Len(outcome) = 0 /\ Len(messages) = 0 /\ Len(outcome) + Len(messages) = 0
  BY <1>12, <1>13
<1>16. Frames(e, s)
  <2>1. IsSequence(outcome) /\ IsSequence(messages) /\ Len(outcome) + Len(messages) <= n
    BY <1>2, <1>12, <1>13, <1>15
  <2>2. buffer \in Seq(Bytes) /\ wire \in Seq(Bytes) /\ Joined(s[Len(outcome) + Len(messages)], buffer, wire)
    BY <1>14, <1>15
  <2>3. \A i \in 1 .. Len(outcome) : outcome[i].got = ToJson(e[i])
    BY <1>15
  <2>4. \A i \in 1 .. Len(messages) : messages[i] = ToJson(e[Len(outcome) + i])
    BY <1>15
  <2> QED BY <1>9, <1>11, <2>1, <2>2, <2>3, <2>4 DEF Frames
<1> QED BY <1>1, <1>12, <1>16 DEF FrameInv

\* A read hands on the PDUs that are complete with it, in the order they were sent.
LEMMA FrameRead ==
    ASSUME FrameInv, NEW k \in scene.reads, ReadMessages(k)
    PROVE  FrameInv'
<1> DEFINE n == Len(scene.pdus)
           got == AtMost(k, wire)
<1>1. PICK e, s : Frames(e, s)
  BY DEF FrameInv
<1>2. /\ scene \in Scenes /\ messages = <<>> /\ pc = "read"
      /\ scene' = scene /\ outcome' = outcome
  BY DEF FrameInv, ReadMessages, historyVars
<1>3. /\ Stream(n, e, s) /\ \A i \in 1 .. n : e[i] \in OnWire(scene.pdus[i])
      /\ IsSequence(outcome) /\ Len(outcome) + Len(messages) <= n
      /\ buffer \in Seq(Bytes) /\ wire \in Seq(Bytes) /\ Joined(s[Len(outcome) + Len(messages)], buffer, wire)
      /\ \A i \in 1 .. Len(outcome) : outcome[i].got = ToJson(e[i])
  BY <1>1, <1>2 DEF Frames
<1>4. n \in Nat /\ Len(outcome) \in Nat /\ Len(messages) = 0
  BY <1>2, <1>3, SceneIs, SequenceIs
<1>5. PICK r \in 0 .. n : r = Len(outcome) + Len(messages) /\ r = Len(outcome)
  BY <1>3, <1>4
<1>6. PICK x \in ExtractAll(buffer \o Take(wire, got)) :
          /\ wire' = Drop(wire, got) /\ buffer' = x.rest
          /\ IF Spins(x.rest) THEN pc' = "spin" /\ UNCHANGED messages
             ELSE GoOn([i \in DOMAIN x.pdus |-> ToJson(x.pdus[i])])
  BY DEF ReadMessages
<1>7. got \in Nat /\ got <= Len(wire)
  <2>1. k \in Nat
    BY <1>2, InboundAssumption
  <2> QED BY <1>3, <2>1, AtMostIs
<1> HIDE DEF got
<1>8. Joined(wire, Take(wire, got), Drop(wire, got))
  BY <1>3, <1>7, TakeAndDrop
<1>9. Take(wire, got) \in Seq(Bytes) /\ Drop(wire, got) \in Seq(Bytes)
  BY <1>3, <1>7, DropBytes
<1>10. PICK t \in Seq(Bytes), wr \in Seq(Bytes) : t = Take(wire, got) /\ wr = Drop(wire, got)
  BY <1>9
<1>11. PICK buf \in Seq(Bytes) : buf = buffer \o t /\ Joined(buf, buffer, t)
  BY <1>3, JoinedIs
<1>12. Joined(s[r], buffer, wire) /\ Joined(wire, t, wr)
  BY <1>3, <1>5, <1>8, <1>10
<1>13. Joined(s[r], buf, wr)
  BY <1>3, <1>11, <1>12, JoinedAssociative
<1>14. x \in ExtractAll(buf)
  BY <1>6, <1>10, <1>11
<1>15. IF Spins(x.rest) THEN x.rest \in Seq(Bytes) ELSE Taken(n, e, s, r, wr, x)
  BY <1>3, <1>13, <1>14, ExtractAllBack
<1>16. CASE Spins(x.rest)
  <2>1. buffer' \in Seq(Bytes) /\ wire' \in Seq(Bytes) /\ messages' = messages /\ pc' = "spin"
    BY <1>6, <1>10, <1>15, <1>16
  <2>2. Frames(e, s)'
    BY <1>1, <1>2, <2>1 DEF Frames
  <2> QED BY <1>2, <2>1, <2>2 DEF FrameInv
<1>17. CASE ~Spins(x.rest)
  <2>1. PICK j \in 0 .. n - r : /\ x.rest \in Seq(Bytes) /\ Joined(s[r + j], x.rest, wr)
                                /\ x.pdus \in Seq(Seq(Bytes)) /\ Len(x.pdus) = j
                                /\ \A i \in 1 .. j : x.pdus[i] = e[r + i]
    BY <1>15, <1>17 DEF Taken
  <2>2. messages' = [i \in DOMAIN x.pdus |-> ToJson(x.pdus[i])] /\ pc' = IF messages' = <<>> THEN "read" ELSE "process"
    BY <1>6, <1>17 DEF GoOn
  <2>3. IsSequence(messages') /\ Len(messages') = j /\ \A i \in 1 .. j : messages'[i] = ToJson(e[r + i])
    <3> DEFINE S == {ToJson(x.pdus[i]) : i \in 1 .. j}
    <3>1. DOMAIN x.pdus = 1 .. j /\ j \in Nat
      BY <2>1
    <3>2. messages' = [i \in 1 .. j |-> ToJson(x.pdus[i])]
      BY <2>2, <3>1
    <3>3. \A i \in 1 .. j : ToJson(x.pdus[i]) \in S
      OBVIOUS
    <3> HIDE DEF S
    <3>5. messages' \in [1 .. j -> S]
      BY <3>2, <3>3
    <3>6. messages' \in Seq(S) /\ Len(messages') = j
      BY <3>1, <3>5
    <3>4. IsSequence(messages')
      BY <3>6, SequenceOf
    <3> QED BY <2>1, <3>2, <3>4, <3>6
  <2>4. Len(outcome') = r /\ Len(outcome') + Len(messages') = r + j /\ r + j <= n
    BY <1>2, <1>4, <1>5, <2>1, <2>3
  <2>5. Frames(e, s)'
    <3>1. Stream(Len(scene'.pdus), e, s) /\ \A i \in 1 .. Len(scene'.pdus) : e[i] \in OnWire(scene'.pdus[i])
      BY <1>2, <1>3
    <3>2. IsSequence(outcome') /\ IsSequence(messages') /\ Len(outcome') + Len(messages') <= Len(scene'.pdus)
      BY <1>2, <1>3, <2>3, <2>4
    <3>3. buffer' \in Seq(Bytes) /\ wire' \in Seq(Bytes) /\ Joined(s[Len(outcome') + Len(messages')], buffer', wire')
      BY <1>6, <1>10, <2>1, <2>4
    <3>4. \A i \in 1 .. Len(outcome') : outcome'[i].got = ToJson(e[i])
      BY <1>2, <1>3
    <3>5. \A i \in 1 .. Len(messages') : messages'[i] = ToJson(e[Len(outcome') + i])
      BY <2>3, <2>4
    <3> QED BY <3>1, <3>2, <3>3, <3>4, <3>5 DEF Frames
  <2>6. /\ pc' \in {"read", "process", "http", "answer", "enquire", "spin", "ended"}
        /\ pc' \in {"process", "http", "answer"} <=> messages' # <<>>
    BY <2>2
  <2> QED BY <1>2, <2>5, <2>6 DEF FrameInv
<1> QED BY <1>16, <1>17

\* A message that is done with moves to the history.
LEMMA FrameFinish ==
    ASSUME FrameInv, pc \in {"process", "answer"}, scene' = scene, NEW what, Finish(what)
    PROVE  FrameInv'
<1> DEFINE n == Len(scene.pdus)
<1>0. PICK y : y = [what |-> what, got |-> Cur]
  OBVIOUS
<1>1. PICK e, s : Frames(e, s)
  BY DEF FrameInv
<1>2. /\ scene \in Scenes /\ messages # <<>>
      /\ outcome' = Append(outcome, y) /\ messages' = Tail(messages) /\ pc' = IF messages' = <<>> THEN "read" ELSE "process"
      /\ buffer' = buffer /\ wire' = wire /\ y.got = Head(messages)
  BY <1>0 DEF FrameInv, Finish, GoOn, Cur
<1>3. /\ Stream(n, e, s) /\ \A i \in 1 .. n : e[i] \in OnWire(scene.pdus[i])
      /\ IsSequence(outcome) /\ IsSequence(messages) /\ Len(outcome) + Len(messages) <= n
      /\ buffer \in Seq(Bytes) /\ wire \in Seq(Bytes) /\ Joined(s[Len(outcome) + Len(messages)], buffer, wire)
      /\ \A i \in 1 .. Len(outcome) : outcome[i].got = ToJson(e[i])
      /\ \A i \in 1 .. Len(messages) : messages[i] = ToJson(e[Len(outcome) + i])
  BY <1>1, pc # "spin" DEF Frames
<1>4. Len(outcome) \in Nat /\ Len(messages) \in Nat /\ Len(messages) # 0
  BY <1>2, <1>3, SequenceIs
<1>5. /\ IsSequence(outcome') /\ Len(outcome') = Len(outcome) + 1 /\ outcome'[Len(outcome) + 1] = y
      /\ \A i \in 1 .. Len(outcome) : outcome'[i] = outcome[i]
  <2>1. Appended(outcome', outcome, y) /\ IsSequence(outcome)
    BY <1>2, <1>3 DEF Appended
  <2>2. PICK t : t = outcome'
    OBVIOUS
  <2>3. /\ IsSequence(t) /\ Len(t) = Len(outcome) + 1 /\ t[Len(outcome) + 1] = y
        /\ \A i \in 1 .. Len(outcome) : t[i] = outcome[i]
    BY <2>1, <2>2, AppendIs
  <2> QED BY <2>2, <2>3
<1>6. /\ IsSequence(messages') /\ Len(messages') = Len(messages) - 1 /\ Head(messages) = messages[1]
      /\ \A i \in 1 .. Len(messages) - 1 : messages'[i] = messages[i + 1]
  BY <1>2, <1>3, TailIs
<1>7. Len(outcome') + Len(messages') = Len(outcome) + Len(messages)
  BY <1>4, <1>5, <1>6
<1>8. \A i \in 1 .. Len(outcome') : outcome'[i].got = ToJson(e[i])
  <2>1. y.got = ToJson(e[Len(outcome) + 1])
    <3>1. 1 \in 1 .. Len(messages)
      BY <1>4
    <3>2. messages[1] = ToJson(e[Len(outcome) + 1])
      BY <1>3, <3>1
    <3> QED BY <1>2, <1>6, <3>2
  <2>2. \A i \in 1 .. Len(outcome') : i \in 1 .. Len(outcome) \/ i = Len(outcome) + 1
    BY <1>4, <1>5
  <2> QED BY <1>3, <1>5, <2>1, <2>2
<1>9. \A i \in 1 .. Len(messages') : messages'[i] = ToJson(e[Len(outcome') + i])
  <2> SUFFICES ASSUME NEW i \in 1 .. Len(messages') PROVE messages'[i] = ToJson(e[Len(outcome') + i])
    OBVIOUS
  <2>1. i \in 1 .. Len(messages) - 1 /\ i + 1 \in 1 .. Len(messages) /\ Len(outcome) + (i + 1) = Len(outcome') + i
    BY <1>4, <1>5, <1>6
  <2>2. messages'[i] = messages[i + 1] /\ messages[i + 1] = ToJson(e[Len(outcome) + (i + 1)])
    BY <1>3, <1>6, <2>1
  <2> QED BY <2>1, <2>2
<1>10. Frames(e, s)'
  <2>1. Stream(Len(scene'.pdus), e, s) /\ \A i \in 1 .. Len(scene'.pdus) : e[i] \in OnWire(scene'.pdus[i])
    BY <1>3
  <2>2. IsSequence(outcome') /\ IsSequence(messages') /\ Len(outcome') + Len(messages') <= Len(scene'.pdus)
    BY <1>3, <1>5, <1>6, <1>7
  <2>3. buffer' \in Seq(Bytes) /\ wire' \in Seq(Bytes) /\ Joined(s[Len(outcome') + Len(messages')], buffer', wire')
    BY <1>2, <1>3, <1>7
  <2> QED BY <1>8, <1>9, <2>1, <2>2, <2>3 DEF Frames
<1>11. /\ pc' \in {"read", "process", "http", "answer", "enquire", "spin", "ended"}
       /\ pc' \in {"process", "http", "answer"} <=> messages' # <<>>
  BY <1>2
<1> QED BY <1>2, <1>10, <1>11 DEF FrameInv

LEMMA FrameKept ==
    ASSUME FrameInv, scene' = scene, UNCHANGED <<wire, buffer, messages, outcome>>,
           pc' \in {"read", "process", "http", "answer", "enquire", "spin", "ended"},
           pc' \in {"process", "http", "answer"} <=> pc \in {"process", "http", "answer"}, pc = "spin" => pc' = "spin"
    PROVE  FrameInv'
<1>1. PICK e, s : Frames(e, s)
  BY DEF FrameInv
<1>2. Frames(e, s)'
  BY <1>1 DEF Frames
<1> QED BY <1>2 DEF FrameInv
-----------------------------------------------------------------------------
(***************************************************************************)
(* The message in hand is the one that was sent, as far as it steers the   *)
(* loop: its command, its sequence number, its destination.                *)
(***************************************************************************)
LEMMA GotIs ==
    ASSUME NEW sc \in Scenes, NEW k \in 1 .. Len(sc.pdus), NEW b \in OnWire(sc.pdus[k]), NEW m \in ToJson(b)
    PROVE  /\ m.command = sc.pdus[k].command /\ m.sequence = sc.pdus[k].sequence
           /\ m.command \in Deliveries =>
                 /\ m.fields["destination_addr"] = sc.pdus[k].fields["destination_addr"]
                 /\ Receipted(m) \subseteq MsgIds
<1>1. PICK p : p = sc.pdus[k]
  OBVIOUS
<1>2. IsMessage(p) /\ p.extra \in Seq(Bytes) /\ FitsFlat(U32, Num(Len(b))) /\ b \in OnWire(p)
  BY <1>1, SceneIs
<1>3. PICK l, q : Framed(p, l, q, b) /\ Body(p, p.extra, q)
  BY <1>2, OnWireIs
<1>4. ToJson(b) = {[command |-> p.command, status |-> p.status, sequence |-> p.sequence, fields |-> x.value] :
                      x \in DecodeBody(p.command, q)}
  BY <1>2, <1>3, ToJsonBack
<1>5. PICK x \in DecodeBody(p.command, q) :
          m = [command |-> p.command, status |-> p.status, sequence |-> p.sequence, fields |-> x.value]
  BY <1>4
<1>6. m.command = p.command /\ m.sequence = p.sequence /\ m.fields = x.value
  BY <1>5
<1>7. ASSUME m.command \in Deliveries PROVE m.fields["destination_addr"] = p.fields["destination_addr"]
  <2>1. \A f \in ToSet(AddressFields) \cap DOMAIN p.fields : Fits(FieldCodec(f), p.fields[f])
    <3>1. k \in DOMAIN sc.pdus
      BY SceneIs
    <3> QED BY <1>1, <1>6, <1>7, <3>1, InboundAssumption
  <2>2. PICK F \in EncodeFields(p), T \in EncodeTlvs(p), t \in Seq(Bytes) : Joined(q, F, t) /\ Joined(t, T, p.extra)
    BY <1>3 DEF Body
  <2>3. PICK e, s : FieldsCut(p, e, s) /\ s[0] = q
    BY <1>2, <2>2, BodyCut
  <2>4. x \in DecodeBody(p.command, s[0])
    BY <2>3
  <2>5. Has(x.value, "destination_addr", p.fields["destination_addr"])
    BY <1>2, <1>6, <1>7, <2>1, <2>3, <2>4, DestinationKept
  <2> QED BY <1>6, <2>5 DEF Has
<1>8. ASSUME m.command \in Deliveries PROVE Receipted(m) \subseteq MsgIds
  <2>1. k \in DOMAIN sc.pdus
    BY SceneIs
  <2> QED BY <1>8, <2>1, InboundAssumption
<1> QED BY <1>1, <1>6, <1>7, <1>8

Sent == scene.pdus[Pos]

LEMMA CurrentIs ==
    ASSUME FrameInv, messages # <<>>
    PROVE  /\ Len(outcome) \in Nat /\ Pos = Len(outcome) + 1 /\ Pos \in 1 .. Len(scene.pdus)
           /\ IsMessage(Sent)
           /\ \A m \in Cur :
                 /\ m.command = Sent.command /\ m.sequence = Sent.sequence
                 /\ m.command \in Deliveries =>
                       HandlersFor(m) = HandlersFor(Sent) /\ Receipted(m) \subseteq MsgIds
<1>1. PICK e, s : Frames(e, s)
  BY DEF FrameInv
<1>2. scene \in Scenes
  BY DEF FrameInv
<1>3. /\ \A i \in 1 .. Len(scene.pdus) : e[i] \in OnWire(scene.pdus[i])
      /\ IsSequence(outcome) /\ IsSequence(messages) /\ Len(outcome) + Len(messages) <= Len(scene.pdus)
      /\ \A i \in 1 .. Len(messages) : messages[i] = ToJson(e[Len(outcome) + i])
  BY <1>1 DEF Frames
<1>4. Len(outcome) \in Nat /\ Len(messages) \in Nat /\ Len(messages) # 0 /\ Len(scene.pdus) \in Nat
  BY <1>2, <1>3, SequenceIs, SceneIs
<1>5. Pos \in 1 .. Len(scene.pdus) /\ Pos = Len(outcome) + 1 /\ 1 \in 1 .. Len(messages)
  BY <1>3, <1>4 DEF Pos
<1>6. Cur = ToJson(e[Pos])
  <2>1. Cur = messages[1]
    BY <1>3, TailIs DEF Cur
  <2> QED BY <1>3, <1>5, <2>1
<1>7. IsMessage(Sent)
  BY <1>2, <1>5, SceneIs DEF Sent
<1>8. ASSUME NEW m \in Cur
      PROVE  /\ m.command = Sent.command /\ m.sequence = Sent.sequence
             /\ m.command \in Deliveries =>
                   HandlersFor(m) = HandlersFor(Sent) /\ Receipted(m) \subseteq MsgIds
  <2>0. PICK k \in 1 .. Len(scene.pdus) : k = Pos
    BY <1>5
  <2>1. PICK b \in OnWire(scene.pdus[k]) : m \in ToJson(b)
    BY <1>3, <1>6, <2>0
  <2>2. /\ m.command = scene.pdus[k].command /\ m.sequence = scene.pdus[k].sequence
        /\ m.command \in Deliveries =>
              /\ m.fields["destination_addr"] = scene.pdus[k].fields["destination_addr"]
              /\ Receipted(m) \subseteq MsgIds
    BY <1>2, <2>1, GotIs
  <2>3. scene.pdus[k] = Sent
    BY <2>0 DEF Sent
  <2>4. m.fields["destination_addr"] = Sent.fields["destination_addr"] => HandlersFor(m) = HandlersFor(Sent)
    BY DEF HandlersFor
  <2> QED BY <2>2, <2>3, <2>4
<1> QED BY <1>4, <1>5, <1>7, <1>8
-----------------------------------------------------------------------------
(***************************************************************************)
(* What is known of the message in hand and of the messages done with.     *)
(***************************************************************************)

Asked(i) == {x \in ToSet(accepted) : x.pos = i}

\* The status st is true of the message at position i: a server of the first handler for its
\* destination has named it, or it is a failure and none has answered in JSON.
StatusOk(i, st) ==
    \/ \E x \in Asked(i) : x.handler \in HandlersFor(scene.pdus[i]) /\ \E reply \in x.says : st = StatusOf(reply)
    \/ st = SysErr /\ \A x \in Asked(i) : x.says = {}

\* The answer is the response to the message, and true.
Answered(a) ==
    \E r \in ToJson(a.pdu) :
        /\ r.command = ResponseOf(scene.pdus[a.pos].command) /\ r.sequence = scene.pdus[a.pos].sequence
        /\ scene.pdus[a.pos].command \in Deliveries => \E st : r.status = Num(st) /\ StatusOk(a.pos, st)

HandInv ==
    /\ status \in Statuses \cup {0, SysErr} /\ next_index \in [DOMAIN scene.handlers -> Nat]
    /\ pc = "http" => /\ Sent.command \in Deliveries /\ handler \in HandlersFor(Sent)
                      /\ tries \in Nat /\ tries < scene.handlers[handler].urls
    /\ pc = "answer" => /\ Sent.command \in Deliveries \cup {EnquireLink}
                        /\ Sent.command \in Deliveries => StatusOk(Pos, status)

\* Only the last of the servers that took a message has answered in JSON.
LastSays == \A i, j \in DOMAIN accepted : i < j /\ accepted[i].pos = accepted[j].pos => accepted[i].says = {}

HistoryInv ==
    /\ IsSequence(accepted) /\ IsSequence(answers) /\ posting \subseteq DOMAIN outcome
    /\ \A x \in ToSet(accepted) : x.pos \in 1 .. Pos /\ (x.pos = Pos /\ pc # "answer" => x.says = {})
    /\ LastSays
    /\ \A a \in ToSet(answers) : a.pos \in 1 .. Len(outcome) /\ Answered(a)
    /\ \A a, b \in ToSet(answers) : a.pos = b.pos => a = b

Flags == open \in BOOLEAN /\ stalled \in BOOLEAN /\ received \in BOOLEAN

Inv == FrameInv /\ HandInv /\ HistoryInv /\ ReceiptInv /\ Flags

\* What a server answers for one message tells nothing of another.
LEMMA StatusKept ==
    ASSUME scene' = scene, NEW i, Asked(i)' = Asked(i)
    PROVE  \A st : StatusOk(i, st) => StatusOk(i, st)'
<1>1. \A m : HandlersFor(m)' = HandlersFor(m)
  BY DEF HandlersFor
<1> QED BY <1>1 DEF StatusOk

LEMMA AnsweredKept ==
    ASSUME scene' = scene, NEW a, Asked(a.pos)' = Asked(a.pos), Answered(a)
    PROVE  Answered(a)'
<1>1. \A st : StatusOk(a.pos, st) => StatusOk(a.pos, st)'
  BY StatusKept
<1> QED BY <1>1 DEF Answered

LEMMA AllAnsweredKept ==
    ASSUME scene' = scene, UNCHANGED accepted
    PROVE  \A a : Answered(a) => Answered(a)'
<1> SUFFICES ASSUME NEW a, Answered(a) PROVE Answered(a)'
  OBVIOUS
<1>1. Asked(a.pos)' = Asked(a.pos)
  BY DEF Asked
<1> QED BY <1>1, AnsweredKept

LEMMA OutcomeIs ==
    ASSUME FrameInv
    PROVE  IsSequence(outcome) /\ Len(outcome) \in Nat /\ DOMAIN outcome = 1 .. Len(outcome)
<1>1. IsSequence(outcome)
  BY DEF FrameInv, Frames
<1> QED BY <1>1, SequenceIs

\* A step that adds to no history keeps what is known of it.
LEMMA HistoryKept ==
    ASSUME HistoryInv, scene' = scene, UNCHANGED <<accepted, answers, outcome>>, posting' \subseteq posting,
           pc = "answer" => pc' = "answer"
    PROVE  HistoryInv'
<1>1. Pos' = Pos
  BY DEF Pos
<1>2. \A a : Answered(a) => Answered(a)'
  BY AllAnsweredKept
<1>3. LastSays' = LastSays
  BY DEF LastSays
<1> QED BY <1>1, <1>2, <1>3 DEF HistoryInv

LEMMA FinishIs ==
    ASSUME FrameInv, NEW what, Finish(what)
    PROVE  /\ Len(outcome') = Len(outcome) + 1 /\ DOMAIN outcome' = 1 .. Len(outcome) + 1 /\ Pos' = Pos + 1
           /\ Len(outcome) \in Nat /\ Pos = Len(outcome) + 1 /\ pc' \in {"read", "process"}
<1>1. IsSequence(outcome) /\ Len(outcome) \in Nat
  BY OutcomeIs
<1>2. PICK y : y = [what |-> what, got |-> Cur]
  OBVIOUS
<1>3. Appended(outcome', outcome, y)
  BY <1>2 DEF Finish, Appended
<1>4. PICK t : t = outcome'
  OBVIOUS
<1>5. Len(t) = Len(outcome) + 1 /\ DOMAIN t = 1 .. Len(outcome) + 1
  BY <1>1, <1>3, <1>4, AppendIs
<1>6. pc' \in {"read", "process"}
  BY DEF Finish, GoOn
<1> QED BY <1>1, <1>4, <1>5, <1>6 DEF Pos

LEMMA HistoryFinish ==
    ASSUME FrameInv, HistoryInv, scene' = scene, UNCHANGED <<accepted, answers>>, posting' \subseteq posting \cup {Pos},
           NEW what, Finish(what)
    PROVE  HistoryInv'
<1>1. /\ Len(outcome') = Len(outcome) + 1 /\ DOMAIN outcome' = 1 .. Len(outcome) + 1 /\ Pos' = Pos + 1
      /\ Len(outcome) \in Nat /\ Pos = Len(outcome) + 1 /\ DOMAIN outcome = 1 .. Len(outcome)
  BY FinishIs, OutcomeIs
<1>2. (\A a : Answered(a) => Answered(a)') /\ LastSays' = LastSays
  BY AllAnsweredKept DEF LastSays
<1>3. posting' \subseteq DOMAIN outcome'
  <2>1. posting \subseteq DOMAIN outcome
    BY DEF HistoryInv
  <2> QED BY <1>1, <2>1
<1>4. \A x \in ToSet(accepted') : x.pos \in 1 .. Pos' /\ (x.pos = Pos' /\ pc' # "answer" => x.says = {})
  <2>1. \A x \in ToSet(accepted') : x.pos \in 1 .. Pos
    BY DEF HistoryInv
  <2>2. \A i \in 1 .. Pos : i \in 1 .. Pos' /\ i # Pos'
    BY <1>1
  <2> QED BY <2>1, <2>2
<1>5. \A a \in ToSet(answers') : a.pos \in 1 .. Len(outcome') /\ Answered(a)'
  <2>1. \A a \in ToSet(answers') : a.pos \in 1 .. Len(outcome) /\ Answered(a)
    BY DEF HistoryInv
  <2>2. \A i \in 1 .. Len(outcome) : i \in 1 .. Len(outcome')
    BY <1>1
  <2> QED BY <1>2, <2>1, <2>2
<1> QED BY <1>2, <1>3, <1>4, <1>5 DEF HistoryInv

\* Between two messages, nothing is known of the one in hand.
LEMMA HandLeft ==
    ASSUME HandInv, scene' = scene, UNCHANGED <<status, next_index>>, pc' \notin {"http", "answer"}
    PROVE  HandInv'
BY DEF HandInv

LEMMA HandKept ==
    ASSUME HandInv, scene' = scene, UNCHANGED <<status, httpVars, pc, accepted, outcome>>
    PROVE  HandInv'
<1>1. Pos' = Pos /\ Sent' = Sent
  BY DEF Pos, Sent
<1>2. HandlersFor(Sent)' = HandlersFor(Sent)
  BY <1>1 DEF HandlersFor
<1>3. StatusOk(Pos, status) => StatusOk(Pos, status)'
  BY <1>1 DEF StatusOk, Asked, HandlersFor
<1> QED BY <1>1, <1>2, <1>3 DEF HandInv, httpVars

LEMMA ReceiptKept ==
    ASSUME ReceiptInv, UNCHANGED receiptVars
    PROVE  ReceiptInv'
BY DEF ReceiptInv, receiptVars, ReceiptTypeOK, OwedWasWanted, CleanTimeIsPast, OwedIsRegistered

LEMMA InvInit ==
    ASSUME Init
    PROVE  Inv
<1>1. FrameInv /\ ReceiptInv
  BY FrameInit, ReceiptInitInv DEF Init
<1>2. /\ open = TRUE /\ stalled = FALSE /\ received = FALSE /\ pc = "read" /\ status = 0 /\ next_index = [h \in DOMAIN scene.handlers |-> 0]
      /\ posting = {} /\ answers = <<>> /\ accepted = <<>>
  BY DEF Init
<1>3. HandInv
  BY <1>2 DEF HandInv
<1>4. <<>> \in Seq(Bytes) /\ ToSet(<<>>) = {}
  BY DEF ToSet
<1>5. IsSequence(<<>>)
  BY <1>4, SequenceOf
<1>6. HistoryInv
  BY <1>2, <1>4, <1>5 DEF HistoryInv, LastSays
<1> QED BY <1>1, <1>2, <1>3, <1>6 DEF Inv, Flags

LEMMA ReadInv ==
    ASSUME Inv, NEW k \in scene.reads, ReadMessages(k)
    PROVE  Inv'
<1>1. FrameInv'
  BY FrameRead DEF Inv
<1>2. /\ scene' = scene /\ UNCHANGED <<open, stalled, status, httpVars, posting, historyVars, receiptVars>> /\ pc = "read"
      /\ pc' \in {"read", "process", "spin"} /\ received' \in {received, TRUE}
  BY DEF ReadMessages, GoOn
<1>3. HandInv'
  BY <1>2, HandLeft DEF Inv, httpVars
<1>4. HistoryInv'
  BY <1>2, HistoryKept DEF Inv, historyVars
<1>5. ReceiptInv' /\ Flags'
  BY <1>2, ReceiptKept DEF Inv, Flags
<1> QED BY <1>1, <1>3, <1>4, <1>5 DEF Inv

\* A step of the timers, of the SMSC, or of a task that posts a receipt.
QuietStep ==
    SmscCloses \/ SmscStalls \/ ReadEof \/ InactiveTick \/ SendEnquireLink \/ \E k \in posting : PostEnds(k)

LEMMA QuietInv ==
    ASSUME Inv, QuietStep
    PROVE  Inv'
<1>1. /\ scene' = scene /\ UNCHANGED <<wire, buffer, messages, status, httpVars, historyVars, receiptVars>>
      /\ posting' \subseteq posting /\ Flags'
      /\ pc' = pc \/ (pc \in {"read", "enquire"} /\ pc' \in {"enquire", "ended"})
  <2>1. Flags
    BY DEF Inv
  <2>2. CASE SmscCloses \/ SmscStalls
    BY <2>1, <2>2 DEF SmscCloses, SmscStalls, Flags
  <2>3. CASE ReadEof
    BY <2>1, <2>3 DEF ReadEof, readVars, Flags
  <2>4. CASE InactiveTick
    BY <2>1, <2>4 DEF InactiveTick, Flags
  <2>5. CASE SendEnquireLink
    BY <2>1, <2>5 DEF SendEnquireLink, readVars, Flags
  <2>6. CASE \E k \in posting : PostEnds(k)
    BY <2>1, <2>6 DEF PostEnds, readVars, Flags
  <2> QED BY <2>2, <2>3, <2>4, <2>5, <2>6 DEF QuietStep
<1>2. UNCHANGED <<accepted, answers, outcome>>
  BY <1>1 DEF historyVars
<1>3. FrameInv'
  <2>1. pc \in {"read", "process", "http", "answer", "enquire", "spin", "ended"} /\ FrameInv
    BY DEF Inv, FrameInv
  <2> QED BY <1>1, <1>2, <2>1, FrameKept
<1>4. HandInv'
  BY <1>1, <1>2, HandKept, HandLeft DEF Inv, httpVars
<1>5. HistoryInv'
  BY <1>1, <1>2, HistoryKept DEF Inv
<1>6. ReceiptInv'
  BY <1>1, ReceiptKept DEF Inv
<1> QED BY <1>1, <1>3, <1>4, <1>5, <1>6 DEF Inv

\* A message that is not handed to a server: it is dropped, passed on or ignored.
LEMMA DropInv ==
    ASSUME Inv, ProcessBad \/ ProcessOther
    PROVE  Inv'
<1>1. PICK what : Finish(what)
  BY DEF ProcessBad, ProcessOther
<1>2. pc = "process" /\ scene' = scene /\ UNCHANGED <<status, httpVars, posting, answers, accepted, receiptVars>>
  BY DEF ProcessBad, ProcessOther
<1>3. FrameInv'
  BY <1>1, <1>2, FrameFinish DEF Inv
<1>4. HandInv'
  <2>1. pc' \in {"read", "process"}
    BY <1>1, FinishIs DEF Inv
  <2> QED BY <1>2, <2>1, HandLeft DEF Inv, httpVars
<1>5. HistoryInv'
  BY <1>1, <1>2, HistoryFinish DEF Inv
<1>6. ReceiptInv' /\ Flags'
  BY <1>1, <1>2, ReceiptKept DEF Inv, Finish, Flags
<1> QED BY <1>3, <1>4, <1>5, <1>6 DEF Inv

LEMMA EnquireInv ==
    ASSUME Inv, ProcessEnquireLink
    PROVE  Inv'
<1>1. /\ pc = "process" /\ pc' = "answer" /\ status' = 0
      /\ scene' = scene /\ UNCHANGED <<readVars, httpVars, posting, historyVars, receiptVars>>
  BY DEF ProcessEnquireLink
<1>2. PICK m \in Cur : m.command = EnquireLink
  BY DEF ProcessEnquireLink
<1>3. UNCHANGED <<wire, open, stalled, received, buffer, messages, accepted, answers, outcome>>
  BY <1>1 DEF readVars, historyVars
<1>4. FrameInv'
  BY <1>1, <1>3, FrameKept DEF Inv
<1>5. HandInv'
  <2>1. Sent.command = EnquireLink
    <3>1. messages # <<>> /\ FrameInv
      BY <1>1 DEF Inv, FrameInv
    <3> QED BY <1>2, <3>1, CurrentIs
  <2>2. Sent'.command = EnquireLink
    BY <1>1, <1>3, <2>1 DEF Sent, Pos
  <2>3. EnquireLink \notin Deliveries
    BY DEF EnquireLink, Deliveries
  <2> QED BY <1>1, <2>2, <2>3 DEF HandInv, Inv, httpVars
<1>6. HistoryInv'
  BY <1>1, <1>3, HistoryKept DEF Inv
<1>7. ReceiptInv' /\ Flags'
  BY <1>1, <1>3, ReceiptKept DEF Inv, Flags
<1> QED BY <1>4, <1>5, <1>6, <1>7 DEF Inv

\* The handler that is chosen is the first for the destination, and has a URL to ask.
LEMMA ToHandlerInv ==
    ASSUME Inv, pc = "process", scene' = scene, UNCHANGED <<answers, accepted>>, ReceiptInv',
           NEW m \in Cur, m.command \in Deliveries, ToHandler(m)
    PROVE  Inv'
<1>1. UNCHANGED <<wire, buffer, messages, outcome, posting>> /\ Flags'
  BY DEF ToHandler, readVars, Inv, Flags
<1>2. messages # <<>> /\ FrameInv
  BY DEF Inv, FrameInv
<1>3. Sent.command \in Deliveries /\ HandlersFor(m) = HandlersFor(Sent) /\ m.command = Sent.command
  BY <1>2, CurrentIs
<1>4. Sent' = Sent /\ Pos' = Pos /\ HandlersFor(Sent)' = HandlersFor(Sent)
  BY <1>1 DEF Sent, Pos, HandlersFor
<1>5. PICK hs : hs = {h \in HandlersFor(m) : scene.handlers[h].urls > 0}
  OBVIOUS
<1>6. CASE hs = {}
  <2>1. pc' = "answer" /\ status' = SysErr /\ UNCHANGED httpVars
    BY <1>5, <1>6 DEF ToHandler
  <2>2. status' \in Statuses \cup {0, SysErr} /\ StatusOk(Pos, status)'
    <3>1. \A x \in Asked(Pos)' : x.says = {}
      BY <1>4 DEF Inv, HistoryInv, Asked
    <3> QED BY <2>1, <3>1 DEF StatusOk
  <2>3. HandInv'
    BY <1>3, <1>4, <2>1, <2>2 DEF HandInv, Inv, httpVars
  <2>4. FrameInv'
    BY <1>1, <1>2, <2>1, FrameKept
  <2>5. HistoryInv'
    BY <1>1, <2>1, HistoryKept DEF Inv
  <2> QED BY <1>1, <2>3, <2>4, <2>5 DEF Inv
<1>7. CASE hs # {}
  <2>1. /\ pc' = "http" /\ handler' \in hs /\ tries' = 0 /\ status' = status
        /\ next_index' = IF scene.handlers[handler'].round_robin
                         THEN [next_index EXCEPT ![handler'] = @ + 1] ELSE next_index
    BY <1>5, <1>7 DEF ToHandler
  <2>2. handler' \in HandlersFor(Sent) /\ handler' \in DOMAIN scene.handlers /\ scene.handlers[handler'].urls > 0
    BY <1>3, <1>5, <2>1 DEF HandlersFor
  <2>3. next_index' \in [DOMAIN scene.handlers -> Nat]
    <3>1. next_index \in [DOMAIN scene.handlers -> Nat]
      BY DEF Inv, HandInv
    <3>2. next_index[handler'] + 1 \in Nat
      BY <2>2, <3>1
    <3> QED BY <2>1, <2>2, <3>1, <3>2
  <2>4. 0 < scene.handlers[handler'].urls
    <3>1. scene.handlers \in Seq([dests : SUBSET Seq(Bytes), urls : Nat, round_robin : BOOLEAN])
      BY <1>2, InboundAssumption DEF FrameInv
    <3>2. PICK H : H = [dests : SUBSET Seq(Bytes), urls : Nat, round_robin : BOOLEAN]
      OBVIOUS
    <3>3. scene.handlers \in Seq(H)
      BY <3>1, <3>2
    <3>4. PICK x : x = scene.handlers[handler'] /\ x \in H
      BY <2>2, <3>3
    <3>5. x.urls \in Nat
      BY <3>2, <3>4
    <3> QED BY <2>2, <3>4, <3>5
  <2>5. HandInv'
    <3>1. status' \in Statuses \cup {0, SysErr}
      BY <2>1 DEF Inv, HandInv
    <3>2. tries' \in Nat /\ tries' < scene'.handlers[handler'].urls
      BY <2>1, <2>4
    <3> QED BY <1>3, <1>4, <2>1, <2>2, <2>3, <3>1, <3>2 DEF HandInv
  <2>6. FrameInv'
    BY <1>1, <1>2, <2>1, FrameKept
  <2>7. HistoryInv'
    BY <1>1, <2>1, HistoryKept DEF Inv
  <2> QED BY <1>1, <2>5, <2>6, <2>7 DEF Inv
<1> QED BY <1>6, <1>7

LEMMA HandleInv ==
    ASSUME Inv, HandleDeliverSm
    PROVE  Inv'
<1>1. pc = "process" /\ scene' = scene /\ UNCHANGED <<answers, accepted>>
  BY DEF HandleDeliverSm
<1>2. PICK m \in Cur :
          /\ m.command \in Deliveries
          /\ \/ Receipted(m) = {} /\ ToHandler(m) /\ UNCHANGED receiptVars
             \/ \E i \in Receipted(m) :
                   /\ GetReceiptUrl(i, EsmClassOf(m))
                   /\ IF HasUrl(i) THEN /\ posting' = posting \cup {Pos} /\ Finish("posted")
                                        /\ UNCHANGED <<status, httpVars>>
                      ELSE ToHandler(m)
  BY DEF HandleDeliverSm
<1>3. CASE ToHandler(m) /\ UNCHANGED receiptVars
  <2>1. ReceiptInv'
    BY <1>3, ReceiptKept DEF Inv
  <2> QED BY <1>1, <1>2, <1>3, <2>1, ToHandlerInv
<1>4. ASSUME NEW i \in Receipted(m), GetReceiptUrl(i, EsmClassOf(m)),
             IF HasUrl(i) THEN posting' = posting \cup {Pos} /\ Finish("posted") /\ UNCHANGED <<status, httpVars>>
             ELSE ToHandler(m)
      PROVE  Inv'
  <2>1. ReceiptInv'
    <3>1. messages # <<>> /\ FrameInv /\ ReceiptInv
      BY <1>1 DEF Inv, FrameInv
    <3>2. i \in MsgIds
      BY <1>2, <1>4, <3>1, CurrentIs
    <3>3. PICK byte : byte = EsmClassOf(m)
      OBVIOUS
    <3> QED BY <1>4, <3>1, <3>2, <3>3, GetReceiptUrlInv
  <2>2. CASE ToHandler(m)
    BY <1>1, <1>2, <2>1, <2>2, ToHandlerInv
  <2>3. CASE posting' = posting \cup {Pos} /\ Finish("posted") /\ UNCHANGED <<status, httpVars>>
    <3>1. FrameInv'
      BY <1>1, <2>3, FrameFinish DEF Inv
    <3>2. HandInv'
      <4>1. pc' \in {"read", "process"}
        BY <2>3, FinishIs DEF Inv
      <4> QED BY <1>1, <2>3, <4>1, HandLeft DEF Inv, httpVars
    <3>3. HistoryInv'
      BY <1>1, <2>3, HistoryFinish DEF Inv
    <3>4. Flags'
      BY <2>3 DEF Inv, Finish, Flags
    <3> QED BY <2>1, <3>1, <3>2, <3>3, <3>4 DEF Inv
  <2> QED BY <1>4, <2>2, <2>3
<1> QED BY <1>2, <1>3, <1>4

\* The server that takes a message is the last entry of accepted.
LEMMA AcceptsIs ==
    ASSUME Inv, pc = "http", scene' = scene, UNCHANGED outcome, NEW says, Accepts(says)
    PROVE  /\ IsSequence(accepted') /\ LastSays'
           /\ \A x \in ToSet(accepted') : x.pos \in 1 .. Pos'
           /\ \A x \in Asked(Pos)' : x.says \in {{}, says}
           /\ \E x \in Asked(Pos)' : x.says = says /\ x.handler = handler
           /\ \A a \in ToSet(answers) : Answered(a)'
<1>1. PICK y : y = [pos |-> Pos, handler |-> handler, url |-> Url, says |-> says]
  OBVIOUS
<1>2. Appended(accepted', accepted, y) /\ y.pos = Pos /\ y.handler = handler /\ y.says = says
  BY <1>1 DEF Accepts, Appended
<1>3. /\ IsSequence(accepted') /\ ToSet(accepted') = ToSet(accepted) \cup {y}
      /\ DOMAIN accepted' = 1 .. Len(accepted) + 1 /\ accepted'[Len(accepted) + 1] = y
      /\ \A i \in 1 .. Len(accepted) : accepted'[i] = accepted[i]
  <2>1. PICK t : t = accepted'
    OBVIOUS
  <2>2. IsSequence(accepted) /\ Appended(t, accepted, y)
    BY <1>2, <2>1 DEF Inv, HistoryInv
  <2> QED BY <2>1, <2>2, AppendIs
<1>4. /\ \A x \in ToSet(accepted) : x.pos \in 1 .. Pos /\ (x.pos = Pos => x.says = {})
      /\ LastSays /\ IsSequence(accepted) /\ \A a \in ToSet(answers) : a.pos \in 1 .. Len(outcome) /\ Answered(a)
  BY DEF Inv, HistoryInv
<1>5. Len(accepted) \in Nat /\ DOMAIN accepted = 1 .. Len(accepted) /\ \A i \in 1 .. Len(accepted) : accepted[i] \in ToSet(accepted)
  BY <1>4, SequenceIs
<1>6. Pos' = Pos /\ Len(outcome) \in Nat /\ Pos = Len(outcome) + 1
  BY OutcomeIs DEF Inv, Pos
<1>7. LastSays'
  <2> SUFFICES ASSUME NEW i \in DOMAIN accepted', NEW j \in DOMAIN accepted', i < j, accepted'[i].pos = accepted'[j].pos
               PROVE  accepted'[i].says = {}
    BY DEF LastSays
  <2>1. i \in 1 .. Len(accepted) /\ (j \in 1 .. Len(accepted) \/ j = Len(accepted) + 1)
    BY <1>3, <1>5
  <2>2. CASE j \in 1 .. Len(accepted)
    BY <1>3, <1>4, <1>5, <2>1, <2>2 DEF LastSays
  <2>3. CASE j = Len(accepted) + 1
    BY <1>2, <1>3, <1>4, <1>5, <2>1, <2>3
  <2> QED BY <2>1, <2>2, <2>3
<1>8. \A x \in ToSet(accepted') : x.pos \in 1 .. Pos'
  <2>1. Pos \in 1 .. Pos
    BY <1>6
  <2> QED BY <1>2, <1>3, <1>4, <1>6, <2>1
<1>9. \A x \in Asked(Pos)' : x.says \in {{}, says}
  BY <1>2, <1>3, <1>4, <1>6 DEF Asked
<1>10. y \in Asked(Pos)'
  BY <1>2, <1>3, <1>6 DEF Asked
<1>11. ASSUME NEW a \in ToSet(answers) PROVE Answered(a)'
  <2>1. a.pos # Pos
    BY <1>4, <1>6
  <2>2. Asked(a.pos)' = Asked(a.pos)
    BY <1>2, <1>3, <2>1 DEF Asked
  <2> QED BY <1>4, <2>2, AnsweredKept
<1> QED BY <1>2, <1>3, <1>7, <1>8, <1>9, <1>10, <1>11

\* The URLs are tried one after the other; the last failure is answered as such.
LEMMA NextUrlInv ==
    ASSUME Inv, pc = "http", scene' = scene, NextUrl, UNCHANGED <<readVars, outcome, handler, next_index>>,
           \A x \in Asked(Pos)' : x.says = {}
    PROVE  FrameInv' /\ HandInv' /\ pc' \in {"http", "answer"}
<1>1. /\ tries' = tries + 1
      /\ IF tries' < scene.handlers[handler].urls THEN UNCHANGED <<pc, status>>
         ELSE pc' = "answer" /\ status' = SysErr
  BY DEF NextUrl
<1>2. UNCHANGED <<wire, buffer, messages, outcome>>
  BY DEF readVars
<1>3. FrameInv' /\ pc' \in {"http", "answer"}
  BY <1>1, <1>2, FrameKept DEF Inv
<1>4. HandInv'
  <2>1. Sent' = Sent /\ Pos' = Pos /\ HandlersFor(Sent)' = HandlersFor(Sent)
    BY <1>2 DEF Sent, Pos, HandlersFor
  <2>2. /\ Sent.command \in Deliveries /\ handler \in HandlersFor(Sent) /\ tries \in Nat
        /\ status \in Statuses \cup {0, SysErr} /\ next_index \in [DOMAIN scene.handlers -> Nat]
    BY DEF Inv, HandInv
  <2>3. tries' \in Nat
    BY <1>1, <2>2
  <2>4. CASE tries' < scene.handlers[handler].urls
    BY <1>1, <2>1, <2>2, <2>3, <2>4 DEF HandInv
  <2>5. CASE ~(tries' < scene.handlers[handler].urls)
    <3>1. status' \in Statuses \cup {0, SysErr} /\ StatusOk(Pos, status)'
      BY <1>1, <2>5 DEF StatusOk
    <3> QED BY <1>1, <2>1, <2>2, <2>5, <3>1 DEF HandInv
  <2> QED BY <2>4, <2>5
<1> QED BY <1>3, <1>4

LEMMA HttpFailsInv ==
    ASSUME Inv, HttpFails
    PROVE  Inv'
<1>1. /\ pc = "http" /\ scene' = scene /\ NextUrl
      /\ UNCHANGED <<readVars, handler, next_index, posting, historyVars, receiptVars>>
  BY DEF HttpFails
<1>2. UNCHANGED <<accepted, answers, outcome>>
  BY <1>1 DEF historyVars
<1>3. \A x \in Asked(Pos)' : x.says = {}
  BY <1>1, <1>2 DEF Inv, HistoryInv, Asked, Pos
<1>4. FrameInv' /\ HandInv'
  BY <1>1, <1>2, <1>3, NextUrlInv
<1>5. HistoryInv'
  BY <1>1, <1>2, HistoryKept DEF Inv
<1>6. ReceiptInv' /\ Flags'
  BY <1>1, ReceiptKept DEF Inv, Flags, readVars
<1> QED BY <1>4, <1>5, <1>6 DEF Inv

\* A server takes the message without JSON: nothing is known, and the next one is asked.
LEMMA HttpAnswersNoJsonInv ==
    ASSUME Inv, HttpAnswersNoJson
    PROVE  Inv'
<1>1. /\ pc = "http" /\ scene' = scene /\ Accepts({}) /\ NextUrl
      /\ UNCHANGED <<readVars, handler, next_index, posting, answers, outcome, receiptVars>>
  BY DEF HttpAnswersNoJson
<1>2. /\ IsSequence(accepted') /\ LastSays'
      /\ \A x \in ToSet(accepted') : x.pos \in 1 .. Pos'
      /\ \A x \in Asked(Pos)' : x.says = {}
      /\ \A a \in ToSet(answers) : Answered(a)'
  BY <1>1, AcceptsIs
<1>3. FrameInv' /\ HandInv'
  BY <1>1, <1>2, NextUrlInv
<1>4. HistoryInv'
  <2>1. /\ \A a \in ToSet(answers) : a.pos \in 1 .. Len(outcome)
        /\ \A a, b \in ToSet(answers) : a.pos = b.pos => a = b
        /\ IsSequence(answers) /\ posting \subseteq DOMAIN outcome
    BY DEF Inv, HistoryInv
  <2>2. \A x \in ToSet(accepted') : x.pos = Pos' => x.says = {}
    BY <1>2 DEF Asked
  <2> QED BY <1>1, <1>2, <2>1, <2>2 DEF HistoryInv
<1>5. ReceiptInv' /\ Flags'
  BY <1>1, ReceiptKept DEF Inv, Flags, readVars
<1> QED BY <1>3, <1>4, <1>5 DEF Inv

\* A server takes the message and says so: the loop goes on to answer, so no other is asked.
LEMMA HttpAnswersInv ==
    ASSUME Inv, HttpAnswers
    PROVE  Inv'
<1>1. PICK reply \in Replies : Accepts({reply}) /\ status' = StatusOf(reply)
  BY DEF HttpAnswers
<1>2. /\ pc = "http" /\ pc' = "answer" /\ scene' = scene
      /\ UNCHANGED <<readVars, httpVars, posting, answers, outcome, receiptVars>>
  BY DEF HttpAnswers
<1>3. /\ IsSequence(accepted') /\ LastSays'
      /\ \A x \in ToSet(accepted') : x.pos \in 1 .. Pos'
      /\ \E x \in Asked(Pos)' : x.says = {reply} /\ x.handler = handler
      /\ \A a \in ToSet(answers) : Answered(a)'
  BY <1>1, <1>2, AcceptsIs
<1>4. UNCHANGED <<wire, buffer, messages>>
  BY <1>2 DEF readVars
<1>5. FrameInv'
  BY <1>2, <1>4, FrameKept DEF Inv
<1>6. HandInv'
  <2>1. Sent' = Sent /\ Pos' = Pos /\ HandlersFor(Sent)' = HandlersFor(Sent)
    BY <1>2 DEF Sent, Pos, HandlersFor
  <2>2. Sent.command \in Deliveries /\ handler \in HandlersFor(Sent) /\ next_index \in [DOMAIN scene.handlers -> Nat]
    BY <1>2 DEF Inv, HandInv
  <2>3. StatusOk(Pos, status)'
    <3>1. PICK x \in Asked(Pos)' : x.says = {reply} /\ x.handler = handler
      BY <1>3
    <3>2. x.handler \in HandlersFor(scene.pdus[Pos])'
      BY <2>1, <2>2, <3>1 DEF Sent
    <3>3. reply \in x.says /\ status' = StatusOf(reply)
      BY <1>1, <3>1
    <3> QED BY <3>1, <3>2, <3>3 DEF StatusOk
  <2>4. status' \in Statuses
    BY <1>1 DEF Statuses
  <2> QED BY <1>2, <2>1, <2>2, <2>3, <2>4 DEF HandInv, httpVars
<1>7. HistoryInv'
  <2>1. /\ \A a \in ToSet(answers) : a.pos \in 1 .. Len(outcome)
        /\ \A a, b \in ToSet(answers) : a.pos = b.pos => a = b
        /\ IsSequence(answers) /\ posting \subseteq DOMAIN outcome
    BY DEF Inv, HistoryInv
  <2> QED BY <1>2, <1>3, <2>1 DEF HistoryInv
<1>8. ReceiptInv' /\ Flags'
  BY <1>2, ReceiptKept DEF Inv, Flags, readVars
<1> QED BY <1>5, <1>6, <1>7, <1>8 DEF Inv

LEMMA ReceiptStepInv ==
    ASSUME Inv, OtherReceiptStep
    PROVE  Inv'
<1>1. scene' = scene /\ UNCHANGED <<readVars, pc, status, httpVars, posting, historyVars>>
  BY DEF OtherReceiptStep
<1>2. UNCHANGED <<wire, open, buffer, messages, accepted, answers, outcome>>
  BY <1>1 DEF readVars, historyVars
<1>3. FrameInv'
  <2>1. pc \in {"read", "process", "http", "answer", "enquire", "spin", "ended"}
    BY DEF Inv, FrameInv
  <2> QED BY <1>1, <1>2, <2>1, FrameKept DEF Inv
<1>4. HandInv'
  BY <1>1, <1>2, HandKept DEF Inv
<1>5. HistoryInv'
  BY <1>1, <1>2, HistoryKept DEF Inv
<1>6. ReceiptInv'
  <2>1. ReceiptInv /\ scene.registers \subseteq Registrations
    BY InboundAssumption DEF Inv, FrameInv
  <2>2. CASE ReceiptTick
    BY <2>1, <2>2, ReceiptTickInv
  <2>3. ASSUME NEW g \in scene.registers, RegisterStep(g) PROVE ReceiptInv'
    BY <2>1, <2>3, RegisterStartInv, RegisterCleanInv, RegisterInsertInv DEF RegisterStep
  <2>4. ASSUME NEW i \in MsgIds, RemoveReceiptInfo(i) PROVE ReceiptInv'
    BY <2>1, <2>4, RemoveReceiptInfoInv
  <2> QED BY <2>2, <2>3, <2>4 DEF OtherReceiptStep
<1>7. Flags'
  BY <1>1 DEF Inv, Flags, readVars
<1> QED BY <1>3, <1>4, <1>5, <1>6, <1>7 DEF Inv

\* A status that the code reads has 32 bits.
LEMMA StatusFits == \A n \in Statuses : n \in Nat /\ FitsFlat(U32, Num(n))
<1> SUFFICES ASSUME NEW reply \in Replies, NEW n, n = StatusOf(reply) PROVE n \in Nat /\ FitsFlat(U32, Num(n))
  BY DEF Statuses
<1>1. CASE DOMAIN reply = {"high", "low"}
  <2>1. n = reply.low
    BY <1>1 DEF StatusOf
  <2> QED BY <1>1, <2>1, InboundAssumption
<1>2. CASE DOMAIN reply # {"high", "low"}
  <2>1. n = 0
    BY <1>2 DEF StatusOf
  <2>2. Powers[4] = 16777216
    BY SMT DEF Powers
  <2>3. n \in Nat /\ n \div 16777216 < 256
    BY <2>1, SMT
  <2>4. Num(n) = [num |-> n] /\ U32.kind = "uint" /\ U32.width = 4
    BY DEF Num, U32
  <2> QED BY <2>2, <2>3, <2>4 DEF FitsFlat, Is
<1> QED BY <1>1, <1>2

\* A response can be written and read back.
LEMMA ResponseIsMessage ==
    ASSUME NEW m, m.command \in Deliveries \cup {EnquireLink}, m.sequence \in [num : Nat], FitsFlat(U32, m.sequence),
           status \in Statuses \cup {0, SysErr}
    PROVE  IsMessage(ResponseTo(m)) /\ Carried(ResponseTo(m))
<1>1. PICK R : R = ResponseTo(m)
  OBVIOUS
<1>2. /\ R.command = ResponseOf(m.command) /\ R.status = Num(status) /\ R.sequence = m.sequence
      /\ m.command \in Deliveries => R.fields = [message_id |-> Text(<<>>)]
      /\ m.command \notin Deliveries => R.fields = <<>>
  BY <1>1 DEF ResponseTo
<1>3. R.command \in Commands
  BY <1>2, DefaultAssumption
<1>4. status \in Nat /\ FitsFlat(U32, Num(status))
  <2>1. CASE status \in Statuses
    BY <2>1, StatusFits
  <2>2. CASE status \in {0, SysErr}
    <3>1. Powers[4] = 16777216
      BY SMT DEF Powers
    <3>2. status \in Nat /\ status < 256 /\ status \div 16777216 < 256
      BY <2>2, SMT DEF SysErr
    <3>3. Num(status) = [num |-> status] /\ U32.kind = "uint" /\ U32.width = 4
      BY DEF Num, U32
    <3> QED BY <3>1, <3>2, <3>3 DEF FitsFlat, Is
  <2> QED BY <2>1, <2>2
<1>5. Num(status) \in [num : Nat]
  BY <1>4 DEF Num
<1>6. IsValue(Text(<<>>))
  <2>1. <<>> \in Seq(Bytes)
    OBVIOUS
  <2>2. Text(<<>>) \in [text : Seq(Bytes)]
    BY <2>1 DEF Text
  <2> QED BY <2>2 DEF IsValue, FlatValues
<1>7. CASE m.command \in Deliveries
  <2>1. DOMAIN R.fields = {"message_id"} /\ R.fields["message_id"] = Text(<<>>)
    BY <1>2, <1>7
  <2>2. FieldsOf(R.command) = <<"message_id">>
    BY <1>2, <1>7, DefaultAssumption
  <2>3. ToSet(FieldsOf(R.command)) = {"message_id"}
    BY <2>2 DEF ToSet
  <2>4. "message_id" \notin DOMAIN TlvTags /\ Fits(FieldCodec("message_id"), Text(<<>>))
    BY DefaultAssumption
  <2>5. IsMessage(R)
    BY <1>2, <1>3, <1>4, <1>5, <1>6, <2>1 DEF IsMessage
  <2>6. Carried(R)
    BY <2>1, <2>3, <2>4 DEF Carried
  <2> QED BY <1>1, <2>5, <2>6
<1>8. CASE m.command \notin Deliveries
  <2>1. DOMAIN R.fields = {}
    BY <1>2, <1>8
  <2>2. IsMessage(R)
    BY <1>2, <1>3, <1>4, <1>5, <2>1 DEF IsMessage
  <2>3. Carried(R)
    BY <2>1 DEF Carried
  <2> QED BY <1>1, <2>2, <2>3
<1> QED BY <1>7, <1>8

\* The PDU that is written is the response to the message in hand, and true.
LEMMA AnswerIs ==
    ASSUME Inv, pc = "answer", NEW m \in Cur, NEW b \in FromJson(ResponseTo(m)), NEW a, a = [pos |-> Pos, pdu |-> b]
    PROVE  Answered(a)
<1>1. messages # <<>> /\ FrameInv
  BY DEF Inv, FrameInv
<1>2. m.command = Sent.command /\ m.sequence = Sent.sequence /\ IsMessage(Sent)
  BY <1>1, CurrentIs
<1>3. /\ Sent.command \in Deliveries \cup {EnquireLink} /\ status \in Statuses \cup {0, SysErr}
      /\ Sent.command \in Deliveries => StatusOk(Pos, status)
  BY DEF Inv, HandInv
<1>4. m.sequence \in [num : Nat] /\ FitsFlat(U32, m.sequence)
  BY <1>2 DEF IsMessage
<1>5. PICK R : R = ResponseTo(m)
  OBVIOUS
<1>6. IsMessage(R) /\ Carried(R) /\ b \in FromJson(R)
  BY <1>2, <1>3, <1>4, <1>5, ResponseIsMessage
<1>7. PICK l, q : Framed(R, l, q, b) /\ Body(R, <<>>, q)
  BY <1>6, ResponsePdu
<1>8. PICK r \in ToJson(b) : SameMessage(R, r)
  BY <1>6, <1>7, RoundTrip
<1>9. r.command = ResponseOf(m.command) /\ r.status = Num(status) /\ r.sequence = m.sequence
  BY <1>5, <1>8 DEF SameMessage, ResponseTo
<1>11. a.pos = Pos /\ a.pdu = b /\ Sent = scene.pdus[a.pos]
  BY DEF Sent
<1> QED BY <1>2, <1>3, <1>8, <1>9, <1>11 DEF Answered

\* The answer is the first and the last to the message.
LEMMA SendAnswerInv ==
    ASSUME Inv, SendAnswer
    PROVE  Inv'
<1>1. pc = "answer" /\ scene' = scene /\ UNCHANGED <<status, httpVars, posting, accepted, receiptVars>>
  BY DEF SendAnswer
<1>0. PICK m \in Cur : \E b \in FromJson(ResponseTo(m)) :
          \/ answers' = Append(answers, [pos |-> Pos, pdu |-> b]) /\ Finish("answered")
          \/ ~open /\ Finish("unanswered") /\ UNCHANGED answers
  BY DEF SendAnswer
<1>2. PICK b \in FromJson(ResponseTo(m)) :
          \/ answers' = Append(answers, [pos |-> Pos, pdu |-> b]) /\ Finish("answered")
          \/ ~open /\ Finish("unanswered") /\ UNCHANGED answers
  BY <1>0
<1>3. PICK what : Finish(what)
  BY <1>2
<1>4. FrameInv'
  BY <1>1, <1>3, FrameFinish DEF Inv
<1>5. HandInv'
  <2>1. pc' \in {"read", "process"}
    BY <1>3, FinishIs DEF Inv
  <2> QED BY <1>1, <2>1, HandLeft DEF Inv, httpVars
<1>6. ReceiptInv' /\ Flags'
  BY <1>1, <1>3, ReceiptKept DEF Inv, Finish, Flags
<1>7. HistoryInv'
  <2>1. CASE UNCHANGED answers
    BY <1>1, <1>3, <2>1, HistoryFinish DEF Inv
  <2>2. CASE answers' = Append(answers, [pos |-> Pos, pdu |-> b])
    <3>1. PICK a : a = [pos |-> Pos, pdu |-> b]
      OBVIOUS
    <3>2. IsSequence(answers') /\ ToSet(answers') = ToSet(answers) \cup {a}
      <4>1. PICK t : t = answers'
        OBVIOUS
      <4>2. IsSequence(answers) /\ Appended(t, answers, a)
        BY <2>2, <3>1, <4>1 DEF Inv, HistoryInv, Appended
      <4> QED BY <4>1, <4>2, AppendIs
    <3>3. Answered(a) /\ a.pos = Pos
      BY <1>1, <3>1, AnswerIs
    <3>4. (\A c : Answered(c) => Answered(c)') /\ LastSays' = LastSays
      BY <1>1, AllAnsweredKept DEF LastSays
    <3>5. /\ Len(outcome') = Len(outcome) + 1 /\ DOMAIN outcome' = 1 .. Len(outcome) + 1 /\ Pos' = Pos + 1
          /\ Len(outcome) \in Nat /\ Pos = Len(outcome) + 1 /\ DOMAIN outcome = 1 .. Len(outcome)
      BY <1>3, FinishIs, OutcomeIs DEF Inv
    <3>6. /\ \A c \in ToSet(answers) : c.pos \in 1 .. Len(outcome) /\ Answered(c)
          /\ \A c, d \in ToSet(answers) : c.pos = d.pos => c = d
          /\ \A x \in ToSet(accepted) : x.pos \in 1 .. Pos
          /\ LastSays /\ IsSequence(accepted) /\ posting \subseteq DOMAIN outcome
      BY DEF Inv, HistoryInv
    <3>7. Pos \in 1 .. Len(outcome') /\ Pos \notin 1 .. Len(outcome) /\ \A i \in 1 .. Len(outcome) : i \in 1 .. Len(outcome')
      BY <3>5
    <3>8. \A c \in ToSet(answers') : c.pos \in 1 .. Len(outcome') /\ Answered(c)'
      BY <3>2, <3>3, <3>4, <3>6, <3>7
    <3>9. \A c, d \in ToSet(answers') : c.pos = d.pos => c = d
      BY <3>2, <3>3, <3>6, <3>7
    <3>10. \A x \in ToSet(accepted') : x.pos \in 1 .. Pos' /\ (x.pos = Pos' /\ pc' # "answer" => x.says = {})
      <4>1. \A i \in 1 .. Pos : i \in 1 .. Pos' /\ i # Pos'
        BY <3>5
      <4> QED BY <1>1, <3>6, <4>1
    <3>11. posting' \subseteq DOMAIN outcome'
      BY <1>1, <3>5, <3>6
    <3> QED BY <1>1, <3>2, <3>4, <3>6, <3>8, <3>9, <3>10, <3>11 DEF HistoryInv
  <2> QED BY <1>2, <2>1, <2>2
<1> QED BY <1>4, <1>5, <1>6, <1>7 DEF Inv

LEMMA StutterInv ==
    ASSUME Inv, UNCHANGED vars
    PROVE  Inv'
<1>1. /\ scene' = scene /\ UNCHANGED <<wire, open, stalled, received, buffer, messages, pc, status, httpVars, posting>>
      /\ UNCHANGED <<answers, outcome, accepted, receiptVars>>
  BY DEF vars, readVars, historyVars
<1>2. FrameInv'
  <2>1. pc \in {"read", "process", "http", "answer", "enquire", "spin", "ended"}
    BY DEF Inv, FrameInv
  <2> QED BY <1>1, <2>1, FrameKept DEF Inv
<1> QED BY <1>1, <1>2, HandKept, HistoryKept, ReceiptKept DEF Inv, Flags

\* Inv is an invariant of the specification.
LEMMA InvHolds == Spec => []Inv
<1>1. Init => Inv
  BY InvInit
<1>2. Inv /\ [Next]_vars => Inv'
  <2> SUFFICES ASSUME Inv, [Next]_vars PROVE Inv'
    OBVIOUS
  <2>1. CASE LoopStep
    <3>1. ASSUME NEW n \in scene.reads, ReadMessages(n) PROVE Inv'
      BY <3>1, ReadInv
    <3>2. CASE ReadEof
      BY <3>2, QuietInv DEF QuietStep
    <3>3. CASE ProcessBad \/ ProcessOther
      BY <3>3, DropInv
    <3>4. CASE ProcessEnquireLink
      BY <3>4, EnquireInv
    <3>5. CASE HandleDeliverSm
      BY <3>5, HandleInv
    <3>6. CASE SendAnswer
      BY <3>6, SendAnswerInv
    <3> QED BY <2>1, <3>1, <3>2, <3>3, <3>4, <3>5, <3>6 DEF LoopStep
  <2>2. CASE HttpAnswers
    BY <2>2, HttpAnswersInv
  <2>3. CASE HttpFails
    BY <2>3, HttpFailsInv
  <2>7. CASE HttpAnswersNoJson
    BY <2>7, HttpAnswersNoJsonInv
  <2>4. CASE InactiveTick \/ SendEnquireLink \/ SmscCloses \/ SmscStalls \/ \E k \in posting : PostEnds(k)
    BY <2>4, QuietInv DEF QuietStep
  <2>5. CASE OtherReceiptStep
    BY <2>5, ReceiptStepInv
  <2>6. CASE UNCHANGED vars
    BY <2>6, StutterInv
  <2> QED BY <2>1, <2>2, <2>3, <2>4, <2>5, <2>6, <2>7 DEF Next
<1> QED BY <1>1, <1>2, PTL DEF Spec

(***************************************************************************)
(* Whatever the SMSC sends and however the reads cut it: every variable    *)
(* keeps its type, the loop never has more messages than were sent, and    *)
(* HttpMessageHandler never asks a URL a second time for one message.      *)
(***************************************************************************)
THEOREM InboundTypeCorrect == Spec => []TypeOK
<1>1. Inv => TypeOK
  <2> SUFFICES ASSUME Inv PROVE TypeOK
    OBVIOUS
  <2>1. PICK e, s : Frames(e, s)
    BY DEF Inv, FrameInv
  <2>2. buffer \in Seq(Bytes) /\ Len(outcome) + Len(messages) <= Len(scene.pdus)
    BY <2>1 DEF Frames
  <2>3. \A i \in DOMAIN buffer : buffer[i] \in Bytes
    BY <2>2
  <2>4. pc \in {"read", "process", "http", "answer", "enquire", "spin", "ended"}
    BY DEF Inv, FrameInv
  <2>5. /\ status \in Statuses \cup {0, SysErr} /\ next_index \in [DOMAIN scene.handlers -> Nat]
        /\ pc = "http" => handler \in DOMAIN scene.handlers /\ tries < scene.handlers[handler].urls
    BY DEF Inv, HandInv, HandlersFor
  <2>6. posting \subseteq DOMAIN outcome /\ ReceiptTypeOK /\ Flags
    BY DEF Inv, HistoryInv, ReceiptInv
  <2> QED BY <2>2, <2>3, <2>4, <2>5, <2>6 DEF TypeOK, Flags
<1> QED BY <1>1, InvHolds, PTL

(***************************************************************************)
(* Encoding, framing and decoding agree: the messages that an SMSC writes  *)
(* with the codec and that fit their fields come out of extract_message    *)
(* and to_json field by field as they were sent and in that order, for     *)
(* every cut of the stream by the reads, every message of every command    *)
(* and every number of messages; one that cannot be decoded spoils none.   *)
(***************************************************************************)
THEOREM FramesCorrect == Spec => []FramesIntact
<1>1. Inv => FramesIntact
  <2> SUFFICES ASSUME Inv, NEW i \in DOMAIN outcome, scene.pdus[i].extra = <<>>, Carried(scene.pdus[i])
               PROVE  \E got \in outcome[i].got : SameMessage(scene.pdus[i], got)
    BY DEF FramesIntact
  <2>1. PICK e, s : Frames(e, s)
    BY DEF Inv, FrameInv
  <2>2. /\ \A k \in 1 .. Len(scene.pdus) : e[k] \in OnWire(scene.pdus[k])
        /\ Len(outcome) + Len(messages) <= Len(scene.pdus) /\ IsSequence(messages)
        /\ \A k \in 1 .. Len(outcome) : outcome[k].got = ToJson(e[k])
    BY <2>1 DEF Frames
  <2>3. scene \in Scenes /\ DOMAIN outcome = 1 .. Len(outcome) /\ Len(outcome) \in Nat
    BY OutcomeIs DEF Inv, FrameInv
  <2>4. Len(messages) \in Nat /\ Len(scene.pdus) \in Nat
    BY <2>2, <2>3, SequenceIs, SceneIs
  <2>5. i \in 1 .. Len(outcome) /\ i \in 1 .. Len(scene.pdus)
    BY <2>2, <2>3, <2>4
  <2>6. PICK p, w : p = scene.pdus[i] /\ w = e[i]
    OBVIOUS
  <2>7. w \in OnWire(p) /\ outcome[i].got = ToJson(w) /\ Carried(p) /\ p.extra = <<>>
    BY <2>2, <2>5, <2>6
  <2>8. IsMessage(p) /\ p.extra \in Seq(Bytes) /\ FitsFlat(U32, Num(Len(w)))
    BY <2>3, <2>5, <2>6, <2>7, SceneIs
  <2>9. PICK l, q : Framed(p, l, q, w) /\ Body(p, p.extra, q)
    BY <2>7, <2>8, OnWireIs
  <2>10. Body(p, <<>>, q)
    BY <2>7, <2>9
  <2> QED BY <2>6, <2>7, <2>8, <2>9, <2>10, RoundTrip
<1> QED BY <1>1, InvHolds, PTL

(***************************************************************************)
(* handle_deliver_sm and send_deliver_sm_resp never answer twice, never    *)
(* answer for another message, and report the status that a server of the  *)
(* first handler for the destination has named, as far as 32 bits and      *)
(* as_u64 let it through, or a failure if none has answered in JSON;       *)
(* HttpMessageHandler leaves a message with a second server only if the    *)
(* answers of those before were no JSON.                                   *)
(***************************************************************************)
THEOREM AcceptedCorrect == Spec => []OkMeansAccepted
<1>1. Inv => OkMeansAccepted
  <2> SUFFICES ASSUME Inv PROVE OkMeansAccepted
    OBVIOUS
  <2>1. /\ \A a, b \in ToSet(answers) : a.pos = b.pos => a = b
        /\ LastSays
        /\ \A a \in ToSet(answers) : Answered(a)
    BY DEF Inv, HistoryInv
  <2>2. ASSUME NEW a \in ToSet(answers), NEW m, m = scene.pdus[a.pos], NEW asked, asked = Asked(a.pos)
        PROVE  \E r \in ToJson(a.pdu) :
                  /\ r.command = ResponseOf(m.command) /\ r.sequence = m.sequence
                  /\ m.command \in Deliveries =>
                        \/ \E x \in asked : /\ x.handler \in HandlersFor(m)
                                            /\ \E reply \in x.says : r.status = Num(StatusOf(reply))
                        \/ r.status = Num(SysErr) /\ \A x \in asked : x.says = {}
    <3>1. PICK r \in ToJson(a.pdu) :
              /\ r.command = ResponseOf(m.command) /\ r.sequence = m.sequence
              /\ m.command \in Deliveries => \E st : r.status = Num(st) /\ StatusOk(a.pos, st)
      BY <2>1, <2>2 DEF Answered
    <3> QED BY <2>2, <3>1 DEF StatusOk
  <2>3. \A a \in ToSet(answers) : Asked(a.pos) = {x \in ToSet(accepted) : x.pos = a.pos}
    BY DEF Asked
  <2> QED BY <2>1, <2>2, <2>3 DEF OkMeansAccepted, LastSays
<1> QED BY <1>1, InvHolds, PTL

(***************************************************************************)
(* The receipt manager keeps its promise when its lookups are the ones     *)
(* that handle_deliver_sm makes for the messages of the connection.        *)
(***************************************************************************)
THEOREM InboundReceiptsCorrect == Spec => []OwedIsRegistered
<1>1. Inv => OwedIsRegistered
  BY DEF Inv, ReceiptInv
<1> QED BY <1>1, InvHolds, PTL
=============================================================================
