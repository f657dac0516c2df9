-------------------- MODULE InMemoryMessageStorageProofs --------------------
(***************************************************************************)
(* Proofs about InMemoryMessageStorage, for any messages, requests and     *)
(* times.                                                                  *)
(***************************************************************************)
EXTENDS InMemoryMessageStorage, WellFoundedInduction, TLAPS

USE DEF listVars, fieldVars, resultVars, loopVars

(***************************************************************************)
(* The inductive invariant.                                                *)
(***************************************************************************)

\* A message is in the list of its id, and was saved.
ListedWasSaved ==
    \A i \in Ids : \A k \in 1 .. Len(messages[i]) :
        Attr[messages[i][k]].id = i /\ spc[messages[i][k]] = "ok"

\* What is to be removed by its position is there because the handler failed.
HandlingFailed == \A d \in handling : d.id \in failed

MemoryInv == TypeOK /\ ListedWasSaved /\ HandlingFailed /\ NoSilentLoss /\ IndexNotStale
-----------------------------------------------------------------------------
(***************************************************************************)
(* Induction, and what is left of a list.                                  *)
(***************************************************************************)

\* A set of naturals has a least element. This form of induction takes a set where the
\* library's takes an operator.
LEMMA Smallest == ASSUME NEW S \in SUBSET Nat, S # {} PROVE \E n \in S : \A m \in S : n <= m
<1> DEFINE R == {ss \in Nat \X Nat : ss[1] < ss[2]}
<1>1. IsWellFoundedOn(R, Nat)
  BY NatLessThanWellFounded DEF OpToRel
<1>2. \A m, n \in Nat : <<m, n>> \in R <=> m < n
  OBVIOUS
<1> HIDE DEF R
<1>3. PICK n \in S : \A m \in S : ~(<<m, n>> \in R)
  BY <1>1, WFMin
<1>4. \A m \in S : m \in Nat
  OBVIOUS
<1>5. \A m \in S : ~(m < n)
  BY <1>2, <1>3, <1>4, Zenon
<1> QED BY <1>4, <1>5

\* What holds for 0, and for n + 1 if it holds for n, holds for all.
LEMMA Induction == ASSUME NEW S \in SUBSET Nat, 0 \in S, \A n \in S : n + 1 \in S PROVE S = Nat
<1> SUFFICES ASSUME Nat \ S # {} PROVE FALSE
  OBVIOUS
<1>1. PICK n \in Nat \ S : \A m \in (Nat \ S) : n <= m
  BY Smallest, Nat \ S \in SUBSET Nat
<1>2. n # 0 /\ n - 1 \in Nat
  OBVIOUS
<1> QED BY <1>1, <1>2

\* The k-th message of s goes to the list t of those kept before it, or not.
RetainStep(s, gone, k, t) == IF s[k] \in gone THEN t ELSE Append(t, s[k])

\* f names what is kept of each of the first n prefixes of s.
Prefixes(s, gone, n, f) ==
    /\ f[0] = <<>>
    /\ \A k \in 1 .. n : f[k] = RetainStep(s, gone, k, f[k - 1])

\* The recursive definition in Without has a solution.
LEMMA KeptExists ==
    ASSUME NEW s \in Seq(Messages), NEW gone
    PROVE  \A n \in Nat :
               n <= Len(s) => \E f \in [0 .. n -> Seq(Messages)] : Prefixes(s, gone, n, f)
<1> DEFINE S == {n \in Nat :
                    n <= Len(s) => \E f \in [0 .. n -> Seq(Messages)] : Prefixes(s, gone, n, f)}
<1>1. 0 \in S
  <2>1. [k \in 0 .. 0 |-> <<>>] \in [0 .. 0 -> Seq(Messages)]
    OBVIOUS
  <2>2. Prefixes(s, gone, 0, [k \in 0 .. 0 |-> <<>>])
    BY DEF Prefixes
  <2> QED BY <2>1, <2>2
<1>2. ASSUME NEW n \in S PROVE n + 1 \in S
  <2> SUFFICES ASSUME n + 1 <= Len(s)
               PROVE  \E g \in [0 .. n + 1 -> Seq(Messages)] : Prefixes(s, gone, n + 1, g)
    OBVIOUS
  <2>1. n <= Len(s) /\ n + 1 \in 1 .. Len(s) /\ s[n + 1] \in Messages
    OBVIOUS
  <2>2. PICK f \in [0 .. n -> Seq(Messages)] : Prefixes(s, gone, n, f)
    BY <2>1
  <2> DEFINE t == RetainStep(s, gone, n + 1, f[n])
             g == [k \in 0 .. n + 1 |-> IF k = n + 1 THEN t ELSE f[k]]
  <2>3. t \in Seq(Messages)
    BY <2>1 DEF RetainStep
  <2>4. g \in [0 .. n + 1 -> Seq(Messages)]
    BY <2>3
  <2>5. /\ \A k \in 0 .. n : g[k] = f[k]
        /\ g[n + 1] = t
    OBVIOUS
  <2> HIDE DEF g
  <2>6. \A k \in 1 .. n + 1 : k - 1 \in 0 .. n /\ (k # n + 1 => k \in 1 .. n)
    OBVIOUS
  <2>7. g[0] = <<>>
    BY <2>2, <2>5 DEF Prefixes
  <2>8. \A k \in 1 .. n + 1 : g[k] = RetainStep(s, gone, k, g[k - 1])
    <3> TAKE k \in 1 .. n + 1
    <3>1. CASE k = n + 1
      BY <2>5, <3>1
    <3>2. CASE k # n + 1
      <4>1. k \in 0 .. n /\ k \in 1 .. n /\ k - 1 \in 0 .. n
        BY <2>6, <3>2
      <4>2. f[k] = RetainStep(s, gone, k, f[k - 1])
        BY <2>2, <4>1 DEF Prefixes
      <4> QED BY <2>5, <4>1, <4>2
    <3> QED BY <3>1, <3>2
  <2> QED BY <2>4, <2>7, <2>8 DEF Prefixes
<1>3. S = Nat
  <2> HIDE DEF S
  <2>1. S \in SUBSET Nat
    BY DEF S
  <2> QED BY <1>1, <1>2, <2>1, Induction
<1> QED BY <1>3

\* Without is what it says, step by step.
LEMMA WithoutIs ==
    ASSUME NEW s \in Seq(Messages), NEW gone
    PROVE  \E f : Prefixes(s, gone, Len(s), f) /\ Without(s, gone) = f[Len(s)]
<1> DEFINE F(f) == [k \in 0 .. Len(s) |->
                        IF k = 0 THEN <<>>
                        ELSE IF s[k] \in gone THEN f[k - 1] ELSE Append(f[k - 1], s[k])]
           kept == CHOOSE f : f = F(f)
<1>0. Len(s) \in Nat
  OBVIOUS
<1>1. PICK f \in [0 .. Len(s) -> Seq(Messages)] : Prefixes(s, gone, Len(s), f)
  BY <1>0, KeptExists
<1>2. f = F(f)
  <2>1. \A k \in 1 .. Len(s) : k # 0 /\ k \in 0 .. Len(s)
    OBVIOUS
  <2>2. \A k \in 0 .. Len(s) : k # 0 => k \in 1 .. Len(s)
    OBVIOUS
  <2>3. \A k \in 0 .. Len(s) :
           f[k] = IF k = 0 THEN <<>>
                  ELSE IF s[k] \in gone THEN f[k - 1] ELSE Append(f[k - 1], s[k])
    BY <1>1, <2>2 DEF Prefixes, RetainStep
  <2>4. f = [k \in 0 .. Len(s) |-> f[k]]
    OBVIOUS
  <2> QED BY <2>3, <2>4, Zenon
<1>3. Without(s, gone) = kept[Len(s)]
  BY DEF Without
<1>4. kept = F(kept)
  <2> HIDE DEF F
  <2> QED BY <1>2
<1>5. Prefixes(s, gone, Len(s), kept)
  <2>1. \A k \in 0 .. Len(s) :
           kept[k] = IF k = 0 THEN <<>>
                     ELSE IF s[k] \in gone THEN kept[k - 1] ELSE Append(kept[k - 1], s[k])
    <3> HIDE DEF kept
    <3> QED BY <1>4, Zenon
  <2> HIDE DEF kept
  <2>2. \A k \in 1 .. Len(s) : k # 0 /\ k \in 0 .. Len(s)
    OBVIOUS
  <2>3. 0 \in 0 .. Len(s)
    BY <1>0
  <2> QED BY <2>1, <2>2, <2>3 DEF Prefixes, RetainStep
<1> QED BY <1>3, <1>5

\* t has exactly the first n messages of s that are not in gone, each once.
Filtered(s, gone, n, t) ==
    /\ t \in Seq(Messages)
    /\ \A k \in 1 .. Len(t) : \E j \in 1 .. n : t[k] = s[j] /\ s[j] \notin gone
    /\ \A j \in 1 .. n : s[j] \notin gone => \E k \in 1 .. Len(t) : t[k] = s[j]
    /\ \A j, k \in 1 .. Len(t) : t[j] = t[k] => j = k

\* One more message of the list.
LEMMA FilteredStep ==
    ASSUME NEW s \in Seq(Messages), NEW gone, NEW n \in Nat, n + 1 <= Len(s), NEW t,
           \A j, k \in 1 .. Len(s) : s[j] = s[k] => j = k,
           Filtered(s, gone, n, t)
    PROVE  Filtered(s, gone, n + 1, RetainStep(s, gone, n + 1, t))
<1>0. /\ t \in Seq(Messages) /\ Len(t) \in Nat /\ Len(s) \in Nat
      /\ n + 1 \in 1 .. Len(s) /\ s[n + 1] \in Messages
      /\ \A j \in 1 .. n + 1 : j \in 1 .. n \/ j = n + 1
      /\ \A j \in 1 .. n : j \in 1 .. n + 1 /\ j \in 1 .. Len(s) /\ j # n + 1
  BY DEF Filtered
<1>1. CASE s[n + 1] \in gone
  <2>1. RetainStep(s, gone, n + 1, t) = t
    BY <1>1 DEF RetainStep
  <2> QED BY <1>0, <1>1, <2>1 DEF Filtered
<1>2. CASE s[n + 1] \notin gone
  <2> DEFINE u == Append(t, s[n + 1])
  <2>1. RetainStep(s, gone, n + 1, t) = u
    BY <1>2 DEF RetainStep
  <2>2. /\ u \in Seq(Messages) /\ Len(u) = Len(t) + 1 /\ u[Len(t) + 1] = s[n + 1]
        /\ \A k \in 1 .. Len(t) : u[k] = t[k]
        /\ \A k \in 1 .. Len(u) : k \in 1 .. Len(t) \/ k = Len(t) + 1
        /\ \A k \in 1 .. Len(t) : k \in 1 .. Len(u)
        /\ Len(t) + 1 \in 1 .. Len(u)
    BY <1>0
  <2> HIDE DEF u
  <2>3. \A k \in 1 .. Len(u) : \E j \in 1 .. n + 1 : u[k] = s[j] /\ s[j] \notin gone
    BY <1>0, <1>2, <2>2 DEF Filtered
  <2>4. \A j \in 1 .. n + 1 : s[j] \notin gone => \E k \in 1 .. Len(u) : u[k] = s[j]
    BY <1>0, <2>2 DEF Filtered
  <2>5. \A k \in 1 .. Len(t) : t[k] # s[n + 1]
    BY <1>0 DEF Filtered
  <2>6. \A j, k \in 1 .. Len(u) : u[j] = u[k] => j = k
    BY <2>2, <2>5 DEF Filtered
  <2> QED BY <2>1, <2>2, <2>3, <2>4, <2>6 DEF Filtered
<1> QED BY <1>1, <1>2

\* Without takes out the messages of gone and no other.
LEMMA WithoutFilters ==
    ASSUME NEW s \in Seq(Messages), NEW gone,
           \A j, k \in 1 .. Len(s) : s[j] = s[k] => j = k
    PROVE  Filtered(s, gone, Len(s), Without(s, gone))
<1>1. PICK f : Prefixes(s, gone, Len(s), f) /\ Without(s, gone) = f[Len(s)]
  BY WithoutIs
<1> DEFINE S == {n \in Nat : n <= Len(s) => Filtered(s, gone, n, f[n])}
<1>2. 0 \in S
  <2>1. f[0] = <<>>
    BY <1>1 DEF Prefixes
  <2>2. <<>> \in Seq(Messages) /\ Len(<<>>) = 0
    OBVIOUS
  <2>3. Filtered(s, gone, 0, <<>>)
    BY <2>2 DEF Filtered
  <2> QED BY <2>1, <2>3
<1>3. ASSUME NEW n \in S PROVE n + 1 \in S
  <2> SUFFICES ASSUME n + 1 <= Len(s) PROVE Filtered(s, gone, n + 1, f[n + 1])
    OBVIOUS
  <2>1. n \in Nat /\ n <= Len(s) /\ n + 1 \in 1 .. Len(s) /\ (n + 1) - 1 = n
    OBVIOUS
  <2>2. f[n + 1] = RetainStep(s, gone, n + 1, f[n])
    BY <1>1, <2>1 DEF Prefixes
  <2>3. Filtered(s, gone, n, f[n])
    BY <2>1
  <2> QED BY <2>1, <2>2, <2>3, FilteredStep
<1>4. S = Nat
  <2> HIDE DEF S
  <2>1. S \in SUBSET Nat
    BY DEF S
  <2> QED BY <1>2, <1>3, <2>1, Induction
<1>5. Len(s) \in Nat /\ Len(s) <= Len(s)
  OBVIOUS
<1> QED BY <1>1, <1>4, <1>5

\* Vec::remove at a position takes out the message there and no other.
LEMMA CutFilters ==
    ASSUME NEW s \in Seq(Messages), NEW p \in 1 .. Len(s),
           \A j, k \in 1 .. Len(s) : s[j] = s[k] => j = k
    PROVE  Filtered(s, {s[p]}, Len(s), SubSeq(s, 1, p - 1) \o SubSeq(s, p + 1, Len(s)))
<1> DEFINE a == SubSeq(s, 1, p - 1)
           b == SubSeq(s, p + 1, Len(s))
           t == a \o b
<1>0. Len(s) \in Nat /\ p \in Nat /\ 1 <= p /\ p <= Len(s)
  OBVIOUS
<1>1. a \in Seq(Messages) /\ Len(a) = p - 1 /\ \A k \in 1 .. p - 1 : a[k] = s[k]
  BY <1>0
<1>2. b \in Seq(Messages) /\ Len(b) = Len(s) - p /\ \A k \in 1 .. Len(s) - p : b[k] = s[k + p]
  BY <1>0
<1> HIDE DEF a, b
<1>3. /\ t \in Seq(Messages) /\ Len(t) = Len(s) - 1
      /\ \A k \in 1 .. Len(t) : t[k] = IF k < p THEN s[k] ELSE s[k + 1]
  <2>0. t \in Seq(Messages) /\ Len(t) = Len(a) + Len(b)
    <3>1. a \in Seq(Messages) /\ b \in Seq(Messages)
      BY <1>1, <1>2
    <3> QED BY <3>1
  <2>1. t \in Seq(Messages) /\ Len(t) = Len(s) - 1
    BY <1>0, <1>1, <1>2, <2>0
  <2>2. \A k \in 1 .. Len(t) : t[k] = IF k <= Len(a) THEN a[k] ELSE b[k - Len(a)]
    BY <1>1, <1>2
  <2>3. ASSUME NEW k \in 1 .. Len(t), k < p PROVE t[k] = s[k]
    BY <1>0, <1>1, <2>1, <2>2, <2>3
  <2>4. ASSUME NEW k \in 1 .. Len(t), ~(k < p) PROVE t[k] = s[k + 1]
    <3>1. k - (p - 1) \in 1 .. Len(s) - p /\ (k - (p - 1)) + p = k + 1 /\ ~(k <= p - 1)
      BY <1>0, <2>1, <2>4
    <3>2. t[k] = b[k - (p - 1)]
      BY <1>1, <2>2, <3>1
    <3> QED BY <1>2, <3>1, <3>2
  <2> QED BY <2>1, <2>3, <2>4
<1> HIDE DEF t
<1>4. \A k \in 1 .. Len(t) : \E j \in 1 .. Len(s) : t[k] = s[j] /\ j # p
  <2> TAKE k \in 1 .. Len(t)
  <2>1. k \in 1 .. Len(s) /\ k + 1 \in 1 .. Len(s)
    BY <1>0, <1>3
  <2> QED BY <1>0, <1>3, <2>1
<1>5. ASSUME NEW j \in 1 .. Len(s), j # p PROVE \E k \in 1 .. Len(t) : t[k] = s[j]
  <2>1. CASE j < p
    <3>1. j \in 1 .. Len(t) /\ t[j] = s[j]
      BY <1>0, <1>3, <2>1
    <3> QED BY <3>1
  <2>2. CASE j > p
    <3>1. j - 1 \in 1 .. Len(t) /\ t[j - 1] = s[j]
      BY <1>0, <1>3, <2>2
    <3> QED BY <3>1
  <2> QED BY <1>0, <1>5, <2>1, <2>2
<1>6. \A j, k \in 1 .. Len(t) : t[j] = t[k] => j = k
  BY <1>0, <1>3
<1>7. Filtered(s, {s[p]}, Len(s), t)
  BY <1>0, <1>3, <1>4, <1>5, <1>6 DEF Filtered
<1> QED BY <1>7 DEF t, a, b

\* A set of positions has a last one.
LEMMA Largest ==
    ASSUME NEW n \in Nat, NEW S \in SUBSET (1 .. n), S # {}
    PROVE  \E k \in S : \A j \in S : j <= k
<1> DEFINE T == {m \in Nat : n - m \in S}
<1>1. T \in SUBSET Nat /\ T # {}
  <2>1. PICK k \in S : TRUE
    OBVIOUS
  <2>2. n - k \in Nat /\ n - (n - k) = k
    OBVIOUS
  <2> QED BY <2>1, <2>2
<1>2. PICK m \in T : \A l \in T : m <= l
  <2> HIDE DEF T
  <2> QED BY <1>1, Smallest
<1>3. \A j \in S : n - j \in T
  OBVIOUS
<1>4. n - m \in S /\ \A j \in S : j <= n - m
  BY <1>2, <1>3
<1> QED BY <1>4
-----------------------------------------------------------------------------
(***************************************************************************)
(* The lists.                                                              *)
(***************************************************************************)

\* What TypeOK says of the lists, by position.
LEMMA ListsType ==
    ASSUME TypeOK, NEW i \in Ids
    PROVE  /\ messages[i] \in Seq(Messages) /\ Len(messages[i]) \in Nat
           /\ DOMAIN messages[i] = 1 .. Len(messages[i])
           /\ \A j, k \in 1 .. Len(messages[i]) : messages[i][j] = messages[i][k] => j = k
           /\ \A k \in 1 .. Len(messages[i]) : messages[i][k] \in Messages
<1>1. messages[i] \in Seq(Messages)
  BY DEF TypeOK
<1>2. DOMAIN messages[i] = 1 .. Len(messages[i])
  BY <1>1
<1>3. \A j, k \in 1 .. Len(messages[i]) : messages[i][j] = messages[i][k] => j = k
  BY <1>2 DEF TypeOK
<1> QED BY <1>1, <1>2, <1>3

\* A stored message is somewhere in a list.
LEMMA StoredAt ==
    ASSUME TypeOK
    PROVE  \A m : m \in Stored <=>
               \E i \in Ids : \E k \in 1 .. Len(messages[i]) : messages[i][k] = m
<1>1. \A i \in Ids : \A m : m \in InList(i) <=> \E k \in 1 .. Len(messages[i]) : messages[i][k] = m
  BY ListsType DEF InList
<1> QED BY <1>1 DEF Stored

\* The lists are well formed: the part of TypeOK about them.
ListsOK ==
    /\ messages \in [Ids -> Seq(Messages)]
    /\ \A i \in Ids : \A j, k \in DOMAIN messages[i] : messages[i][j] = messages[i][k] => j = k

\* The messages of gone leave their lists, and nothing else changes in them.
LEMMA Shrinks ==
    ASSUME TypeOK, ListedWasSaved, NEW gone, UNCHANGED spc,
           NEW g, messages' = [i \in Ids |-> g[i]],
           \A i \in Ids : Filtered(messages[i], gone, Len(messages[i]), g[i])
    PROVE  /\ ListsOK' /\ ListedWasSaved'
           /\ \A m : (\E i \in Ids : \E k \in 1 .. Len(messages'[i]) : messages'[i][k] = m)
                         <=> m \in Stored /\ m \notin gone
<1>1. \A i \in Ids : messages'[i] = g[i] /\ messages'[i] \in Seq(Messages)
  BY DEF Filtered
<1>2. ListsOK'
  <2>1. messages' \in [Ids -> Seq(Messages)]
    BY <1>1
  <2>2. \A i \in Ids : DOMAIN messages'[i] = 1 .. Len(messages'[i])
    BY <1>1
  <2>3. \A i \in Ids : \A j, k \in 1 .. Len(messages'[i]) : messages'[i][j] = messages'[i][k] => j = k
    BY <1>1 DEF Filtered
  <2> QED BY <2>1, <2>2, <2>3 DEF ListsOK
<1>3. \A i \in Ids : \A k \in 1 .. Len(messages'[i]) : \E j \in 1 .. Len(messages[i]) :
         messages'[i][k] = messages[i][j] /\ messages[i][j] \notin gone
  BY <1>1 DEF Filtered
<1>4. \A i \in Ids : \A j \in 1 .. Len(messages[i]) :
         messages[i][j] \notin gone => \E k \in 1 .. Len(messages'[i]) : messages'[i][k] = messages[i][j]
  BY <1>1 DEF Filtered
<1>5. ListedWasSaved'
  BY <1>3 DEF ListedWasSaved
<1>6. ASSUME NEW m, m \in Stored, m \notin gone
      PROVE  \E i \in Ids : \E k \in 1 .. Len(messages'[i]) : messages'[i][k] = m
  BY <1>4, <1>6, StoredAt
<1>7. ASSUME NEW m, NEW i \in Ids, NEW k \in 1 .. Len(messages'[i]), messages'[i][k] = m
      PROVE  m \in Stored /\ m \notin gone
  BY <1>3, <1>7, StoredAt
<1> QED BY <1>2, <1>5, <1>6, <1>7

\* ListsOK is enough for StoredAt.
LEMMA StoredAfter ==
    ASSUME ListsOK'
    PROVE  \A m : m \in Stored' <=>
               \E i \in Ids : \E k \in 1 .. Len(messages'[i]) : messages'[i][k] = m
<1>1. \A i \in Ids : DOMAIN messages'[i] = 1 .. Len(messages'[i])
  <2>1. \A i \in Ids : messages'[i] \in Seq(Messages)
    BY DEF ListsOK
  <2> QED BY <2>1
<1>2. \A i \in Ids : \A m : m \in InList(i)' <=>
                                \E k \in 1 .. Len(messages'[i]) : messages'[i][k] = m
  BY <1>1 DEF InList
<1> QED BY <1>2 DEF Stored

\* Remove takes the messages of gone out of the store, and their entries out of the index.
LEMMA RemoveShrinks ==
    ASSUME MemoryInv, NEW gone, Remove(gone), UNCHANGED spc
    PROVE  /\ ListsOK' /\ ListedWasSaved' /\ Stored' = Stored \ gone
           /\ user_message_ids' \subseteq Users \X Ids
           /\ \A x \in user_message_ids' :
                 x \in user_message_ids /\ \A m \in gone : x # <<Attr[m].user, Attr[m].id>>
<1> DEFINE g == [i \in Ids |-> Without(messages[i], gone)]
<1>1. messages' = [i \in Ids |-> g[i]]
  BY DEF Remove
<1>2. \A i \in Ids : Filtered(messages[i], gone, Len(messages[i]), g[i])
  BY ListsType, WithoutFilters DEF MemoryInv
<1> HIDE DEF g
<1>3. /\ ListsOK' /\ ListedWasSaved'
      /\ \A m : (\E i \in Ids : \E k \in 1 .. Len(messages'[i]) : messages'[i][k] = m)
                    <=> m \in Stored /\ m \notin gone
  BY <1>1, <1>2, Shrinks DEF MemoryInv
<1>4. Stored' = Stored \ gone
  BY <1>3, StoredAfter
<1>5. \A x \in user_message_ids' :
         x \in user_message_ids /\ \A m \in gone : x # <<Attr[m].user, Attr[m].id>>
  BY DEF Remove
<1>6. user_message_ids' \subseteq Users \X Ids
  BY <1>5 DEF MemoryInv, TypeOK
<1> QED BY <1>3, <1>4, <1>5, <1>6

\* What is removed for a reason is not lost, and the index names only what is left.
LEMMA RemoveKeeps ==
    ASSUME MemoryInv, NEW gone, Remove(gone), UNCHANGED <<now, spc, validity>>,
           failed' = failed, Stored' = Stored \ gone,
           \A c \in Cancels : cpc[c] = "true" => cpc'[c] = "true" /\ canceled'[c] = canceled[c],
           \A m \in gone : \/ \E c \in Cancels : cpc'[c] = "true" /\ m \in canceled'[c]
                           \/ Expired(m),
           \A x \in user_message_ids' :
              x \in user_message_ids /\ \A m \in gone : x # <<Attr[m].user, Attr[m].id>>
    PROVE  NoSilentLoss' /\ IndexNotStale'
<1>1. \A m : Expired(m)' <=> Expired(m)
  BY DEF Expired
<1>2. NoSilentLoss'
  BY <1>1 DEF MemoryInv, NoSilentLoss
<1>3. ASSUME NEW x \in user_message_ids', x[2] \notin failed
      PROVE  \E m \in Stored' : Attr[m].user = x[1] /\ Attr[m].id = x[2]
  <2>1. x \in user_message_ids /\ x \in Users \X Ids
    BY DEF MemoryInv, TypeOK
  <2>2. x = <<x[1], x[2]>>
    BY <2>1
  <2>3. PICK m \in Stored : Attr[m].user = x[1] /\ Attr[m].id = x[2]
    BY <1>3, <2>1 DEF MemoryInv, IndexNotStale
  <2>4. m \notin gone
    BY <2>2, <2>3
  <2> QED BY <2>3, <2>4
<1>4. IndexNotStale'
  BY <1>3 DEF IndexNotStale
<1> QED BY <1>2, <1>4
-----------------------------------------------------------------------------
(***************************************************************************)
(* Every step keeps the invariant.                                         *)
(***************************************************************************)

\* A validity period is a time, or there is none.
LEMMA ValidityType ==
    ASSUME TypeOK, NEW m \in Messages
    PROVE  ValidityOf(m) \in Int
<1> DEFINE a == Attr[m]
           from == IF a.sched = NoTime THEN now ELSE a.sched
<1>1. NoTime # BadTime
  BY DEF NoTime, BadTime
<1>2. /\ a.validity = NoTime => ValidityOf(m) = from + DefaultValidity
      /\ a.validity = BadTime => ValidityOf(m) = NoTime
      /\ a.validity \notin {NoTime, BadTime} => ValidityOf(m) = a.validity
  BY <1>1, Zenon DEF ValidityOf
<1>3. a.validity \in Int /\ from \in Int /\ NoTime \in Int /\ DefaultValidity \in Int
  BY InMemoryAssumption DEF TypeOK, OptTime, NoTime, BadTime
<1> QED BY <1>2, <1>3

\* Fields of a message.
LEMMA Fields ==
    /\ \A m \in Messages : /\ Attr[m].id \in Ids /\ Attr[m].user \in Users \cup {NoField}
                           /\ Attr[m].sched \in Int
    /\ \A p \in Replaces : /\ Update[p].id \in Ids \cup {NoField}
                           /\ Update[p].sched \in Int /\ Update[p].validity \in Int
BY InMemoryAssumption DEF OptTime, NoTime

\* The store is empty.
LEMMA MemoryInit == Init => MemoryInv
<1> SUFFICES ASSUME Init PROVE MemoryInv
  OBVIOUS
<1>1. \A i \in Ids : messages[i] = <<>> /\ DOMAIN messages[i] = {} /\ Len(messages[i]) = 0
  BY DEF Init
<1>2. TypeOK
  <2>1. now \in 1 .. MaxTime /\ NoTime \in Int
    BY InMemoryAssumption DEF Init, NoTime
  <2>2. messages \in [Ids -> Seq(Messages)]
    BY DEF Init
  <2>3. canceled \in [Cancels -> SUBSET Messages]
    BY DEF Init
  <2> QED BY <1>1, <2>1, <2>2, <2>3 DEF Init, TypeOK
<1>3. ListedWasSaved /\ HandlingFailed
  BY <1>1 DEF Init, ListedWasSaved, HandlingFailed
<1>4. NoSilentLoss /\ IndexNotStale
  BY DEF Init, NoSilentLoss, IndexNotStale
<1> QED BY <1>2, <1>3, <1>4 DEF MemoryInv

\* Steps that leave the lists, their fields and the results alone: the clock, the handler,
\* and what changes nothing.
LEMMA QuietInv ==
    ASSUME MemoryInv, Tick \/ HandleDue \/ HandleFails \/ UNCHANGED vars
    PROVE  MemoryInv'
<1> USE DEF MemoryInv
<1>1. UNCHANGED <<listVars, fieldVars, resultVars>>
  BY DEF Tick, HandleDue, HandleFails, vars
<1>2. /\ now' \in 1 .. MaxTime /\ now' >= now /\ now \in Int
      /\ failed \subseteq failed'
  <2>1. MaxTime \in Nat
    BY InMemoryAssumption
  <2> QED BY <2>1 DEF Tick, HandleDue, HandleFails, vars, TypeOK
<1>3. TypeOK'
  <2>1. due' \cup handling' \subseteq [id : Ids, pos : Nat, msg : Messages]
    BY DEF Tick, HandleDue, HandleFails, vars, TypeOK
  <2>2. delivered' \subseteq Messages
    BY DEF Tick, HandleDue, HandleFails, vars, TypeOK
  <2>3. failed' \subseteq Ids
    BY DEF Tick, HandleDue, HandleFails, vars, TypeOK
  <2>4. lpc' \in {"wait", "deliver", "remove", "dead"} /\ handlerErrors' \in Nat
    BY DEF Tick, HandleDue, HandleFails, vars, TypeOK
  <2> QED BY <1>1, <1>2, <2>1, <2>2, <2>3, <2>4 DEF TypeOK
<1>4. ListedWasSaved'
  BY <1>1 DEF ListedWasSaved
<1>5. HandlingFailed'
  BY DEF Tick, HandleDue, HandleFails, vars, HandlingFailed
<1>6. Stored' = Stored
  BY <1>1 DEF Stored, InList
<1>7. \A m \in Messages : Expired(m) => Expired(m)'
  BY <1>1, <1>2 DEF Expired, TypeOK
<1>8. NoSilentLoss'
  BY <1>1, <1>2, <1>6, <1>7 DEF NoSilentLoss
<1>9. IndexNotStale'
  BY <1>1, <1>2, <1>6 DEF IndexNotStale
<1> QED BY <1>3, <1>4, <1>5, <1>8, <1>9

\* A message that is saved comes to the end of the list of its id, where it is not yet.
LEMMA Grows ==
    ASSUME MemoryInv, NEW n \in Messages, spc[n] = "idle", spc' = [spc EXCEPT ![n] = "ok"],
           messages' = [messages EXCEPT ![Attr[n].id] = Append(@, n)]
    PROVE  ListsOK' /\ ListedWasSaved' /\ Stored' = Stored \cup {n}
<1> DEFINE h == Attr[n].id
           s == messages[h]
<1>1. h \in Ids /\ messages \in [Ids -> Seq(Messages)]
  BY Fields DEF MemoryInv, TypeOK
<1>2. /\ s \in Seq(Messages) /\ Len(s) \in Nat
      /\ \A j, k \in 1 .. Len(s) : s[j] = s[k] => j = k
  BY <1>1, ListsType DEF MemoryInv
<1>3. \A i \in Ids : \A k \in 1 .. Len(messages[i]) : messages[i][k] # n
  BY DEF MemoryInv, ListedWasSaved
<1> HIDE DEF h
<1>4. messages'[h] = Append(s, n) /\ \A i \in Ids \ {h} : messages'[i] = messages[i]
  BY <1>1 DEF h
<1>5. /\ messages'[h] \in Seq(Messages) /\ Len(messages'[h]) = Len(s) + 1
      /\ messages'[h][Len(s) + 1] = n /\ \A k \in 1 .. Len(s) : messages'[h][k] = s[k]
  BY <1>2, <1>4
<1>6. \A k \in 1 .. Len(s) + 1 : k \in 1 .. Len(s) \/ k = Len(s) + 1
  BY <1>2
<1>7. ListsOK'
  <2>1. messages' \in [Ids -> Seq(Messages)]
    BY <1>1 DEF h
  <2>2. \A i \in Ids : DOMAIN messages'[i] = 1 .. Len(messages'[i])
    BY <2>1
  <2>3. ASSUME NEW i \in Ids, NEW j \in 1 .. Len(messages'[i]), NEW k \in 1 .. Len(messages'[i]),
               messages'[i][j] = messages'[i][k]
        PROVE  j = k
    <3>1. CASE i = h
      <4>1. s[j] = s[k] \/ j \notin 1 .. Len(s) \/ k \notin 1 .. Len(s)
        BY <1>5, <2>3, <3>1
      <4>2. \A l \in 1 .. Len(s) : s[l] # n
        BY <1>1, <1>3
      <4> QED BY <1>2, <1>5, <1>6, <2>3, <3>1, <4>1, <4>2
    <3>2. CASE i # h
      BY <1>4, <2>3, <3>2, ListsType DEF MemoryInv
    <3> QED BY <3>1, <3>2
  <2> QED BY <2>1, <2>2, <2>3 DEF ListsOK
<1>8. ListedWasSaved'
  <2>1. ASSUME NEW i \in Ids, NEW k \in 1 .. Len(messages'[i])
        PROVE  Attr[messages'[i][k]].id = i /\ spc'[messages'[i][k]] = "ok"
    <3>1. \A m \in Messages : spc[m] = "ok" => spc'[m] = "ok"
      BY DEF MemoryInv, TypeOK
    <3>2. spc'[n] = "ok"
      BY DEF MemoryInv, TypeOK
    <3>3. CASE i = h
      <4>1. CASE k = Len(s) + 1
        BY <1>5, <3>2, <3>3, <4>1 DEF h
      <4>2. CASE k \in 1 .. Len(s)
        BY <1>1, <1>5, <3>1, <3>3, <4>2, ListsType DEF MemoryInv, ListedWasSaved
      <4> QED BY <1>5, <1>6, <3>3, <4>1, <4>2
    <3>4. CASE i # h
      BY <1>4, <3>1, <3>4, ListsType DEF MemoryInv, ListedWasSaved
    <3> QED BY <3>3, <3>4
  <2> QED BY <2>1 DEF ListedWasSaved
<1>9. \A m : (\E i \in Ids : \E k \in 1 .. Len(messages'[i]) : messages'[i][k] = m)
                 <=> m \in Stored \/ m = n
  <2>1. ASSUME NEW i \in Ids, NEW k \in 1 .. Len(messages'[i])
        PROVE  messages'[i][k] \in Stored \/ messages'[i][k] = n
    BY <1>1, <1>4, <1>5, <1>6, StoredAt DEF MemoryInv
  <2>2. ASSUME NEW i \in Ids, NEW k \in 1 .. Len(messages[i])
        PROVE  k \in 1 .. Len(messages'[i]) /\ messages'[i][k] = messages[i][k]
    BY <1>2, <1>4, <1>5
  <2>3. Len(s) + 1 \in 1 .. Len(messages'[h])
    BY <1>2, <1>5
  <2>4. ASSUME NEW m \in Stored
        PROVE  \E i \in Ids : \E k \in 1 .. Len(messages'[i]) : messages'[i][k] = m
    <3>1. PICK i \in Ids : \E k \in 1 .. Len(messages[i]) : messages[i][k] = m
      BY StoredAt DEF MemoryInv
    <3>2. PICK k \in 1 .. Len(messages[i]) : messages[i][k] = m
      BY <3>1
    <3> QED BY <2>2, <3>2
  <2>5. \E i \in Ids : \E k \in 1 .. Len(messages'[i]) : messages'[i][k] = n
    BY <1>1, <1>5, <2>3
  <2> QED BY <2>1, <2>4, <2>5
<1>10. Stored' = Stored \cup {n}
  BY <1>7, <1>9, StoredAfter
<1> QED BY <1>7, <1>8, <1>10

\* save
LEMMA SaveInv ==
    ASSUME MemoryInv, NEW n \in Messages, Save(n)
    PROVE  MemoryInv'
<1> USE DEF MemoryInv
<1>1. /\ UNCHANGED <<now, text, cpc, canceled, rpc, loopVars>> /\ spc[n] = "idle"
  BY DEF Save
<1>2. HandlingFailed'
  BY <1>1 DEF HandlingFailed
<1>3. CASE Acceptable(n)
  <2>1. /\ messages' = [messages EXCEPT ![Attr[n].id] = Append(@, n)]
        /\ user_message_ids' = user_message_ids \cup {<<Attr[n].user, Attr[n].id>>}
        /\ sched' = [sched EXCEPT ![n] = Attr[n].sched]
        /\ validity' = [validity EXCEPT ![n] = ValidityOf(n)]
        /\ spc' = [spc EXCEPT ![n] = "ok"] /\ Attr[n].user # NoField
    BY <1>3 DEF Save, Acceptable
  <2>2. ListsOK' /\ ListedWasSaved' /\ Stored' = Stored \cup {n}
    BY <1>1, <2>1, Grows
  <2>3. <<Attr[n].user, Attr[n].id>> \in Users \X Ids
    BY <2>1, Fields
  <2>4. TypeOK'
    <3>1. sched' \in [Messages -> Int] /\ validity' \in [Messages -> Int]
      BY <2>1, Fields, ValidityType DEF TypeOK
    <3>2. spc' \in [Messages -> {"idle", "ok", "error"}] /\ user_message_ids' \subseteq Users \X Ids
      BY <2>1, <2>3 DEF TypeOK
    <3> QED BY <1>1, <2>2, <3>1, <3>2 DEF TypeOK, ListsOK
  <2>5. \A m \in Messages \ {n} : spc'[m] = spc[m] /\ (Expired(m)' <=> Expired(m))
    BY <1>1, <2>1 DEF Expired, TypeOK
  <2>6. NoSilentLoss'
    BY <1>1, <2>2, <2>5 DEF NoSilentLoss
  <2>7. IndexNotStale'
    BY <1>1, <2>1, <2>2 DEF IndexNotStale
  <2> QED BY <1>2, <2>2, <2>4, <2>6, <2>7
<1>4. CASE ~Acceptable(n)
  <2>1. UNCHANGED <<listVars, sched, validity>> /\ spc' = [spc EXCEPT ![n] = "error"]
    BY <1>4 DEF Save
  <2>2. Stored' = Stored /\ \A m : Expired(m)' <=> Expired(m)
    BY <1>1, <2>1 DEF Stored, InList, Expired
  <2>3. TypeOK'
    BY <1>1, <2>1 DEF TypeOK
  <2>4. spc'[n] = "error" /\ \A m \in Messages \ {n} : spc'[m] = spc[m]
    BY <2>1 DEF TypeOK
  <2>5. ListedWasSaved'
    BY <1>1, <2>1, <2>4, ListsType DEF ListedWasSaved
  <2>6. NoSilentLoss' /\ IndexNotStale'
    BY <1>1, <2>1, <2>2, <2>4 DEF NoSilentLoss, IndexNotStale
  <2> QED BY <1>2, <2>3, <2>5, <2>6
<1> QED BY <1>3, <1>4

\* cancel_message
LEMMA CancelInv ==
    ASSUME MemoryInv, NEW c \in Cancels, CancelMessage(c)
    PROVE  MemoryInv'
<1> USE DEF MemoryInv
<1> DEFINE gone == {m \in Stored : Matches(c, m)}
<1>1. /\ UNCHANGED <<now, fieldVars, spc, rpc, loopVars>> /\ cpc[c] = "idle" /\ Remove(gone)
      /\ canceled' = [canceled EXCEPT ![c] = gone]
      /\ cpc' = [cpc EXCEPT ![c] = IF gone # {} THEN "true" ELSE "false"]
  BY DEF CancelMessage
<1>2. gone \subseteq Messages
  BY StoredAt, ListsType
<1> HIDE DEF gone
<1>3. /\ ListsOK' /\ ListedWasSaved' /\ Stored' = Stored \ gone
      /\ user_message_ids' \subseteq Users \X Ids
      /\ \A x \in user_message_ids' :
            x \in user_message_ids /\ \A m \in gone : x # <<Attr[m].user, Attr[m].id>>
  BY <1>1, RemoveShrinks
<1>4. TypeOK'
  <2>1. canceled' \in [Cancels -> SUBSET Messages]
    BY <1>1, <1>2 DEF TypeOK
  <2>2. cpc' \in [Cancels -> {"idle", "true", "false"}]
    BY <1>1 DEF TypeOK
  <2> QED BY <1>1, <1>3, <2>1, <2>2 DEF TypeOK, ListsOK
<1>5. HandlingFailed'
  BY <1>1 DEF HandlingFailed
<1>6. \A d \in Cancels : cpc[d] = "true" => cpc'[d] = "true" /\ canceled'[d] = canceled[d]
  BY <1>1 DEF TypeOK
<1>7. \A m \in gone : cpc'[c] = "true" /\ m \in canceled'[c]
  BY <1>1 DEF TypeOK
<1>8. NoSilentLoss' /\ IndexNotStale'
  BY <1>1, <1>3, <1>6, <1>7, RemoveKeeps
<1> QED BY <1>3, <1>4, <1>5, <1>8

\* replace_message changes only what is stored, so nothing that is gone for its validity.
LEMMA ReplaceInv ==
    ASSUME MemoryInv, NEW p \in Replaces, ReplaceMessage(p)
    PROVE  MemoryInv'
<1> USE DEF MemoryInv
<1> DEFINE u == Update[p]
           hits == IF u.id = NoField THEN {}
                   ELSE {m \in InList(u.id) : u.source \in {NoField, Attr[m].source}}
<1>1. /\ UNCHANGED <<now, listVars, spc, cpc, canceled, loopVars>>
      /\ rpc' \in [Replaces -> {"idle", "true", "error"}]
      /\ text' = [m \in Messages |-> IF m \in hits THEN p ELSE text[m]]
      /\ sched' = [m \in Messages |-> IF m \in hits /\ u.sched # NoTime THEN u.sched ELSE sched[m]]
      /\ validity' = [m \in Messages |->
                         IF m \in hits /\ u.validity # NoTime THEN u.validity ELSE validity[m]]
  BY DEF ReplaceMessage, TypeOK
<1>2. hits \subseteq Stored
  BY Fields DEF Stored
<1> HIDE DEF hits
<1>3. Stored' = Stored
  BY <1>1 DEF Stored, InList
<1>4. TypeOK'
  <2>1. sched' \in [Messages -> Int] /\ validity' \in [Messages -> Int]
    BY <1>1, Fields DEF TypeOK
  <2>2. text' \in [Messages -> Messages \cup Replaces]
    BY <1>1 DEF TypeOK
  <2> QED BY <1>1, <2>1, <2>2 DEF TypeOK
<1>5. ListedWasSaved' /\ HandlingFailed'
  BY <1>1 DEF ListedWasSaved, HandlingFailed
<1>6. \A m \in Messages : m \notin Stored => (Expired(m)' <=> Expired(m))
  BY <1>1, <1>2 DEF Expired
<1>7. NoSilentLoss'
  BY <1>1, <1>3, <1>6 DEF NoSilentLoss
<1>8. IndexNotStale'
  BY <1>1, <1>3 DEF IndexNotStale
<1> QED BY <1>4, <1>5, <1>7, <1>8

\* clean_expired_messages
LEMMA CleanInv ==
    ASSUME MemoryInv, CleanExpired
    PROVE  MemoryInv'
<1> USE DEF MemoryInv
<1> DEFINE gone == {m \in Stored : Expired(m)}
<1>1. UNCHANGED <<now, fieldVars, resultVars, loopVars>> /\ Remove(gone)
  BY DEF CleanExpired
<1>2. \A m \in gone : Expired(m)
  OBVIOUS
<1> HIDE DEF gone
<1>3. /\ ListsOK' /\ ListedWasSaved' /\ Stored' = Stored \ gone
      /\ user_message_ids' \subseteq Users \X Ids
      /\ \A x \in user_message_ids' :
            x \in user_message_ids /\ \A m \in gone : x # <<Attr[m].user, Attr[m].id>>
  BY <1>1, RemoveShrinks
<1>4. TypeOK'
  BY <1>1, <1>3 DEF TypeOK, ListsOK
<1>5. HandlingFailed'
  BY <1>1 DEF HandlingFailed
<1>6. NoSilentLoss' /\ IndexNotStale'
  BY <1>1, <1>2, <1>3, RemoveKeeps
<1> QED BY <1>3, <1>4, <1>5, <1>6

\* get_delivery_messages discards only what is past its validity.
LEMMA FetchInv ==
    ASSUME MemoryInv, FetchDue
    PROVE  MemoryInv'
<1> USE DEF MemoryInv
<1> DEFINE last(i) == CHOOSE k \in Candidates(i) : \A j \in Candidates(i) : j <= k
           passed(i) == {k \in DOMAIN messages[i] : Candidates(i) = {} \/ k > last(i)}
           late == UNION {{m \in {messages[i][k] : k \in passed(i)} : IsDue(m) /\ Expired(m)} :
                             i \in Ids}
<1>1. /\ UNCHANGED <<now, fieldVars, resultVars, handling, delivered, failed, handlerErrors>>
      /\ Remove(late)
      /\ due' = {[id |-> i, pos |-> last(i), msg |-> messages[i][last(i)]] :
                    i \in {j \in Ids : Candidates(j) # {}}}
      /\ lpc' \in {"wait", "deliver"}
  BY DEF FetchDue
<1>2. \A m \in late : Expired(m)
  OBVIOUS
<1>3. ASSUME NEW i \in Ids, Candidates(i) # {}
      PROVE  last(i) \in Nat /\ messages[i][last(i)] \in Messages
  <2>1. /\ Len(messages[i]) \in Nat /\ DOMAIN messages[i] = 1 .. Len(messages[i])
        /\ \A k \in 1 .. Len(messages[i]) : messages[i][k] \in Messages
    BY ListsType
  <2>2. Candidates(i) \in SUBSET (1 .. Len(messages[i]))
    BY <2>1 DEF Candidates
  <2>3. \E k \in Candidates(i) : \A j \in Candidates(i) : j <= k
    BY <1>3, <2>1, <2>2, Largest
  <2>4. last(i) \in Candidates(i)
    BY <2>3
  <2> HIDE DEF last
  <2> QED BY <2>1, <2>2, <2>4
<1>4. due' \subseteq [id : Ids, pos : Nat, msg : Messages]
  <2> HIDE DEF last
  <2> QED BY <1>1, <1>3
<1> HIDE DEF late
<1>5. /\ ListsOK' /\ ListedWasSaved' /\ Stored' = Stored \ late
      /\ user_message_ids' \subseteq Users \X Ids
      /\ \A x \in user_message_ids' :
            x \in user_message_ids /\ \A m \in late : x # <<Attr[m].user, Attr[m].id>>
  BY <1>1, RemoveShrinks
<1>6. TypeOK'
  <2>1. due' \cup handling' \subseteq [id : Ids, pos : Nat, msg : Messages]
    BY <1>1, <1>4 DEF TypeOK
  <2> HIDE DEF last
  <2> QED BY <1>1, <1>5, <2>1 DEF TypeOK, ListsOK
<1>7. HandlingFailed'
  BY <1>1 DEF HandlingFailed
<1>8. NoSilentLoss' /\ IndexNotStale'
  <2>1. UNCHANGED <<now, spc, validity, cpc, canceled, failed>>
    BY <1>1
  <2> QED BY <1>1, <1>2, <1>5, <2>1, RemoveKeeps
<1> QED BY <1>5, <1>6, <1>7, <1>8

\* remove_message_by_id removes at most one message, of the id the handler failed for. The
\* index keeps its entry: it is stale from then on.
LEMMA RemoveFailedInv ==
    ASSUME MemoryInv, RemoveFailed
    PROVE  MemoryInv'
<1> USE DEF MemoryInv
<1>1. /\ UNCHANGED <<now, user_message_ids, fieldVars, resultVars, due, delivered, failed,
                     handlerErrors>>
      /\ handling' = {} /\ lpc' \in {"wait", "deliver", "dead"}
  BY DEF RemoveFailed
<1>2. PICK d \in handling :
         messages' = [messages EXCEPT ![d.id] =
             IF d.pos \in DOMAIN messages[d.id]
             THEN SubSeq(messages[d.id], 1, d.pos - 1)
                      \o SubSeq(messages[d.id], d.pos + 1, Len(messages[d.id]))
             ELSE messages[d.id]]
  BY DEF RemoveFailed
<1> DEFINE h == d.id
           s == messages[h]
           p == d.pos
           cut == SubSeq(s, 1, p - 1) \o SubSeq(s, p + 1, Len(s))
<1>3. h \in Ids /\ h \in failed /\ messages \in [Ids -> Seq(Messages)]
  BY DEF TypeOK, HandlingFailed
<1>4. /\ s \in Seq(Messages) /\ DOMAIN s = 1 .. Len(s)
      /\ \A j, k \in 1 .. Len(s) : s[j] = s[k] => j = k
  BY <1>3, ListsType
<1>5. \E gone : /\ \A m \in gone : Attr[m].id \in failed
                /\ ListsOK' /\ ListedWasSaved'
                /\ Stored' = Stored \ gone
  <2>1. CASE p \in 1 .. Len(s)
    <3> DEFINE g == [i \in Ids |-> IF i = h THEN cut ELSE messages[i]]
    <3>1. messages' = [i \in Ids |-> g[i]]
      BY <1>2, <1>3, <1>4, <2>1
    <3>2. Filtered(s, {s[p]}, Len(s), cut)
      BY <1>4, <2>1, CutFilters
    <3>3. Attr[s[p]].id = h
      BY <1>3, <2>1 DEF ListedWasSaved
    <3>4. ASSUME NEW i \in Ids PROVE Filtered(messages[i], {s[p]}, Len(messages[i]), g[i])
      <4>1. CASE i = h
        BY <3>2, <4>1
      <4>2. CASE i # h
        <5>1. \A k \in 1 .. Len(messages[i]) : messages[i][k] # s[p]
          BY <3>3, <4>2 DEF ListedWasSaved
        <5>2. g[i] = messages[i]
          BY <4>2
        <5> HIDE DEF g, s, p, h
        <5> QED BY <5>1, <5>2, ListsType DEF Filtered
      <4> QED BY <4>1, <4>2
    <3> DEFINE gone == {s[p]}
    <3>5. \A m \in gone : Attr[m].id \in failed
      BY <1>3, <3>3
    <3> HIDE DEF g
    <3>6. \A i \in Ids : Filtered(messages[i], gone, Len(messages[i]), g[i])
      BY <3>4
    <3> HIDE DEF gone
    <3>7. /\ ListsOK' /\ ListedWasSaved'
          /\ \A m : (\E i \in Ids : \E k \in 1 .. Len(messages'[i]) : messages'[i][k] = m)
                        <=> m \in Stored /\ m \notin gone
      BY <1>1, <3>1, <3>6, Shrinks
    <3>8. Stored' = Stored \ gone
      BY <3>7, StoredAfter
    <3> QED BY <3>5, <3>7, <3>8
  <2>2. CASE p \notin 1 .. Len(s)
    <3>1. UNCHANGED messages
      BY <1>2, <1>3, <1>4, <2>2
    <3>2. Stored' = Stored \ {}
      BY <3>1 DEF Stored, InList
    <3>3. ListsOK' /\ ListedWasSaved'
      BY <1>1, <3>1 DEF TypeOK, ListsOK, ListedWasSaved
    <3> QED BY <3>2, <3>3
  <2> QED BY <2>1, <2>2
<1> HIDE DEF h, s, p, cut
<1>6. PICK gone : /\ \A m \in gone : Attr[m].id \in failed
                  /\ ListsOK' /\ ListedWasSaved'
                  /\ Stored' = Stored \ gone
  BY <1>5
<1>7. TypeOK'
  BY <1>1, <1>6 DEF TypeOK, ListsOK
<1>8. HandlingFailed'
  BY <1>1 DEF HandlingFailed
<1>9. \A m : Expired(m)' <=> Expired(m)
  BY <1>1 DEF Expired
<1>10. NoSilentLoss'
  BY <1>1, <1>6, <1>9 DEF NoSilentLoss
<1>11. IndexNotStale'
  BY <1>1, <1>6 DEF IndexNotStale
<1> QED BY <1>6, <1>7, <1>8, <1>10, <1>11
-----------------------------------------------------------------------------
(***************************************************************************)
(* The theorems.                                                           *)
(***************************************************************************)

\* MemoryInv holds in every reachable state.
THEOREM MemoryInvariant == Spec => []MemoryInv
<1>1. MemoryInv /\ [Next]_vars => MemoryInv'
  BY QuietInv, SaveInv, CancelInv, ReplaceInv, CleanInv, FetchInv, RemoveFailedInv DEF Next, LoopStep
<1> QED BY <1>1, MemoryInit, PTL DEF Spec

\* TypeOK: every variable of the store keeps its type, and no list holds a message twice.
THEOREM MemoryTypeCorrect == Spec => []TypeOK
<1>1. MemoryInv => TypeOK
  BY DEF MemoryInv
<1> QED BY <1>1, MemoryInvariant, PTL

\* NoSilentLoss: what save accepted leaves the store for one of three reasons only, also when
\* remove_message_by_id removes by a position that is out of date.
THEOREM MemoryNoLoss == Spec => []NoSilentLoss
<1>1. MemoryInv => NoSilentLoss
  BY DEF MemoryInv
<1> QED BY <1>1, MemoryInvariant, PTL

\* IndexNotStale: user_message_ids names what is stored, or an id the handler failed for.
THEOREM MemoryIndex == Spec => []IndexNotStale
<1>1. MemoryInv => IndexNotStale
  BY DEF MemoryInv
<1> QED BY <1>1, MemoryInvariant, PTL
=============================================================================
