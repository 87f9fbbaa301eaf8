--------------------------- MODULE BuffersProofs ---------------------------
(***************************************************************************)
(* What the operators on buffers compute, for any sizes and any sequence   *)
(* of buffers.  Where the library's induction theorems take the hypothesis *)
(* as an operator, NatByInduction takes the set of the numbers it holds    *)
(* for.                                                                    *)
(***************************************************************************)
EXTENDS Buffers, WellFoundedInduction, TLAPS

\* A set of naturals that holds 0 and the successor of each member holds all.
LEMMA NatByInduction ==
    ASSUME NEW S, 0 \in S, \A n \in Nat : n \in S => n + 1 \in S
    PROVE  Nat \subseteq S
<1> DEFINE R == OpToRel(<, Nat)
           T == Nat \ S
<1>1. SUFFICES ASSUME T # {} PROVE FALSE
  BY Zenon
<1>2. IsWellFoundedOn(R, Nat)
  BY NatLessThanWellFounded, Zenon
<1>3. PICK x \in T : \A y \in T : ~ (<<y, x>> \in R)
  <2> HIDE DEF R
  <2> T \subseteq Nat
    OBVIOUS
  <2> HIDE DEF T
  <2> QED BY <1>1, <1>2, WFMin, Zenon
<1>4. x # 0 /\ x - 1 \in Nat /\ x \in Nat
  OBVIOUS
<1>5. x - 1 \in T
  BY <1>4
<1>6. <<x - 1, x>> \in R
  BY <1>4 DEF OpToRel
<1> QED BY <1>3, <1>5, <1>6, Zenon

\* f holds the sums of the first 0, 1, ..., n elements of s.
ArePartialSums(s, n, f) ==
    /\ f \in [0 .. n -> Int]
    /\ f[0] = 0
    /\ \A i \in 1 .. n : f[i] = f[i - 1] + s[i]

\* The recursion that defines PartialSums has a solution.
LEMMA PartialSumsExist ==
    ASSUME NEW s \in Seq(Int)
    PROVE  \A n \in 0 .. Len(s) : \E f : ArePartialSums(s, n, f)
<1> DEFINE T == {n \in Nat : n <= Len(s) => \E f : ArePartialSums(s, n, f)}
<1>1. 0 \in T
  <2>1. ArePartialSums(s, 0, [i \in 0 .. 0 |-> 0])
    BY DEF ArePartialSums
  <2> QED BY <2>1, Zenon
<1>2. ASSUME NEW n \in Nat, n \in T PROVE n + 1 \in T
  <2>1. SUFFICES ASSUME n + 1 <= Len(s) PROVE \E f : ArePartialSums(s, n + 1, f)
    OBVIOUS
  <2>2. PICK f : ArePartialSums(s, n, f)
    BY <1>2, <2>1
  <2> DEFINE g == [i \in 0 .. n + 1 |-> IF i = n + 1 THEN f[n] + s[n + 1] ELSE f[i]]
  <2>3. s[n + 1] \in Int
    BY <2>1
  <2>4. f[n] \in Int /\ f \in [0 .. n -> Int]
    BY <2>2 DEF ArePartialSums
  <2>5. g \in [0 .. n + 1 -> Int]
    BY <2>3, <2>4
  <2>6. g[0] = 0
    BY <2>2 DEF ArePartialSums
  <2>7. ASSUME NEW i \in 1 .. n + 1 PROVE g[i] = g[i - 1] + s[i]
    <3>1. CASE i = n + 1
      BY <3>1
    <3>2. CASE i # n + 1
      <4>1. i \in 1 .. n /\ i - 1 \in 0 .. n
        BY <3>2
      <4> QED BY <4>1, <2>2 DEF ArePartialSums
    <3> QED BY <3>1, <3>2, Zenon
  <2>8. ArePartialSums(s, n + 1, g)
    <3> HIDE DEF g
    <3> QED BY <2>5, <2>6, <2>7, Zenon DEF ArePartialSums
  <2> QED BY <2>8, Zenon
<1>3. Nat \subseteq T
  <2> HIDE DEF T
  <2> QED BY <1>1, <1>2, NatByInduction, Zenon
<1> QED BY <1>3

\* ... and only one.
LEMMA PartialSumsUnique ==
    ASSUME NEW s, NEW n \in Nat, NEW f, NEW g,
           ArePartialSums(s, n, f), ArePartialSums(s, n, g)
    PROVE  f = g
<1> DEFINE T == {i \in Nat : i <= n => f[i] = g[i]}
<1>1. 0 \in T
  BY Zenon DEF ArePartialSums
<1>2. ASSUME NEW i \in Nat, i \in T PROVE i + 1 \in T
  BY <1>2 DEF ArePartialSums
<1>3. Nat \subseteq T
  <2> HIDE DEF T
  <2> QED BY <1>1, <1>2, NatByInduction, Zenon
<1>4. \A i \in 0 .. n : f[i] = g[i]
  BY <1>3
<1> QED BY <1>4 DEF ArePartialSums

\* PartialSums is that solution.
LEMMA PartialSumsDef ==
    ASSUME NEW s \in Seq(Int)
    PROVE  ArePartialSums(s, Len(s), PartialSums(s))
<1>1. PICK f : ArePartialSums(s, Len(s), f)
  BY PartialSumsExist
<1>2. f = [n \in 0 .. Len(s) |-> IF n = 0 THEN 0 ELSE f[n - 1] + s[n]]
  BY <1>1 DEF ArePartialSums
<1> DEFINE g == PartialSums(s)
<1>3. g = [n \in 0 .. Len(s) |-> IF n = 0 THEN 0 ELSE g[n - 1] + s[n]]
  BY <1>2, Zenon DEF PartialSums
<1> HIDE DEF g
<1> DEFINE T == {i \in Nat : i <= Len(s) => g[i] \in Int}
<1>4. 0 \in T
  BY <1>3
<1>5. ASSUME NEW i \in Nat, i \in T PROVE i + 1 \in T
  <2>1. SUFFICES ASSUME i + 1 <= Len(s) PROVE g[i + 1] \in Int
    OBVIOUS
  <2>2. g[i] \in Int /\ s[i + 1] \in Int
    BY <1>5, <2>1
  <2>3. g[i + 1] = g[i] + s[i + 1]
    BY <1>3, <2>1
  <2> QED BY <2>2, <2>3
<1>6. Nat \subseteq T
  <2> HIDE DEF T
  <2> QED BY <1>4, <1>5, NatByInduction, Zenon
<1>7. g \in [0 .. Len(s) -> Int]
  BY <1>3, <1>6, SMTT(30)
<1>8. g[0] = 0
  BY <1>3
<1>9. ASSUME NEW i \in 1 .. Len(s) PROVE g[i] = g[i - 1] + s[i]
  <2>1. i \in 0 .. Len(s) /\ i # 0
    OBVIOUS
  <2> QED BY <1>3, <2>1, Zenon
<1>10. ArePartialSums(s, Len(s), g)
  BY <1>7, <1>8, <1>9, Zenon DEF ArePartialSums
<1> QED BY <1>10, Zenon DEF g

-----------------------------------------------------------------------------
(* The facts the proofs about the endpoints use. *)

\* Nothing adds up to zero.
LEMMA TotalEmpty == TotalOf(<<>>) = 0
<1>1. <<>> \in Seq(Int) /\ Len(<<>>) = 0
  OBVIOUS
<1>2. ArePartialSums(<<>>, 0, PartialSums(<<>>))
  BY <1>1, PartialSumsDef, Zenon
<1> QED BY <1>1, <1>2, Zenon DEF ArePartialSums, TotalOf

\* An entry at the end adds itself to the total.
LEMMA TotalAppend ==
    ASSUME NEW s \in Seq(Int), NEW x \in Int
    PROVE  TotalOf(Append(s, x)) = TotalOf(s) + x
<1> DEFINE a == Append(s, x)
           f == PartialSums(a)
           n == Len(s)
           g == [i \in 0 .. n |-> f[i]]
<1>1. a \in Seq(Int) /\ Len(a) = n + 1 /\ n \in Nat /\ a[n + 1] = x
      /\ \A i \in 1 .. n : a[i] = s[i]
  OBVIOUS
<1> HIDE DEF a
<1>2. ArePartialSums(a, n + 1, f)
  BY <1>1, PartialSumsDef, Zenon
<1> HIDE DEF f
<1>3. ArePartialSums(s, n, g)
  <2>1. f \in [0 .. n + 1 -> Int] /\ f[0] = 0
        /\ \A i \in 1 .. n : f[i] = f[i - 1] + s[i]
    BY <1>1, <1>2 DEF ArePartialSums
  <2>2. \A i \in 0 .. n : g[i] = f[i]
    BY Zenon
  <2>3. g \in [0 .. n -> Int]
    BY <1>1, <2>1
  <2>4. \A i \in 1 .. n : g[i] = g[i - 1] + s[i]
    BY <1>1, <2>1, <2>2
  <2> HIDE DEF g
  <2> QED BY <1>1, <2>1, <2>2, <2>3, <2>4 DEF ArePartialSums
<1>4. PartialSums(s) = g
  BY <1>1, <1>3, PartialSumsDef, PartialSumsUnique, Zenon
<1>5. TotalOf(s) = f[n]
  BY <1>1, <1>4 DEF TotalOf
<1>6. TotalOf(a) = f[n + 1]
  BY <1>1, Zenon DEF TotalOf, f
<1>7. f[n + 1] = f[n] + x
  BY <1>1, <1>2 DEF ArePartialSums
<1> QED BY <1>5, <1>6, <1>7, Zenon DEF a

\* The total is the first entry and the total of the rest.
LEMMA TotalTail ==
    ASSUME NEW s \in Seq(Int), s # <<>>
    PROVE  TotalOf(s) = Head(s) + TotalOf(Tail(s))
<1> DEFINE a == Tail(s)
           f == PartialSums(s)
           n == Len(a)
           g == [i \in 0 .. n |-> f[i + 1] - s[1]]
<1>1. a \in Seq(Int) /\ Len(s) = n + 1 /\ n \in Nat /\ Head(s) = s[1] /\ s[1] \in Int
      /\ \A i \in 1 .. n : a[i] = s[i + 1] /\ a[i] \in Int
  OBVIOUS
<1> HIDE DEF a
<1>2. ArePartialSums(s, n + 1, f)
  BY <1>1, PartialSumsDef, Zenon
<1> HIDE DEF f
<1>3. ArePartialSums(a, n, g)
  <2> HIDE DEF n
  <2>1. f \in [0 .. n + 1 -> Int] /\ f[1] = s[1]
        /\ \A i \in 1 .. n : f[i + 1] = f[i] + a[i]
    <3>1. \A i \in 1 .. n : i + 1 \in 1 .. n + 1 /\ (i + 1) - 1 = i
      BY <1>1
    <3>2. \A i \in 1 .. n : f[i + 1] = f[i] + s[i + 1]
      BY <1>2, <3>1, Zenon DEF ArePartialSums
    <3>3. f \in [0 .. n + 1 -> Int] /\ f[1] = s[1]
      BY <1>1, <1>2 DEF ArePartialSums
    <3> QED BY <1>1, <3>2, <3>3, Zenon
  <2>2. \A i \in 0 .. n : i + 1 \in 0 .. n + 1 /\ f[i + 1] \in Int
    BY <1>1, <2>1
  <2>3. g \in [0 .. n -> Int] /\ \A i \in 0 .. n : g[i] = f[i + 1] - s[1]
    BY <1>1, <2>2
  <2> HIDE DEF g
  <2>4. ASSUME NEW i \in 1 .. n PROVE g[i] = g[i - 1] + a[i]
    <3>1. i \in 0 .. n /\ i - 1 \in 0 .. n /\ (i - 1) + 1 = i
      BY <1>1
    <3>2. g[i] = f[i + 1] - s[1] /\ g[i - 1] = f[i] - s[1]
      BY <2>3, <3>1, Zenon
    <3>3. f[i] \in Int
      BY <2>2, <3>1, Zenon
    <3>4. f[i + 1] = f[i] + a[i]
      BY <2>1, Zenon
    <3>5. a[i] \in Int /\ s[1] \in Int
      BY <1>1, Zenon
    <3> QED BY <3>2, <3>3, <3>4, <3>5
  <2>5. g[0] = 0
    BY <1>1, <2>1, <2>3
  <2> QED BY <1>1, <2>3, <2>4, <2>5, Zenon DEF ArePartialSums
<1>4. PartialSums(a) = g
  BY <1>1, <1>3, PartialSumsDef, PartialSumsUnique, Zenon
<1>5. TotalOf(a) = f[n + 1] - s[1]
  BY <1>1, <1>4 DEF TotalOf
<1>6. TotalOf(s) = f[n + 1] /\ f[n + 1] \in Int
  BY <1>1, <1>2 DEF TotalOf, f, ArePartialSums
<1> QED BY <1>1, <1>5, <1>6 DEF a

\* A sum of sizes is not negative.
LEMMA TotalNat ==
    ASSUME NEW s \in Seq(Nat)
    PROVE  TotalOf(s) \in Nat
<1> DEFINE f == PartialSums(s)
           T == {i \in Nat : i <= Len(s) => f[i] \in Nat}
<1>1. s \in Seq(Int)
  OBVIOUS
<1>2. ArePartialSums(s, Len(s), f)
  BY <1>1, PartialSumsDef, Zenon
<1> HIDE DEF f
<1>3. 0 \in T
  BY <1>2 DEF ArePartialSums
<1>4. ASSUME NEW i \in Nat, i \in T PROVE i + 1 \in T
  BY <1>2, <1>4 DEF ArePartialSums
<1>5. Nat \subseteq T
  <2> HIDE DEF T
  <2> QED BY <1>3, <1>4, NatByInduction, Zenon
<1> QED BY <1>5 DEF TotalOf, f

\* Sums of larger numbers are larger.
LEMMA TotalMonotonic ==
    ASSUME NEW s \in Seq(Int), NEW r \in Seq(Int), Len(r) = Len(s),
           \A i \in 1 .. Len(s) : s[i] <= r[i]
    PROVE  TotalOf(s) <= TotalOf(r)
<1> DEFINE f == PartialSums(s)
           g == PartialSums(r)
           T == {i \in Nat : i <= Len(s) => f[i] <= g[i]}
<1>1. ArePartialSums(s, Len(s), f) /\ ArePartialSums(r, Len(s), g)
  BY PartialSumsDef, Zenon
<1> HIDE DEF f, g
<1>2. 0 \in T
  BY <1>1 DEF ArePartialSums
<1>3. ASSUME NEW i \in Nat, i \in T PROVE i + 1 \in T
  <2>1. SUFFICES ASSUME i + 1 <= Len(s) PROVE f[i + 1] <= g[i + 1]
    OBVIOUS
  <2>2. i + 1 \in 1 .. Len(s) /\ i \in 0 .. Len(s) /\ (i + 1) - 1 = i
    BY <2>1
  <2>3. /\ f[i + 1] = f[i] + s[i + 1] /\ g[i + 1] = g[i] + r[i + 1]
        /\ f[i] \in Int /\ g[i] \in Int
    BY <1>1, <2>2, Zenon DEF ArePartialSums
  <2>4. s[i + 1] \in Int /\ r[i + 1] \in Int /\ s[i + 1] <= r[i + 1] /\ f[i] <= g[i]
    BY <1>3, <2>1, <2>2
  <2> QED BY <2>3, <2>4
<1>4. Nat \subseteq T
  <2> HIDE DEF T
  <2> QED BY <1>2, <1>3, NatByInduction, Zenon
<1> QED BY <1>4 DEF TotalOf, f, g

-----------------------------------------------------------------------------
(* Messages and cookies *)

\* Sequences of the same length with the same entries are the same.
LEMMA SameSequence ==
    ASSUME NEW S, NEW s \in Seq(S), NEW r \in Seq(S), Len(s) = Len(r),
           \A i \in 1 .. Len(r) : s[i] = r[i]
    PROVE  s = r
OBVIOUS

\* A sequence with a length has an entry.
LEMMA NotEmpty == ASSUME NEW S, NEW s \in Seq(S), Len(s) > 0 PROVE s # <<>>
OBVIOUS

\* What is left when the first of a sequence is removed.
LEMMA TailParts ==
    ASSUME NEW S, NEW s \in Seq(S), s # <<>>
    PROVE  /\ Tail(s) \in Seq(S) /\ Len(Tail(s)) = Len(s) - 1
           /\ \A k \in 1 .. Len(s) - 1 : Tail(s)[k] = s[k + 1]
           /\ Len(s) = 1 => Tail(s) = <<>>
           /\ Len(s) > 1 => Tail(s) # <<>>
<1> DEFINE r == Tail(s)
<1>1. r \in Seq(S) /\ Len(r) = Len(s) - 1 /\ Len(s) \in Nat
  OBVIOUS
<1>2. \A k \in 1 .. Len(s) - 1 : r[k] = s[k + 1]
  OBVIOUS
<1> HIDE DEF r
<1>3. (Len(s) = 1 => r = <<>>) /\ (Len(s) > 1 => r # <<>>)
  BY <1>1
<1> QED BY <1>1, <1>2, <1>3, Zenon DEF r

\* A magic cookie is no message and has a size.
LEMMA CookieType == Cookie \notin Message /\ Cookie.size \in Nat
BY SizesAssumption, Zenon DEF Cookie, Message

\* A buffer is a sequence of messages and cookies.
LEMMA BufferSeq == ASSUME NEW b \in Buffer PROVE b \in Seq(Message \cup {Cookie})
BY Zenon DEF Buffer

\* The number of cookies that lead a buffer is unique.
LEMMA CookiesIs ==
    ASSUME NEW b \in Seq(Message \cup {Cookie}), NEW n \in 0 .. Len(b), LedBy(b, n)
    PROVE  b \in Buffer /\ Cookies(b) = n
<1>1. ASSUME NEW m \in 0 .. Len(b), LedBy(b, m) PROVE m = n
  <2>1. Len(b) \in Nat
    OBVIOUS
  <2>2. CASE m < n
    <3>1. m + 1 \in 1 .. n /\ m + 1 \in m + 1 .. Len(b)
      BY <2>1, <2>2
    <3> QED BY <1>1, <3>1, Zenon DEF LedBy
  <2>3. CASE n < m
    <3>1. n + 1 \in 1 .. m /\ n + 1 \in n + 1 .. Len(b)
      BY <2>1, <2>3
    <3> QED BY <1>1, <3>1, Zenon DEF LedBy
  <2> QED BY <2>1, <2>2, <2>3
<1> QED BY <1>1, Zenon DEF Cookies, Buffer

\* A buffer is led by its cookies.
LEMMA CookiesLead ==
    ASSUME NEW b \in Buffer
    PROVE  Cookies(b) \in 0 .. Len(b) /\ LedBy(b, Cookies(b))
<1>1. PICK n \in 0 .. Len(b) : LedBy(b, n)
  BY Zenon DEF Buffer
<1> QED BY <1>1, CookiesIs, BufferSeq, Zenon

\* The numbers of a buffer's messages.
LEMMA IdsType == ASSUME NEW b \in Buffer PROVE Ids(b) \in Seq(Nat \ {0})
<1> DEFINE n == Cookies(b)
<1>1. n \in 0 .. Len(b) /\ LedBy(b, n) /\ Len(b) \in Nat
      /\ b \in Seq(Message \cup {Cookie})
  BY CookiesLead, BufferSeq
<1> HIDE DEF n
<1>2. ASSUME NEW k \in 1 .. Len(b) - n PROVE b[n + k].id \in Nat \ {0}
  <2>1. n + k \in n + 1 .. Len(b) /\ n + k \in 1 .. Len(b)
    BY <1>1
  <2>2. b[n + k] \in Message
    BY <1>1, <2>1 DEF LedBy
  <2> QED BY <2>2, Zenon DEF Message
<1>3. Len(b) - n \in Nat
  BY <1>1
<1>4. [k \in 1 .. Len(b) - n |-> b[n + k].id] \in Seq(Nat \ {0})
  BY <1>2, <1>3
<1> QED BY <1>4, Zenon DEF Ids, n

\* The empty buffer carries no message.
LEMMA EmptyBuffer == <<>> \in Buffer /\ Ids(<<>>) = <<>>
<1>1. <<>> \in Seq(Message \cup {Cookie}) /\ Len(<<>>) = 0 /\ 0 \in 0 .. Len(<<>>)
      /\ LedBy(<<>>, 0)
  BY DEF LedBy
<1>2. <<>> \in Buffer /\ Cookies(<<>>) = 0
  BY <1>1, CookiesIs, Zenon
<1>3. Ids(<<>>) = [k \in 1 .. 0 |-> <<>>[0 + k].id]
  BY <1>1, <1>2 DEF Ids
<1> QED BY <1>2, <1>3

\* A message put at the end of a buffer comes last.
LEMMA IdsAppend ==
    ASSUME NEW b \in Buffer, NEW m \in Message
    PROVE  Append(b, m) \in Buffer /\ Ids(Append(b, m)) = Append(Ids(b), m.id)
<1> DEFINE n == Cookies(b)
           a == Append(b, m)
<1>1. n \in 0 .. Len(b) /\ LedBy(b, n) /\ Len(b) \in Nat
      /\ b \in Seq(Message \cup {Cookie})
  BY CookiesLead, BufferSeq
<1> HIDE DEF n
<1>2. a \in Seq(Message \cup {Cookie}) /\ Len(a) = Len(b) + 1 /\ a[Len(b) + 1] = m
      /\ \A i \in 1 .. Len(b) : a[i] = b[i]
  BY <1>1
<1> HIDE DEF a
<1>3. m # Cookie
  BY CookieType, Zenon
<1>4. LedBy(a, n)
  <2>1. \A i \in 1 .. n : a[i] = Cookie
    BY <1>1, <1>2 DEF LedBy
  <2>2. ASSUME NEW i \in n + 1 .. Len(a) PROVE a[i] # Cookie
    <3>1. i = Len(b) + 1 \/ i \in n + 1 .. Len(b)
      BY <1>1, <1>2
    <3> QED BY <1>1, <1>2, <1>3, <3>1 DEF LedBy
  <2> QED BY <2>1, <2>2, Zenon DEF LedBy
<1>5. a \in Buffer /\ Cookies(a) = n
  BY <1>1, <1>2, <1>4, CookiesIs
<1>6. Ids(a) \in Seq(Nat \ {0}) /\ Ids(b) \in Seq(Nat \ {0}) /\ m.id \in Nat \ {0}
  BY <1>5, IdsType, Zenon DEF Message
<1>7. Ids(a) = [k \in 1 .. Len(a) - n |-> a[n + k].id]
      /\ Ids(b) = [k \in 1 .. Len(b) - n |-> b[n + k].id]
  BY <1>5, Zenon DEF Ids, n
<1>8. Len(b) - n \in Nat /\ Len(a) - n = Len(b) - n + 1
      /\ Len(Ids(b)) = Len(b) - n /\ Len(Ids(a)) = Len(b) - n + 1
  <2>1. Len(b) - n \in Nat /\ Len(a) - n \in Nat /\ Len(a) - n = Len(b) - n + 1
    BY <1>1, <1>2
  <2>2. DOMAIN Ids(a) = 1 .. Len(a) - n /\ DOMAIN Ids(b) = 1 .. Len(b) - n
    BY <1>7, Zenon
  <2> QED BY <1>6, <2>1, <2>2
<1>9. ASSUME NEW k \in 1 .. Len(b) - n + 1 PROVE Ids(a)[k] = Append(Ids(b), m.id)[k]
  <2>1. CASE k = Len(b) - n + 1
    <3>1. n + k = Len(b) + 1
      BY <1>1, <2>1
    <3>2. Ids(a)[k] = m.id
      BY <1>1, <1>2, <1>7, <3>1
    <3> QED BY <1>6, <1>8, <2>1, <3>2
  <2>2. CASE k # Len(b) - n + 1
    <3>1. k \in 1 .. Len(b) - n /\ n + k \in 1 .. Len(b)
      BY <1>1, <2>2
    <3>2. Ids(a)[k] = b[n + k].id /\ Ids(b)[k] = b[n + k].id
      BY <1>1, <1>2, <1>7, <3>1
    <3> QED BY <1>6, <1>8, <3>1, <3>2
  <2> QED BY <2>1, <2>2, Zenon
<1>10. Ids(a) = Append(Ids(b), m.id)
  BY <1>6, <1>8, <1>9
<1> QED BY <1>5, <1>10, Zenon DEF a

\* A cookie put in front of a buffer leaves its messages as they are.
LEMMA IdsCookie ==
    ASSUME NEW b \in Buffer
    PROVE  <<Cookie>> \o b \in Buffer /\ Ids(<<Cookie>> \o b) = Ids(b)
<1> DEFINE n == Cookies(b)
           a == <<Cookie>> \o b
<1>1. n \in 0 .. Len(b) /\ LedBy(b, n) /\ Len(b) \in Nat
      /\ b \in Seq(Message \cup {Cookie})
  BY CookiesLead, BufferSeq
<1> HIDE DEF n
<1>2. a \in Seq(Message \cup {Cookie}) /\ Len(a) = Len(b) + 1 /\ a[1] = Cookie
      /\ \A i \in 1 .. Len(b) : a[i + 1] = b[i]
  BY <1>1
<1> HIDE DEF a
<1>3. LedBy(a, n + 1)
  <2>1. ASSUME NEW i \in 1 .. n + 1 PROVE a[i] = Cookie
    <3>1. i = 1 \/ (i - 1 \in 1 .. n /\ i - 1 \in 1 .. Len(b) /\ (i - 1) + 1 = i)
      BY <1>1
    <3> QED BY <1>1, <1>2, <3>1, Zenon DEF LedBy
  <2>2. ASSUME NEW i \in (n + 1) + 1 .. Len(a) PROVE a[i] # Cookie
    <3>1. i - 1 \in n + 1 .. Len(b) /\ i - 1 \in 1 .. Len(b) /\ (i - 1) + 1 = i
      BY <1>1, <1>2
    <3> QED BY <1>1, <1>2, <3>1 DEF LedBy
  <2> QED BY <2>1, <2>2, Zenon DEF LedBy
<1>4. n + 1 \in 0 .. Len(a)
  BY <1>1, <1>2
<1>5. a \in Buffer /\ Cookies(a) = n + 1
  BY <1>2, <1>3, <1>4, CookiesIs, Zenon
<1>6. Ids(a) = [k \in 1 .. Len(a) - (n + 1) |-> a[(n + 1) + k].id]
      /\ Ids(b) = [k \in 1 .. Len(b) - n |-> b[n + k].id]
  BY <1>5, Zenon DEF Ids, n
<1>7. Len(a) - (n + 1) = Len(b) - n
  BY <1>1, <1>2
<1>8. ASSUME NEW k \in 1 .. Len(b) - n PROVE a[(n + 1) + k].id = b[n + k].id
  <2>1. n + k \in 1 .. Len(b) /\ (n + 1) + k = (n + k) + 1
    BY <1>1
  <2> QED BY <1>2, <2>1, Zenon
<1> QED BY <1>5, <1>6, <1>7, <1>8, Zenon DEF a

-----------------------------------------------------------------------------
(* Sizes of buffers and queues *)

\* The size of a buffer is a number.
LEMMA BufferSizeNat == ASSUME NEW b \in Buffer PROVE BufferSize(b) \in Nat
<1>1. Sizes \subseteq Nat /\ CookieSize \in Nat
  BY SizesAssumption, Zenon
<1>2. \A m \in Message : m.size \in Nat
  BY <1>1, Zenon DEF Message
<1>3. Cookie.size \in Nat
  BY <1>1, Zenon DEF Cookie
<1>4. \A i \in DOMAIN b : b[i].size \in Nat
  BY <1>2, <1>3, BufferSeq
<1>5. [i \in DOMAIN b |-> b[i].size] \in Seq(Nat)
  BY <1>4, BufferSeq
<1> QED BY <1>5, TotalNat, Zenon DEF BufferSize

\* The size of a queue is a number.
LEMMA QueuedSizeNat ==
    ASSUME NEW q \in Seq(Buffer)
    PROVE  [i \in DOMAIN q |-> BufferSize(q[i])] \in Seq(Nat) /\ QueuedSize(q) \in Nat
<1>1. \A i \in DOMAIN q : BufferSize(q[i]) \in Nat
  BY BufferSizeNat
<1>2. [i \in DOMAIN q |-> BufferSize(q[i])] \in Seq(Nat)
  BY <1>1
<1> QED BY <1>2, TotalNat, Zenon DEF QueuedSize

\* An empty queue has no size.
LEMMA QueuedSizeEmpty == QueuedSize(<<>>) = 0
<1>1. [i \in DOMAIN <<>> |-> BufferSize(<<>>[i])] = <<>>
  OBVIOUS
<1> QED BY <1>1, TotalEmpty, Zenon DEF QueuedSize

\* A buffer put at the end of a queue adds its size.
LEMMA QueuedSizeAppend ==
    ASSUME NEW q \in Seq(Buffer), NEW b \in Buffer
    PROVE  QueuedSize(Append(q, b)) = QueuedSize(q) + BufferSize(b)
<1> DEFINE s == [i \in DOMAIN q |-> BufferSize(q[i])]
           r == [i \in DOMAIN Append(q, b) |-> BufferSize(Append(q, b)[i])]
<1>1. s \in Seq(Int) /\ BufferSize(b) \in Int
  BY QueuedSizeNat, BufferSizeNat
<1>2. r = Append(s, BufferSize(b))
  <2>1. Len(s) = Len(q) /\ DOMAIN s = 1 .. Len(q)
    OBVIOUS
  <2>2. DOMAIN r = 1 .. Len(q) + 1 /\ DOMAIN Append(s, BufferSize(b)) = 1 .. Len(q) + 1
    BY <2>1
  <2>3. \A i \in 1 .. Len(q) + 1 : r[i] = Append(s, BufferSize(b))[i]
    BY <2>1
  <2> QED BY <2>2, <2>3
<1> HIDE DEF s
<1>3. TotalOf(r) = TotalOf(s) + BufferSize(b)
  BY <1>1, <1>2, TotalAppend, Zenon
<1> QED BY <1>3, Zenon DEF QueuedSize, s

\* The size of a queue is that of its front and of the rest.
LEMMA QueuedSizeTail ==
    ASSUME NEW q \in Seq(Buffer), q # <<>>
    PROVE  QueuedSize(q) = BufferSize(Head(q)) + QueuedSize(Tail(q))
<1> DEFINE s == [i \in DOMAIN q |-> BufferSize(q[i])]
           r == [i \in DOMAIN Tail(q) |-> BufferSize(Tail(q)[i])]
<1>1. s \in Seq(Int) /\ s # <<>> /\ Head(s) = BufferSize(Head(q))
  BY QueuedSizeNat
<1>2. r = Tail(s)
  <2>1. Len(s) = Len(q) /\ DOMAIN s = 1 .. Len(q)
    OBVIOUS
  <2>2. DOMAIN r = 1 .. Len(q) - 1 /\ DOMAIN Tail(s) = 1 .. Len(q) - 1
    BY <2>1
  <2>3. \A i \in 1 .. Len(q) - 1 : r[i] = Tail(s)[i]
    BY <2>1
  <2> QED BY <2>2, <2>3
<1> HIDE DEF s
<1>3. TotalOf(s) = Head(s) + TotalOf(r)
  BY <1>1, <1>2, TotalTail, Zenon
<1> QED BY <1>1, <1>3, Zenon DEF QueuedSize, s
-----------------------------------------------------------------------------
(* Runs of message numbers *)

\* Consecutive message numbers; r comes after s; r is s or comes after it.
Consecutive(s) ==
    s \in Seq(Nat \ {0}) /\ s # <<>> /\ \A k \in 1 .. Len(s) : s[k] = s[1] + k - 1
After(s, r) == s[Len(s)] < r[1]
Follows(s, r) == r = s \/ After(s, r)

\* The first and the last number of a run.
LEMMA ConsecutiveEnds ==
    ASSUME NEW s, Consecutive(s)
    PROVE  /\ Len(s) \in Nat /\ Len(s) > 0 /\ s[1] \in Nat /\ s[1] > 0
           /\ s[Len(s)] \in Nat /\ s[Len(s)] = s[1] + Len(s) - 1
           /\ s[1] <= s[Len(s)] /\ s[Len(s)] > 0
<1>1. s \in Seq(Nat \ {0}) /\ s # <<>> /\ \A k \in 1 .. Len(s) : s[k] = s[1] + k - 1
  BY Zenon DEF Consecutive
<1>2. Len(s) \in Nat /\ Len(s) > 0 /\ 1 \in 1 .. Len(s) /\ Len(s) \in 1 .. Len(s)
  BY <1>1
<1>3. s[1] \in Nat \ {0} /\ s[Len(s)] = s[1] + Len(s) - 1
  BY <1>1, <1>2
<1> QED BY <1>2, <1>3

\* One number is a run.
LEMMA ConsecutiveOne == ASSUME NEW n \in Nat \ {0} PROVE Consecutive(<<n>>) /\ <<n>>[1] = n
BY DEF Consecutive

\* A run continued by its next number is a run.
LEMMA ConsecutiveAppend ==
    ASSUME NEW s, Consecutive(s), NEW n \in Nat, n = s[Len(s)] + 1
    PROVE  LET r == Append(s, n) IN Consecutive(r) /\ r[1] = s[1] /\ r[Len(r)] = n
<1> DEFINE r == Append(s, n)
<1>1. /\ Len(s) \in Nat /\ Len(s) > 0 /\ s[1] \in Nat /\ n = s[1] + Len(s) /\ n > 0
      /\ s[1] > 0
  BY ConsecutiveEnds
<1>2. s \in Seq(Nat \ {0}) /\ \A k \in 1 .. Len(s) : s[k] = s[1] + k - 1
  BY Zenon DEF Consecutive
<1>3. r \in Seq(Nat \ {0}) /\ Len(r) = Len(s) + 1 /\ r[Len(s) + 1] = n
      /\ \A k \in 1 .. Len(s) : r[k] = s[k]
  BY <1>1, <1>2
<1> HIDE DEF r
<1>4. r # <<>> /\ r[1] = s[1]
  BY <1>1, <1>3
<1>5. ASSUME NEW k \in 1 .. Len(r) PROVE r[k] = r[1] + k - 1
  <2>1. CASE k = Len(s) + 1
    BY <1>1, <1>3, <1>4, <2>1
  <2>2. CASE k \in 1 .. Len(s)
    BY <1>2, <1>3, <1>4, <2>2, Zenon
  <2> QED BY <1>1, <1>3, <2>1, <2>2
<1>6. Consecutive(r)
  BY <1>3, <1>4, <1>5, Zenon DEF Consecutive
<1>7. r[Len(r)] = n
  BY <1>3, Zenon
<1> QED BY <1>4, <1>6, <1>7, Zenon DEF r

\* Orders of consecutive numbers compose.
LEMMA AfterTrans ==
    ASSUME NEW a, NEW b, NEW c, Consecutive(a), Consecutive(b), Consecutive(c), Follows(a, b)
    PROVE  /\ After(b, c) => After(a, c)
           /\ Follows(b, c) => Follows(a, c)
<1>1. /\ a[Len(a)] \in Nat /\ b[1] \in Nat /\ b[Len(b)] \in Nat /\ c[1] \in Nat
      /\ b[1] <= b[Len(b)]
  BY ConsecutiveEnds, Zenon
<1> QED BY <1>1 DEF Follows, After

-----------------------------------------------------------------------------
(* Sequences of operations and of buffers *)

\* What is left when the handler of the i-th operation has run.
LEMMA WritesRemove ==
    ASSUME NEW S, NEW ws \in Seq(S), NEW i \in DOMAIN ws
    PROVE  /\ RemoveAt(ws, i) \in Seq(S)
           /\ Len(RemoveAt(ws, i)) = Len(ws) - 1
           /\ DOMAIN RemoveAt(ws, i) = 1 .. Len(ws) - 1
           /\ \A j \in 1 .. Len(ws) - 1 :
                 RemoveAt(ws, i)[j] = IF j < i THEN ws[j] ELSE ws[j + 1]
<1> DEFINE a == SubSeq(ws, 1, i - 1)
           b == SubSeq(ws, i + 1, Len(ws))
<1>1. i \in 1 .. Len(ws) /\ Len(ws) \in Nat
  OBVIOUS
<1>2. a \in Seq(S) /\ Len(a) = i - 1 /\ \A j \in 1 .. i - 1 : a[j] = ws[j]
  BY <1>1
<1>3. b \in Seq(S) /\ Len(b) = Len(ws) - i /\ \A j \in 1 .. Len(ws) - i : b[j] = ws[i + j]
  BY <1>1
<1> HIDE DEF a, b
<1>4. a \o b \in Seq(S) /\ Len(a \o b) = Len(ws) - 1
  BY <1>1, <1>2, <1>3
<1>5. ASSUME NEW j \in 1 .. Len(ws) - 1
      PROVE  (a \o b)[j] = IF j < i THEN ws[j] ELSE ws[j + 1]
  <2>1. CASE j < i
    BY <1>1, <1>2, <1>3, <2>1
  <2>2. CASE ~(j < i)
    <3>1. (a \o b)[j] = b[j - (i - 1)]
      <4>1. j \in Len(a) + 1 .. Len(a) + Len(b)
        BY <1>1, <1>2, <1>3, <2>2
      <4>2. (a \o b)[j] = b[j - Len(a)]
        <5>1. a \in Seq(S) /\ b \in Seq(S)
          BY <1>2, <1>3, Zenon
        <5> QED BY ONLY <4>1, <5>1
      <4> QED BY <1>2, <4>2, Zenon
    <3>2. j - (i - 1) \in 1 .. Len(ws) - i /\ i + (j - (i - 1)) = j + 1
      BY <1>1, <2>2
    <3> QED BY <1>3, <2>2, <3>1, <3>2, Zenon
  <2> QED BY <2>1, <2>2, Zenon
<1>6. RemoveAt(ws, i) = a \o b
  BY Zenon DEF RemoveAt, a, b
<1> QED BY <1>4, <1>5, <1>6

\* A buffer takes the place of the first one.
LEMMA FrontReplaced ==
    ASSUME NEW q \in Seq(Buffer), q # <<>>, NEW b \in Buffer
    PROVE  LET r == [q EXCEPT ![1] = b] IN
           /\ r \in Seq(Buffer) /\ r # <<>> /\ Len(r) = Len(q) /\ Head(r) = b
           /\ \A i \in 2 .. Len(q) : r[i] = q[i]
           /\ Tail(r) = Tail(q) /\ Head(q) \in Buffer /\ Tail(q) \in Seq(Buffer)
<1> DEFINE r == [q EXCEPT ![1] = b]
<1>1. r \in Seq(Buffer) /\ Len(r) = Len(q) /\ r[1] = b
      /\ \A i \in 2 .. Len(q) : r[i] = q[i]
  OBVIOUS
<1> HIDE DEF r
<1>2. r # <<>> /\ Head(r) = b /\ Tail(r) \in Seq(Buffer)
  BY <1>1
<1>3. Tail(q) \in Seq(Buffer) /\ Len(Tail(q)) = Len(q) - 1
      /\ Len(Tail(r)) = Len(q) - 1 /\ Len(q) \in Nat
  BY <1>1, <1>2
<1>4. \A i \in 1 .. Len(q) - 1 : Tail(r)[i] = Tail(q)[i]
  BY <1>1, <1>2, <1>3
<1>5. Tail(r) = Tail(q)
  BY <1>2, <1>3, <1>4
<1> QED BY <1>1, <1>2, <1>3, <1>5 DEF r

\* A cookie put into the front of a queue is counted.
LEMMA QueuedSizeFront ==
    ASSUME NEW q \in Seq(Buffer), q # <<>>, NEW b \in Buffer
    PROVE  QueuedSize([q EXCEPT ![1] = b]) = QueuedSize(q) + BufferSize(b) - BufferSize(Head(q))
<1> DEFINE r == [q EXCEPT ![1] = b]
<1>1. r \in Seq(Buffer) /\ r # <<>> /\ Head(r) = b /\ Tail(r) = Tail(q)
      /\ Head(q) \in Buffer /\ Tail(q) \in Seq(Buffer)
  BY FrontReplaced, Zenon
<1> HIDE DEF r
<1>2. BufferSize(Head(q)) \in Nat /\ BufferSize(b) \in Nat /\ QueuedSize(Tail(q)) \in Nat
  BY <1>1, BufferSizeNat, QueuedSizeNat, Zenon
<1>3. QueuedSize(q) = BufferSize(Head(q)) + QueuedSize(Tail(q))
  BY QueuedSizeTail, Zenon
<1>4. QueuedSize(r) = BufferSize(b) + QueuedSize(Tail(q))
  BY <1>1, QueuedSizeTail, Zenon
<1> QED BY <1>2, <1>3, <1>4 DEF r

-----------------------------------------------------------------------------
(* What is under way *)

\* What is on its way to a remote is in order: wr, the buffers the network took,
\* those of ws, the writes started, that are still pending (the indices P), the
\* queue bufs, the packetizer p; n messages were accepted so far.
LastOf(wr) == wr[Len(wr)]
Within(s, n) == Consecutive(s) /\ s[Len(s)] <= n

WireOrdered(wr, n) == wr # <<>> => Within(LastOf(wr), n)
WritesOrdered(P, wr, ws, n) ==
    \A i \in P :
        /\ Within(Ids(ws[i].buffer), n)
        /\ wr # <<>> => Follows(LastOf(wr), Ids(ws[i].buffer))
        /\ \A j \in P : j < i => Follows(Ids(ws[j].buffer), Ids(ws[i].buffer))
QueueOrdered(P, wr, ws, bufs, n) ==
    \A k \in DOMAIN bufs :
        /\ Within(Ids(bufs[k]), n)
        /\ wr # <<>> => Follows(LastOf(wr), Ids(bufs[k]))
        /\ \A i \in P : Follows(Ids(ws[i].buffer), Ids(bufs[k]))
        /\ \A j \in DOMAIN bufs : j < k => After(Ids(bufs[j]), Ids(bufs[k]))
PacketizerOrdered(P, wr, ws, bufs, p, n) ==
    p # <<>> =>
        /\ Within(Ids(p), n) /\ Ids(p)[Len(Ids(p))] = n
        /\ wr # <<>> => After(LastOf(wr), Ids(p))
        /\ \A i \in P : After(Ids(ws[i].buffer), Ids(p))
        /\ \A k \in DOMAIN bufs : After(Ids(bufs[k]), Ids(p))
Ordered(P, wr, ws, bufs, p, n) ==
    /\ WireOrdered(wr, n) /\ WritesOrdered(P, wr, ws, n)
    /\ QueueOrdered(P, wr, ws, bufs, n) /\ PacketizerOrdered(P, wr, ws, bufs, p, n)

\* The packetizer is moved to the queue.
LEMMA OrderedSpill ==
    ASSUME NEW P, NEW wr, NEW ws, NEW bufs \in Seq(Buffer), NEW p \in Buffer, NEW n \in Nat,
           p # <<>>, Ordered(P, wr, ws, bufs, p, n)
    PROVE  Ordered(P, wr, ws, Append(bufs, p), <<>>, n)
<1> DEFINE r == Append(bufs, p)
<1>1. /\ Within(Ids(p), n)
      /\ wr # <<>> => After(LastOf(wr), Ids(p))
      /\ \A i \in P : After(Ids(ws[i].buffer), Ids(p))
      /\ \A k \in DOMAIN bufs : After(Ids(bufs[k]), Ids(p))
  BY Zenon DEF Ordered, PacketizerOrdered
<1>2. Len(bufs) \in Nat /\ DOMAIN bufs = 1 .. Len(bufs) /\ DOMAIN r = 1 .. Len(bufs) + 1
      /\ r[Len(bufs) + 1] = p /\ \A k \in 1 .. Len(bufs) : r[k] = bufs[k]
  OBVIOUS
<1> HIDE DEF r
<1>3. ASSUME NEW k \in DOMAIN r
      PROVE  /\ Within(Ids(r[k]), n)
             /\ wr # <<>> => Follows(LastOf(wr), Ids(r[k]))
             /\ \A i \in P : Follows(Ids(ws[i].buffer), Ids(r[k]))
             /\ \A j \in DOMAIN r : j < k => After(Ids(r[j]), Ids(r[k]))
  <2>1. CASE k = Len(bufs) + 1
    <3>1. ASSUME NEW j \in DOMAIN r, j < k PROVE After(Ids(r[j]), Ids(r[k]))
      BY <1>1, <1>2, <2>1, <3>1
    <3> QED BY <1>1, <1>2, <2>1, <3>1, Zenon DEF Follows
  <2>2. CASE k \in DOMAIN bufs
    <3>1. ASSUME NEW j \in DOMAIN r, j < k PROVE j \in DOMAIN bufs
      BY <1>2, <2>2, <3>1
    <3> QED BY <1>2, <2>2, <3>1 DEF Ordered, QueueOrdered
  <2> QED BY <1>2, <2>1, <2>2
<1>4. QueueOrdered(P, wr, ws, r, n)
  BY <1>3, Zenon DEF QueueOrdered
<1> QED BY <1>4, Zenon DEF Ordered, PacketizerOrdered, r

\* A message is added to the packetizer.
LEMMA OrderedAdd ==
    ASSUME NEW P, NEW wr, NEW ws, NEW bufs \in Seq(Buffer), NEW p \in Buffer, NEW n \in Nat,
           NEW m \in Message, m.id = n + 1, Ordered(P, wr, ws, bufs, p, n)
    PROVE  Ordered(P, wr, ws, bufs, Append(p, m), n + 1)
<1> DEFINE s == Ids(Append(p, m))
<1>1. ASSUME NEW a, Within(a, n)
      PROVE  Within(a, n + 1) /\ a[Len(a)] \in Nat /\ a[Len(a)] < n + 1
  BY <1>1, ConsecutiveEnds DEF Within
<1>2. /\ WireOrdered(wr, n + 1) /\ WritesOrdered(P, wr, ws, n + 1)
      /\ QueueOrdered(P, wr, ws, bufs, n + 1)
  BY <1>1, Zenon DEF Ordered, WireOrdered, WritesOrdered, QueueOrdered
<1>3. Append(p, m) \in Buffer /\ s = Append(Ids(p), n + 1)
  BY IdsAppend, Zenon
<1>4. CASE p = <<>>
  <2>1. s = <<n + 1>>
    <3>1. Ids(p) = <<>>
      BY <1>4, EmptyBuffer, Zenon
    <3>2. Append(<<>>, n + 1) = <<n + 1>>
      OBVIOUS
    <3> QED BY <1>3, <3>1, <3>2, Zenon
  <2>2. Consecutive(s) /\ s[1] = n + 1 /\ s[Len(s)] = n + 1
    BY <2>1, ConsecutiveOne
  <2> HIDE DEF s
  <2>3. /\ wr # <<>> => After(LastOf(wr), s)
        /\ \A i \in P : After(Ids(ws[i].buffer), s)
        /\ \A k \in DOMAIN bufs : After(Ids(bufs[k]), s)
    <3>1. ASSUME NEW a, Within(a, n) PROVE After(a, s)
      BY <1>1, <2>2, <3>1, Zenon DEF After
    <3> QED BY <3>1, Zenon DEF Ordered, WireOrdered, WritesOrdered, QueueOrdered
  <2> QED BY <1>2, <2>2, <2>3 DEF Ordered, PacketizerOrdered, Within, s
<1>5. CASE p # <<>>
  <2>1. /\ Consecutive(Ids(p)) /\ Ids(p)[Len(Ids(p))] = n
        /\ wr # <<>> => After(LastOf(wr), Ids(p))
        /\ \A i \in P : After(Ids(ws[i].buffer), Ids(p))
        /\ \A k \in DOMAIN bufs : After(Ids(bufs[k]), Ids(p))
    BY <1>5, Zenon DEF Ordered, PacketizerOrdered, Within
  <2>2. Consecutive(s) /\ s[1] = Ids(p)[1] /\ s[Len(s)] = n + 1
    BY <1>3, <2>1, ConsecutiveAppend
  <2> HIDE DEF s
  <2>3. /\ wr # <<>> => After(LastOf(wr), s)
        /\ \A i \in P : After(Ids(ws[i].buffer), s)
        /\ \A k \in DOMAIN bufs : After(Ids(bufs[k]), s)
    BY <2>1, <2>2, Zenon DEF After
  <2> QED BY <1>2, <2>2, <2>3 DEF Ordered, PacketizerOrdered, Within, s
<1> QED BY <1>4, <1>5, Zenon

\* The pending writes Q of vs come from those P of ws, in the same order.
SomeOf(P, ws, Q, vs) ==
    \E f \in [Q -> P] :
        /\ \A j, k \in Q : j < k => f[j] < f[k]
        /\ \A j \in Q : vs[j].buffer = ws[f[j]].buffer

\* Writes that are no longer pending do not disturb the order.
LEMMA OrderedSome ==
    ASSUME NEW P, NEW Q, NEW wr, NEW ws, NEW vs, NEW bufs, NEW p, NEW n,
           SomeOf(P, ws, Q, vs), Ordered(P, wr, ws, bufs, p, n)
    PROVE  Ordered(Q, wr, vs, bufs, p, n)
<1>1. PICK f \in [Q -> P] :
        /\ \A j, k \in Q : j < k => f[j] < f[k]
        /\ \A j \in Q : vs[j].buffer = ws[f[j]].buffer
  BY Zenon DEF SomeOf
<1>2. WritesOrdered(Q, wr, vs, n)
  <2>1. ASSUME NEW i \in Q
        PROVE  /\ Within(Ids(vs[i].buffer), n)
               /\ wr # <<>> => Follows(LastOf(wr), Ids(vs[i].buffer))
    BY <1>1, Zenon DEF Ordered, WritesOrdered
  <2>2. ASSUME NEW i \in Q, NEW j \in Q, j < i
        PROVE  Follows(Ids(vs[j].buffer), Ids(vs[i].buffer))
    <3>1. f[j] < f[i] /\ f[i] \in P /\ f[j] \in P
      BY <1>1, <2>2, Zenon
    <3> QED BY <1>1, <3>1, Zenon DEF Ordered, WritesOrdered
  <2> QED BY <2>1, <2>2, Zenon DEF WritesOrdered
<1>3. QueueOrdered(Q, wr, vs, bufs, n)
  BY <1>1, Zenon DEF Ordered, QueueOrdered
<1>4. PacketizerOrdered(Q, wr, vs, bufs, p, n)
  BY <1>1, Zenon DEF Ordered, PacketizerOrdered
<1> QED BY <1>2, <1>3, <1>4, Zenon DEF Ordered

\* Writes that stay where they are keep their order.
LEMMA SomeOfSame ==
    ASSUME NEW P \in SUBSET Nat, NEW ws, NEW Q \in SUBSET P, NEW vs,
           \A j \in Q : vs[j].buffer = ws[j].buffer
    PROVE  SomeOf(P, ws, Q, vs)
<1> DEFINE f == [j \in Q |-> j]
<1>1. f \in [Q -> P] /\ \A j, k \in Q : j < k => f[j] < f[k]
  BY Zenon
<1> QED BY <1>1, Zenon DEF SomeOf

\* So do those that move up when one is taken out.
LEMMA SomeOfRemove ==
    ASSUME NEW S, NEW ws \in Seq(S), NEW i \in DOMAIN ws, NEW P,
           NEW Q \in SUBSET (DOMAIN RemoveAt(ws, i)),
           \A j \in Q : (IF j < i THEN j ELSE j + 1) \in P
    PROVE  SomeOf(P, ws, Q, RemoveAt(ws, i))
<1> DEFINE vs == RemoveAt(ws, i)
           f == [j \in Q |-> IF j < i THEN j ELSE j + 1]
<1>1. DOMAIN vs = 1 .. Len(ws) - 1 /\ Len(ws) \in Nat /\ DOMAIN ws = 1 .. Len(ws)
      /\ \A j \in 1 .. Len(ws) - 1 : vs[j] = IF j < i THEN ws[j] ELSE ws[j + 1]
  <2>1. DOMAIN vs = 1 .. Len(ws) - 1
        /\ \A j \in 1 .. Len(ws) - 1 : vs[j] = IF j < i THEN ws[j] ELSE ws[j + 1]
    BY WritesRemove, Zenon
  <2>2. Len(ws) \in Nat /\ DOMAIN ws = 1 .. Len(ws)
    OBVIOUS
  <2> QED BY <2>1, <2>2, Zenon
<1> HIDE DEF vs
<1>2. Q \subseteq 1 .. Len(ws) - 1
  BY <1>1, Zenon DEF vs
<1>3. f \in [Q -> P] /\ \A j, k \in Q : j < k => f[j] < f[k]
  BY <1>1, <1>2
<1>4. \A j \in Q : vs[j].buffer = ws[f[j]].buffer
  BY <1>1, <1>2, Zenon
<1> QED BY <1>3, <1>4, Zenon DEF SomeOf, vs

\* Dropping the queue keeps the order of the rest.
LEMMA OrderedDropped ==
    ASSUME NEW P, NEW wr, NEW ws, NEW bufs, NEW p, NEW n, Ordered(P, wr, ws, bufs, p, n)
    PROVE  Ordered(P, wr, ws, <<>>, p, n)
BY DEF Ordered, QueueOrdered, PacketizerOrdered

\* So does taking the front out of the queue.
LEMMA OrderedPopped ==
    ASSUME NEW P, NEW wr, NEW ws, NEW bufs \in Seq(Buffer), NEW p, NEW n, bufs # <<>>,
           Ordered(P, wr, ws, bufs, p, n)
    PROVE  Ordered(P, wr, ws, Tail(bufs), p, n)
<1> DEFINE r == Tail(bufs)
<1>1. r \in Seq(Buffer) /\ Len(r) = Len(bufs) - 1
      /\ \A k \in 1 .. Len(bufs) - 1 : r[k] = bufs[k + 1]
  BY TailParts, Zenon
<1>2. DOMAIN r = 1 .. Len(bufs) - 1 /\ DOMAIN bufs = 1 .. Len(bufs) /\ Len(bufs) \in Nat
  BY <1>1
<1> HIDE DEF r
<1>3. ASSUME NEW k \in DOMAIN r PROVE k + 1 \in DOMAIN bufs /\ r[k] = bufs[k + 1] /\ k \in Nat
  BY <1>1, <1>2
<1>4. QueueOrdered(P, wr, ws, r, n)
  <2>1. ASSUME NEW k \in DOMAIN r
        PROVE  /\ Within(Ids(r[k]), n)
               /\ wr # <<>> => Follows(LastOf(wr), Ids(r[k]))
               /\ \A i \in P : Follows(Ids(ws[i].buffer), Ids(r[k]))
    BY <1>3, Zenon DEF Ordered, QueueOrdered
  <2>2. ASSUME NEW k \in DOMAIN r, NEW j \in DOMAIN r, j < k PROVE After(Ids(r[j]), Ids(r[k]))
    <3>1. j + 1 < k + 1
      BY <1>3, <2>2
    <3> QED BY <1>3, <3>1, Zenon DEF Ordered, QueueOrdered
  <2> QED BY <2>1, <2>2, Zenon DEF QueueOrdered
<1>5. PacketizerOrdered(P, wr, ws, r, p, n)
  BY <1>3, Zenon DEF Ordered, PacketizerOrdered
<1> QED BY <1>4, <1>5, Zenon DEF Ordered, r

\* The front of the queue is written; a cookie may have been put into it.
LEMMA OrderedWritten ==
    ASSUME NEW S, NEW wr, NEW ws \in Seq(S), NEW P \in SUBSET (DOMAIN ws), NEW w \in S,
           NEW Q \in SUBSET (P \cup {Len(ws) + 1}), NEW p, NEW n,
           NEW bufs \in Seq(Buffer), NEW cufs \in Seq(Buffer), bufs # <<>>,
           Len(cufs) = Len(bufs), \A k \in 1 .. Len(bufs) : Ids(cufs[k]) = Ids(bufs[k]),
           Ids(w.buffer) = Ids(bufs[1]), Ordered(P, wr, ws, bufs, p, n)
    PROVE  Ordered(Q, wr, Append(ws, w), cufs, p, n)
<1> DEFINE vs == Append(ws, w)
<1>1. /\ DOMAIN cufs = DOMAIN bufs /\ DOMAIN bufs = 1 .. Len(bufs) /\ Len(bufs) \in Nat
      /\ 1 \in DOMAIN bufs
  OBVIOUS
<1>2. \A k \in DOMAIN bufs : Ids(cufs[k]) = Ids(bufs[k])
  BY <1>1, Zenon
<1>4. Len(ws) \in Nat /\ DOMAIN ws = 1 .. Len(ws) /\ DOMAIN vs = 1 .. Len(ws) + 1
      /\ vs[Len(ws) + 1] = w /\ \A j \in 1 .. Len(ws) : vs[j] = ws[j]
  OBVIOUS
<1> HIDE DEF vs
<1>5. ASSUME NEW i \in Q
      PROVE  \/ i \in P /\ vs[i].buffer = ws[i].buffer
             \/ i = Len(ws) + 1 /\ Ids(vs[i].buffer) = Ids(bufs[1])
  BY <1>4, Zenon
<1>6. Ordered(P, wr, ws, bufs, p, n)
  BY Zenon
<1>7. ASSUME NEW k \in DOMAIN bufs
      PROVE  Follows(Ids(bufs[1]), Ids(bufs[k]))
  <2>1. k = 1 \/ 1 < k
    BY <1>1
  <2> QED BY <1>1, <1>6, <2>1, Zenon DEF Ordered, QueueOrdered, Follows
<1>8. WritesOrdered(Q, wr, vs, n)
  <2>1. ASSUME NEW i \in Q
        PROVE  /\ Within(Ids(vs[i].buffer), n)
               /\ wr # <<>> => Follows(LastOf(wr), Ids(vs[i].buffer))
    BY <1>1, <1>5, <1>6, Zenon DEF Ordered, WritesOrdered, QueueOrdered
  <2>2. ASSUME NEW i \in Q, NEW j \in Q, j < i
        PROVE  Follows(Ids(vs[j].buffer), Ids(vs[i].buffer))
    <3>1. j \in P /\ vs[j].buffer = ws[j].buffer
      BY <1>4, <1>5, <2>2
    <3> QED BY <1>1, <1>5, <1>6, <2>2, <3>1, Zenon DEF Ordered, WritesOrdered, QueueOrdered
  <2> QED BY <2>1, <2>2, Zenon DEF WritesOrdered
<1>9. QueueOrdered(Q, wr, vs, cufs, n)
  <2>1. ASSUME NEW k \in DOMAIN bufs, NEW i \in Q
        PROVE  Follows(Ids(vs[i].buffer), Ids(bufs[k]))
    BY <1>5, <1>6, <1>7, Zenon DEF Ordered, QueueOrdered
  <2>2. ASSUME NEW k \in DOMAIN bufs
        PROVE  /\ Within(Ids(bufs[k]), n)
               /\ wr # <<>> => Follows(LastOf(wr), Ids(bufs[k]))
               /\ \A j \in DOMAIN bufs : j < k => After(Ids(bufs[j]), Ids(bufs[k]))
    BY <1>6, Zenon DEF Ordered, QueueOrdered
  <2> QED BY <1>1, <1>2, <2>1, <2>2, Zenon DEF QueueOrdered
<1>10. PacketizerOrdered(Q, wr, vs, cufs, p, n)
  BY <1>1, <1>2, <1>5, <1>6, Zenon DEF Ordered, PacketizerOrdered
<1> QED BY <1>6, <1>8, <1>9, <1>10, Zenon DEF Ordered, vs

\* The network takes the oldest pending buffer.
LEMMA OrderedDone ==
    ASSUME NEW P \in SUBSET Nat, NEW Q \in SUBSET P, NEW wr \in Seq(Seq(Nat \ {0})), NEW ws,
           NEW vs, NEW bufs, NEW p, NEW n, NEW i \in P, \A j \in P : i <= j, i \notin Q,
           \A j \in Q : vs[j].buffer = ws[j].buffer, Ordered(P, wr, ws, bufs, p, n)
    PROVE  Ordered(Q, Append(wr, Ids(ws[i].buffer)), vs, bufs, p, n)
<1> DEFINE s == Ids(ws[i].buffer)
           xr == Append(wr, s)
<1>1. Within(s, n) /\ s \in Seq(Nat \ {0})
  BY Zenon DEF Ordered, WritesOrdered, Within, Consecutive
<1>2. LastOf(xr) = s
  <2> HIDE DEF s
  <2> QED BY <1>1 DEF LastOf
<1> HIDE DEF s, xr
<1>4. ASSUME NEW j \in Q
      PROVE  j \in P /\ vs[j].buffer = ws[j].buffer /\ i < j
  OBVIOUS
<1>5. WireOrdered(xr, n)
  BY <1>1, <1>2, Zenon DEF WireOrdered
<1>6. WritesOrdered(Q, xr, vs, n)
  BY <1>2, <1>4, Zenon DEF Ordered, WritesOrdered, s
<1>7. QueueOrdered(Q, xr, vs, bufs, n)
  BY <1>2, <1>4, Zenon DEF Ordered, QueueOrdered, s
<1>8. PacketizerOrdered(Q, xr, vs, bufs, p, n)
  BY <1>2, <1>4 DEF Ordered, PacketizerOrdered, s<1> QED BY <1>5, <1>6, <1>7, <1>8, Zenon DEF Ordered, xr, s
=============================================================================
