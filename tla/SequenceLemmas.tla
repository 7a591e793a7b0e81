--------------------------- MODULE SequenceLemmas ---------------------------
(***************************************************************************)
(* Facts about sequences and the sets of their elements that the proofs of *)
(* several components use, and an induction principle over the naturals    *)
(* stated with a set in place of a predicate, so that it is first order.   *)
(***************************************************************************)
EXTENDS Sublists, Functions, WellFoundedInduction, TLAPS

\* A set of naturals that is not empty has a least element.
LEMMA LeastOf ==
  ASSUME NEW S \in SUBSET Nat, S # {}
  PROVE \E m \in S : \A n \in S : m <= n
<1> DEFINE R == {ss \in Nat \X Nat : ss[1] < ss[2]}
<1>1. IsWellFoundedOn(R, Nat)
  BY NatLessThanWellFounded, Zenon DEF OpToRel
<1>2. PICK m \in S : \A y \in S : ~(<<y, m>> \in R)
  <2> HIDE DEF R
  <2> QED BY <1>1, WFMin, Zenon
<1>3. ASSUME NEW n \in S PROVE m <= n
  <2>1. n \in Nat /\ m \in Nat
    OBVIOUS
  <2>2. n < m => <<n, m>> \in R
    BY <2>1
  <2>3. ~(n < m)
    BY <2>2, <1>2
  <2> QED
    BY <2>1, <2>3
<1> QED
  BY <1>3

\* Induction up to N: what holds of 0 and passes from each n below N to n + 1
\* holds of N.
LEMMA Induction ==
  ASSUME NEW G, NEW N \in Nat, 0 \in G, \A n \in 0 .. N - 1 : n \in G => n + 1 \in G
  PROVE  N \in G
<1> DEFINE Bad == {n \in 0 .. N : n \notin G}
<1> SUFFICES ASSUME Bad # {} PROVE FALSE
  OBVIOUS
<1>1. Bad \in SUBSET Nat
  OBVIOUS
<1> HIDE DEF Bad
<1>2. PICK m \in Bad : \A n \in Bad : m <= n
  BY <1>1, LeastOf
<1> USE DEF Bad
<1>3. m # 0 /\ m \in 1 .. N
  OBVIOUS
<1>4. m - 1 \in 0 .. N - 1 /\ m - 1 \notin Bad
  BY <1>2, <1>3
<1>5. (m - 1) + 1 \in G
  BY <1>4
<1> QED
  BY <1>3, <1>5

-----------------------------------------------------------------------------
\* An empty sequence has no elements.
LEMMA RangeOfEmpty == Range(<<>>) = {}
<1>1. DOMAIN <<>> = {}
  OBVIOUS
<1> QED
  BY <1>1, Zenon DEF Range

\* The elements of a sequence of one element.
LEMMA RangeOfOne ==
  ASSUME NEW x
  PROVE  Range(<<x>>) = {x}
<1>1. DOMAIN <<x>> = {1} /\ <<x>>[1] = x
  OBVIOUS
<1> QED
  BY <1>1, Zenon DEF Range

\* Append adds one element.
LEMMA RangeOfAppend ==
  ASSUME NEW A, NEW q \in Seq(A), NEW x \in A
  PROVE  Range(Append(q, x)) = Range(q) \cup {x}
<1>1. DOMAIN Append(q, x) = 1 .. Len(q) + 1 /\ DOMAIN q = 1 .. Len(q) /\ Len(q) \in Nat
  OBVIOUS
<1>2. 1 .. Len(q) + 1 = (1 .. Len(q)) \cup {Len(q) + 1}
  BY <1>1
<1>3. (\A i \in 1 .. Len(q) : Append(q, x)[i] = q[i]) /\ Append(q, x)[Len(q) + 1] = x
  OBVIOUS
<1> QED
  BY <1>1, <1>2, <1>3, ZenonT(40) DEF Range

\* The elements of a concatenation.
LEMMA RangeOfConcat ==
  ASSUME NEW A, NEW s \in Seq(A), NEW t \in Seq(A)
  PROVE  Range(s \o t) = Range(s) \cup Range(t)
<1>1. /\ Len(s) \in Nat /\ Len(t) \in Nat /\ DOMAIN s = 1 .. Len(s) /\ DOMAIN t = 1 .. Len(t)
      /\ DOMAIN (s \o t) = 1 .. Len(s) + Len(t)
  OBVIOUS
<1>2. /\ \A i \in 1 .. Len(s) : (s \o t)[i] = s[i] /\ i \in 1 .. Len(s) + Len(t)
      /\ \A i \in 1 .. Len(t) : (s \o t)[i + Len(s)] = t[i] /\ i + Len(s) \in 1 .. Len(s) + Len(t)
      /\ \A i \in 1 .. Len(s) + Len(t) : i \in 1 .. Len(s) \/ (i - Len(s) \in 1 .. Len(t) /\ (s \o t)[i] = t[i - Len(s)])
  BY <1>1
<1>3. Range(s \o t) \subseteq Range(s) \cup Range(t)
  BY <1>1, <1>2, Zenon DEF Range
<1>4. Range(s) \subseteq Range(s \o t)
  BY <1>1, <1>2, ZenonT(40) DEF Range
<1>5. Range(t) \subseteq Range(s \o t)
  <2> SUFFICES ASSUME NEW i \in 1 .. Len(t) PROVE t[i] \in Range(s \o t)
    BY <1>1, Zenon DEF Range
  <2>1. i + Len(s) \in DOMAIN (s \o t) /\ (s \o t)[i + Len(s)] = t[i]
    BY <1>1, <1>2
  <2> QED
    BY <2>1, Zenon DEF Range
<1> QED
  BY <1>3, <1>4, <1>5

\* The elements of a sequence that is not empty are its head and those of its tail.
LEMMA RangeOfHeadTail ==
  ASSUME NEW A, NEW s \in Seq(A), s # <<>>
  PROVE  Head(s) \in A /\ Tail(s) \in Seq(A) /\ Range(s) = {Head(s)} \cup Range(Tail(s))
<1>1. Head(s) \in A /\ Tail(s) \in Seq(A) /\ <<Head(s)>> \in Seq(A) /\ s = <<Head(s)>> \o Tail(s)
  OBVIOUS
<1>2. Range(<<Head(s)>> \o Tail(s)) = Range(<<Head(s)>>) \cup Range(Tail(s))
  BY <1>1, RangeOfConcat, ZenonT(30)
<1>3. Range(<<Head(s)>>) = {Head(s)}
  BY RangeOfOne
<1> QED
  BY <1>1, <1>2, <1>3, Zenon

\* The elements of a sequence over A are members of A.
LEMMA RangeType ==
  ASSUME NEW A, NEW s \in Seq(A)
  PROVE  Range(s) \subseteq A /\ (Range(s) = {} <=> s = <<>>)
<1>1. DOMAIN s = 1 .. Len(s) /\ Len(s) \in Nat /\ \A i \in 1 .. Len(s) : s[i] \in A
  OBVIOUS
<1>2. Range(s) \subseteq A
  BY <1>1, Zenon DEF Range
<1>3. ASSUME Range(s) = {} PROVE s = <<>>
  <2>1. 1 \notin DOMAIN s
    BY <1>3, Zenon DEF Range
  <2> QED
    BY <1>1, <2>1
<1> QED
  BY <1>2, <1>3, RangeOfEmpty

\* A sequence over A is one over any set that includes A.
LEMMA SeqIncludes ==
  ASSUME NEW A, NEW B, A \subseteq B, NEW s \in Seq(A)
  PROVE  s \in Seq(B)
<1>1. DOMAIN s = 1 .. Len(s) /\ Len(s) \in Nat /\ \A i \in 1 .. Len(s) : s[i] \in B
  OBVIOUS
<1>2. s = [i \in 1 .. Len(s) |-> s[i]]
  BY <1>1
<1> QED
  BY <1>1, <1>2

\* Sequences of the same length and elements are the same.
LEMMA SameSequence ==
  ASSUME NEW A, NEW s \in Seq(A), NEW t \in Seq(A), Len(s) = Len(t), \A i \in 1 .. Len(s) : s[i] = t[i]
  PROVE  s = t
<1>1. s = [i \in 1 .. Len(s) |-> s[i]] /\ t = [i \in 1 .. Len(s) |-> t[i]]
  OBVIOUS
<1> QED
  BY <1>1, Zenon

\* Concatenation is associative.
LEMMA ConcatAssoc ==
  ASSUME NEW A, NEW a \in Seq(A), NEW b \in Seq(A), NEW c \in Seq(A)
  PROVE  (a \o b) \o c = a \o (b \o c)
<1> DEFINE s == (a \o b) \o c
           t == a \o (b \o c)
<1>1. a \o b \in Seq(A) /\ b \o c \in Seq(A) /\ Len(a \o b) = Len(a) + Len(b) /\ Len(b \o c) = Len(b) + Len(c)
  OBVIOUS
<1>2. s \in Seq(A) /\ t \in Seq(A) /\ Len(s) = Len(a) + Len(b) + Len(c) /\ Len(t) = Len(s)
  BY <1>1
<1>3. ASSUME NEW i \in 1 .. Len(s) PROVE s[i] = t[i]
  <2>1. CASE i <= Len(a)
    BY <1>1, <1>2, <2>1
  <2>2. CASE i > Len(a) /\ i <= Len(a) + Len(b)
    BY <1>1, <1>2, <2>2
  <2>3. CASE i > Len(a) + Len(b)
    BY <1>1, <1>2, <2>3
  <2> QED
    BY <1>2, <2>1, <2>2, <2>3
<1> HIDE DEF s, t
<1>4. s = t
  BY <1>2, <1>3, SameSequence
<1> QED
  BY <1>4 DEF s, t

\* Head and tail of a concatenation whose first part is not empty.
LEMMA ConcatHeadTail ==
  ASSUME NEW A, NEW s \in Seq(A), NEW t \in Seq(A), s # <<>>
  PROVE  Head(s \o t) = Head(s) /\ Tail(s \o t) = Tail(s) \o t /\ s \o t # <<>>
<1>1. s \o t \in Seq(A) /\ Len(s \o t) = Len(s) + Len(t) /\ Len(s) \in Nat \ {0} /\ Len(t) \in Nat
  OBVIOUS
<1>2. Head(s \o t) = Head(s) /\ s \o t # <<>>
  BY <1>1
<1>3. Tail(s \o t) = Tail(s) \o t
  <2>1. Tail(s) \in Seq(A) /\ Tail(s \o t) \in Seq(A) /\ Len(Tail(s)) = Len(s) - 1 /\ Len(Tail(s \o t)) = Len(s) + Len(t) - 1
    BY <1>1
  <2>2. Tail(s) \o t \in Seq(A) /\ Len(Tail(s) \o t) = Len(s) - 1 + Len(t)
    BY <1>1, <2>1
  <2>3. ASSUME NEW i \in 1 .. Len(s) + Len(t) - 1 PROVE Tail(s \o t)[i] = (Tail(s) \o t)[i]
    BY <1>1, <2>1, <2>2
  <2> QED
    BY <1>1, <2>1, <2>2, <2>3, SameSequence
<1> QED
  BY <1>2, <1>3

-----------------------------------------------------------------------------
(***************************************************************************)
(* Leaving elements out of a sequence.                                     *)
(***************************************************************************)
\* f is the table Chosen() reads its result from, up to m.
IsKept(f, s, positions, m) ==
  f = [n \in 0 .. m |-> IF n = 0 THEN <<>>
                ELSE IF n \in positions THEN Append(f[n - 1], s[n]) ELSE f[n - 1]]

\* There is such a table for every list.
LEMMA KeptExists ==
  ASSUME NEW A, NEW s \in Seq(A), NEW positions
  PROVE  \E f : IsKept(f, s, positions, Len(s))
<1> DEFINE G == {m \in Nat : \E f : IsKept(f, s, positions, m)}
<1>0. Len(s) \in Nat
  OBVIOUS
<1>1. 0 \in G
  <2> DEFINE g == [n \in 0 .. 0 |-> <<>>]
  <2>1. IsKept(g, s, positions, 0)
    BY DEF IsKept
  <2> QED BY <2>1
<1>2. ASSUME NEW m \in 0 .. Len(s) - 1, m \in G PROVE m + 1 \in G
  <2>1. PICK f : IsKept(f, s, positions, m)
    BY <1>2
  <2> DEFINE g == [n \in 0 .. m + 1 |-> IF n # m + 1 THEN f[n] ELSE IF m + 1 \in positions THEN Append(f[m], s[m + 1]) ELSE f[m]]
  <2>2. m \in Nat /\ m + 1 # 0 /\ (m + 1) - 1 = m
    BY <1>0
  <2>3. ASSUME NEW n \in 0 .. m + 1
        PROVE  g[n] = IF n = 0 THEN <<>> ELSE IF n \in positions THEN Append(g[n - 1], s[n]) ELSE g[n - 1]
    <3>1. CASE n = m + 1
      BY <3>1, <2>2
    <3>2. CASE n # m + 1
      <4>1. n \in 0 .. m /\ (n # 0 => n - 1 \in 0 .. m)
        BY <3>2, <2>2
      <4>2. f[n] = IF n = 0 THEN <<>> ELSE IF n \in positions THEN Append(f[n - 1], s[n]) ELSE f[n - 1]
        BY <4>1, <2>1, Zenon DEF IsKept
      <4>3. g[n] = f[n] /\ (n # 0 => g[n - 1] = f[n - 1])
        BY <4>1, <2>2, <3>2
      <4> QED
        BY <4>2, <4>3
    <3> QED
      BY <3>1, <3>2
  <2>4. IsKept(g, s, positions, m + 1)
    <3> HIDE DEF g
    <3>1. g = [n \in 0 .. m + 1 |-> g[n]]
      BY DEF g
    <3> QED
      BY <3>1, <2>3, Zenon DEF IsKept
  <2> QED BY <2>4, <2>2
<1> HIDE DEF G
<1>3. Len(s) \in G
  BY <1>0, <1>1, <1>2, Induction
<1> QED BY <1>3 DEF G

\* The result of Chosen() is the last entry of such a table.
LEMMA ChosenIs ==
  ASSUME NEW A, NEW s \in Seq(A), NEW positions
  PROVE  \E f : IsKept(f, s, positions, Len(s)) /\ Chosen(s, positions) = f[Len(s)]
<1> DEFINE K == CHOOSE f : IsKept(f, s, positions, Len(s))
<1>1. IsKept(K, s, positions, Len(s))
  BY KeptExists
<1>2. Chosen(s, positions) = K[Len(s)]
  BY DEF Chosen, IsKept
<1> QED BY <1>1, <1>2, Zenon

\* Chosen() has exactly the elements at the positions of the set.
LEMMA ChosenRange ==
  ASSUME NEW A, NEW s \in Seq(A), NEW positions
  PROVE  /\ Chosen(s, positions) \in Seq(A)
         /\ Range(Chosen(s, positions)) = {s[i] : i \in DOMAIN s \cap positions}
<1>1. PICK f : IsKept(f, s, positions, Len(s)) /\ Chosen(s, positions) = f[Len(s)]
  BY ChosenIs
<1> DEFINE First(n) == {s[i] : i \in (1 .. n) \cap positions}
<1> DEFINE Good(n) == f[n] \in Seq(A) /\ Range(f[n]) = First(n)
<1> DEFINE G == {n \in Nat : Good(n)}
<1>0. Len(s) \in Nat
  OBVIOUS
<1>2. 0 \in G
  <2>1. f[0] = <<>>
    BY <1>1, <1>0 DEF IsKept
  <2>2. 1 .. 0 = {} /\ DOMAIN <<>> = {} /\ <<>> \in Seq(A)
    OBVIOUS
  <2>3. Range(<<>>) = {}
    BY <2>2, Zenon DEF Range
  <2>4. First(0) = {}
    BY <2>2
  <2> QED
    BY <2>1, <2>2, <2>3, <2>4, Zenon
<1>3. ASSUME NEW n \in 0 .. Len(s) - 1, n \in G PROVE n + 1 \in G
  <2>1. n \in Nat /\ n + 1 \in 0 .. Len(s) /\ n + 1 # 0 /\ (n + 1) - 1 = n /\ s[n + 1] \in A
    BY <1>0
  <2>2. f[n + 1] = IF n + 1 \in positions THEN Append(f[n], s[n + 1]) ELSE f[n]
    BY <1>1, <2>1, Zenon DEF IsKept
  <2>3. First(n + 1) = IF n + 1 \in positions THEN First(n) \cup {s[n + 1]} ELSE First(n)
    <3>1. 1 .. n + 1 = (1 .. n) \cup {n + 1}
      BY <2>1
    <3> QED
      BY <3>1, Zenon
  <2>4. f[n] \in Seq(A) /\ Range(f[n]) = First(n)
    BY <1>3
  <2> HIDE DEF First
  <2>5. CASE n + 1 \notin positions
    BY <2>1, <2>2, <2>3, <2>4, <2>5
  <2>6. CASE n + 1 \in positions
    <3>1. Range(f[n + 1]) = Range(f[n]) \cup {s[n + 1]} /\ f[n + 1] \in Seq(A)
      BY <2>1, <2>2, <2>4, <2>6, RangeOfAppend
    <3>2. First(n + 1) = First(n) \cup {s[n + 1]}
      BY <2>3, <2>6
    <3>3. n + 1 \in Nat /\ Good(n + 1)
      BY <2>1, <2>4, <3>1, <3>2
    <3> QED
      BY <3>3, Zenon
  <2> QED
    BY <2>5, <2>6
<1> HIDE DEF G
<1>4. Len(s) \in G
  BY <1>0, <1>2, <1>3, Induction
<1>5. First(Len(s)) = {s[i] : i \in DOMAIN s \cap positions}
  OBVIOUS
<1> HIDE DEF First
<1> QED
  BY <1>1, <1>4, <1>5 DEF G

\* The elements of two sequences in a row.
LEMMA ConcatParts ==
  ASSUME NEW A, NEW s \in Seq(A), NEW t \in Seq(A)
  PROVE  /\ s \o t \in Seq(A) /\ Len(s \o t) = Len(s) + Len(t) /\ Len(s) \in Nat /\ Len(t) \in Nat
         /\ \A i \in 1 .. Len(s) : (s \o t)[i] = s[i]
         /\ \A j \in 1 .. Len(t) : (s \o t)[Len(s) + j] = t[j]
OBVIOUS

\* A sequence by its elements, one more at a time.
LEMMA AppendNext ==
  ASSUME NEW k \in Nat, NEW g
  PROVE  Append([j \in 1 .. k |-> g[j]], g[k + 1]) = [j \in 1 .. k + 1 |-> g[j]]
<1> DEFINE B == {g[j] : j \in 1 .. k + 1}
           x == [j \in 1 .. k |-> g[j]]
           z == [j \in 1 .. k + 1 |-> g[j]]
           y == g[k + 1]
<1>1. /\ x \in [1 .. k -> B] /\ z \in [1 .. k + 1 -> B] /\ y \in B /\ z[k + 1] = y
      /\ \A j \in 1 .. k : x[j] = z[j]
  OBVIOUS
<1> HIDE DEF B, x, y, z
<1>2. x \in Seq(B) /\ Len(x) = k /\ z \in Seq(B) /\ Len(z) = k + 1
  BY <1>1
<1>3. Append(x, y) \in Seq(B) /\ Len(Append(x, y)) = k + 1 /\ Append(x, y)[k + 1] = y
  BY <1>1, <1>2
<1>4. \A j \in 1 .. k : Append(x, y)[j] = x[j]
  BY <1>1, <1>2
<1>5. \A j \in 1 .. k + 1 : j = k + 1 \/ j \in 1 .. k
  OBVIOUS
<1>6. \A j \in 1 .. k + 1 : Append(x, y)[j] = z[j]
  BY <1>1, <1>3, <1>4, <1>5, Zenon
<1>7. Append(x, y) = z
  BY <1>2, <1>3, <1>6, SameSequence
<1> QED BY <1>7 DEF x, y, z

=============================================================================
