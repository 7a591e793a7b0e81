--------------------------- MODULE HandshakeProofs ---------------------------
(***************************************************************************)
(* The handshake ends on a message boundary and believes only what the     *)
(* server said, for any greetings, replies and notices, however they are   *)
(* cut into reads and wherever the switch truncates an acceptance.         *)
(***************************************************************************)
EXTENDS Handshake, SequenceLemmas

\* b is the first part of s.
PrefixOf(b, s) == Len(b) <= Len(s) /\ \A i \in 1 .. Len(b) : b[i] = s[i]

\* A reply whose text says that the client is in.
SaysOk(reply) == is_success(reply) /\ reply \notin {Absent, <<>>}

\* Min and Max of sets of positions.
LEMMA MinOf ==
  ASSUME NEW S \in SUBSET Nat, S # {}
  PROVE  Min(S) \in S /\ \A n \in S : Min(S) <= n
BY LeastOf, Zenon DEF Min

LEMMA MaxOf ==
  ASSUME NEW n \in Nat, NEW S \in SUBSET (1 .. n), S # {}
  PROVE  Max(S) \in S
<1> DEFINE D == {n - x : x \in S}
<1>1. D \in SUBSET Nat /\ D # {}
  <2>1. \A x \in S : x \in Nat /\ x <= n /\ n - x \in Nat
    OBVIOUS
  <2> QED
    BY <2>1, Zenon
<1> HIDE DEF D
<1>2. PICK d \in D : \A e \in D : d <= e
  BY <1>1, LeastOf
<1> USE DEF D
<1>3. PICK x \in S : d = n - x
  OBVIOUS
<1>4. \A y \in S : n - x <= n - y
  BY <1>2, <1>3, Zenon
<1>5. \A y \in S : x >= y
  BY <1>4
<1> QED
  BY <1>5, Zenon DEF Max

-----------------------------------------------------------------------------
\* What ends the header block of a part of a stream ends that of the stream.
LEMMA PrefixBlock ==
  ASSUME NEW b \in Seq(STRING), NEW s \in Seq(STRING), PrefixOf(b, s), Terminators(b) # {}
  PROVE  Terminators(s) # {} /\ HeaderEnd(b) = HeaderEnd(s) /\ Block(b) = Block(s)
<1>1. Len(b) \in Nat /\ Len(s) \in Nat
  OBVIOUS
<1>2. Terminators(b) \in SUBSET Nat /\ Terminators(s) \in SUBSET Nat
  BY <1>1 DEF Terminators
<1>3. ASSUME NEW i \in Terminators(b) PROVE i \in Terminators(s)
  <2>1. i \in 1 .. Len(b) - 1 /\ b[i] = nl /\ b[i + 1] = nl
    BY DEF Terminators
  <2>2. i \in 1 .. Len(b) /\ i + 1 \in 1 .. Len(b) /\ i \in 1 .. Len(s) - 1
    BY <1>1, <2>1 DEF PrefixOf
  <2> QED
    BY <2>1, <2>2 DEF Terminators, PrefixOf
<1>4. ASSUME NEW i \in Terminators(s), i + 1 <= Len(b) PROVE i \in Terminators(b)
  <2>1. i \in 1 .. Len(s) - 1 /\ s[i] = nl /\ s[i + 1] = nl
    BY DEF Terminators
  <2>2. i \in 1 .. Len(b) /\ i + 1 \in 1 .. Len(b) /\ i \in 1 .. Len(b) - 1
    BY <1>1, <1>4, <2>1
  <2> QED
    BY <2>1, <2>2 DEF Terminators, PrefixOf
<1>5. HeaderEnd(b) \in Terminators(b) /\ \A i \in Terminators(b) : HeaderEnd(b) <= i
  BY <1>2, MinOf DEF HeaderEnd
<1>6. HeaderEnd(s) \in Terminators(s) /\ \A i \in Terminators(s) : HeaderEnd(s) <= i
  BY <1>2, <1>3, MinOf DEF HeaderEnd
<1>7. HeaderEnd(s) <= HeaderEnd(b)
  BY <1>3, <1>5, <1>6
<1>8. HeaderEnd(b) \in 1 .. Len(b) - 1 /\ HeaderEnd(s) \in Nat
  BY <1>2, <1>5, <1>6 DEF Terminators
<1>9. HeaderEnd(s) \in Terminators(b)
  BY <1>1, <1>4, <1>6, <1>7, <1>8
<1>10. HeaderEnd(b) = HeaderEnd(s)
  BY <1>5, <1>7, <1>8, <1>9
<1>11. SubSeq(b, 1, HeaderEnd(b) - 1) = SubSeq(s, 1, HeaderEnd(b) - 1)
  <2> DEFINE e == HeaderEnd(b) - 1
  <2>1. e \in Nat /\ e <= Len(b) /\ e <= Len(s)
    BY <1>1, <1>8 DEF PrefixOf
  <2> HIDE DEF e
  <2>2. SubSeq(b, 1, e) \in Seq(STRING) /\ SubSeq(s, 1, e) \in Seq(STRING)
    BY <2>1
  <2>3. Len(SubSeq(b, 1, e)) = e /\ Len(SubSeq(s, 1, e)) = e
    BY <2>1
  <2>4. \A i \in 1 .. e : SubSeq(b, 1, e)[i] = SubSeq(s, 1, e)[i]
    BY <1>1, <2>1 DEF PrefixOf
  <2>5. SubSeq(b, 1, e) = SubSeq(s, 1, e)
    BY <2>2, <2>3, <2>4
  <2> QED
    BY <2>5, Zenon DEF e
<1> QED
  BY <1>3, <1>10, <1>11, Zenon DEF Block

\* A message is found whole, whatever follows it and however much of that was read.
LEMMA FramedPrefix ==
  ASSUME NEW m \in Seq(STRING), Framed(m), NEW x \in Seq(STRING),
         NEW b \in Seq(STRING), PrefixOf(b, m \o x), Terminators(b) # {}
  PROVE  /\ HeaderEnd(b) = HeaderEnd(m) /\ Block(b) = Block(m)
         /\ HeaderEnd(b) + 1 + BodyLength(Block(b)) = Len(m)
<1>1. m \o x \in Seq(STRING) /\ PrefixOf(m, m \o x)
  BY DEF PrefixOf
<1>2. Terminators(m) # {}
  BY DEF Framed
<1>3. HeaderEnd(m) = HeaderEnd(m \o x) /\ Block(m) = Block(m \o x)
  BY <1>1, <1>2, PrefixBlock, Zenon
<1>4. HeaderEnd(b) = HeaderEnd(m \o x) /\ Block(b) = Block(m \o x)
  BY <1>1, PrefixBlock, Zenon
<1> QED
  BY <1>3, <1>4 DEF Framed

\* Where the header block of a framed message ends.
LEMMA HeaderEndOf ==
  ASSUME NEW m \in Seq(STRING), Terminators(m) # {}
  PROVE  /\ HeaderEnd(m) \in 1 .. Len(m) - 1 /\ m[HeaderEnd(m)] = nl /\ m[HeaderEnd(m) + 1] = nl
         /\ \A i \in Terminators(m) : HeaderEnd(m) <= i
<1>1. Len(m) \in Nat
  OBVIOUS
<1>2. Terminators(m) \in SUBSET Nat
  BY <1>1 DEF Terminators
<1>3. HeaderEnd(m) \in Terminators(m) /\ \A i \in Terminators(m) : HeaderEnd(m) <= i
  BY <1>2, MinOf DEF HeaderEnd
<1> QED
  BY <1>3 DEF Terminators

\* A message that has not been read to its terminator was read no further than
\* the newline of its last header.
LEMMA UnframedPrefix ==
  ASSUME NEW m \in Seq(STRING), Framed(m), NEW x \in Seq(STRING),
         NEW b \in Seq(STRING), PrefixOf(b, m \o x), Terminators(b) = {}
  PROVE  Len(b) <= HeaderEnd(m) /\ \A i \in 1 .. Len(b) : b[i] = m[i]
<1>1. /\ HeaderEnd(m) \in 1 .. Len(m) - 1 /\ m[HeaderEnd(m)] = nl /\ m[HeaderEnd(m) + 1] = nl
  BY HeaderEndOf DEF Framed
<1>2. Len(m) \in Nat /\ Len(b) \in Nat /\ Len(x) \in Nat /\ \A i \in 1 .. Len(m) : (m \o x)[i] = m[i]
  OBVIOUS
<1>3. ASSUME HeaderEnd(m) + 1 <= Len(b) PROVE FALSE
  <2>1. HeaderEnd(m) \in 1 .. Len(b) - 1 /\ HeaderEnd(m) \in 1 .. Len(b) /\ HeaderEnd(m) + 1 \in 1 .. Len(b)
    BY <1>1, <1>2, <1>3
  <2>2. HeaderEnd(m) \in 1 .. Len(m) /\ HeaderEnd(m) + 1 \in 1 .. Len(m)
    BY <1>1, <1>2
  <2>3. b[HeaderEnd(m)] = nl /\ b[HeaderEnd(m) + 1] = nl
    BY <1>1, <1>2, <2>1, <2>2 DEF PrefixOf
  <2> QED
    BY <2>1, <2>3 DEF Terminators
<1>4. Len(b) <= HeaderEnd(m)
  BY <1>1, <1>2, <1>3
<1>5. \A i \in 1 .. Len(b) : i \in 1 .. Len(m)
  BY <1>1, <1>2, <1>4
<1> QED
  BY <1>2, <1>4, <1>5 DEF PrefixOf

-----------------------------------------------------------------------------
\* A reply that says the client is in has a Reply-Text line with a plus sign.
LEMMA OkHasPlus ==
  ASSUME NEW b \in Seq(STRING), SaysOk(Header(b, RT))
  PROVE  \E i \in 1 .. Len(b) - 2 : b[i] = RT /\ b[i + 1] = ":" /\ b[i + 2] = "+"
<1> DEFINE line == Max(Lines(b, RT))
           end == LineEnd(b, line)
           v == SubSeq(b, line + 2, end)
<1>1. Len(b) \in Nat
  OBVIOUS
<1>2. Lines(b, RT) # {} /\ Header(b, RT) = v
  BY Zenon DEF SaysOk, Header
<1>3. Lines(b, RT) \in SUBSET (1 .. Len(b))
  BY DEF Lines, Starts
<1>4. line \in Lines(b, RT)
  BY <1>1, <1>2, <1>3, MaxOf, Zenon
<1>5. line \in 1 .. Len(b) - 1 /\ b[line] = RT /\ b[line + 1] = ":"
  BY <1>1, <1>3, <1>4 DEF Lines
<1>6. end \in Int /\ end <= Len(b)
  <2> DEFINE S == {j \in Newlines(b) : line <= j} \cup {Len(b) + 1}
  <2>1. S \in SUBSET Nat /\ Len(b) + 1 \in S
    BY <1>1 DEF Newlines
  <2>2. Min(S) \in S /\ Min(S) <= Len(b) + 1
    <3> HIDE DEF S
    <3> QED BY <2>1, MinOf
  <2>3. end = Min(S) - 1
    BY DEF LineEnd
  <2> DEFINE k == Min(S)
  <2>4. k \in Nat /\ k <= Len(b) + 1 /\ end = k - 1
    <3> HIDE DEF S
    <3> QED BY <2>1, <2>2, <2>3, Zenon
  <2> HIDE DEF k, end
  <2> QED
    BY <1>1, <2>4
<1> HIDE DEF line, end
<1>7. v # <<>> /\ Len(v) >= 2 /\ SubSeq(v, 1, 2) = <<"+", "OK">>
  BY <1>2, Zenon DEF SaysOk, is_success
<1>8. line + 2 <= end
  BY <1>1, <1>5, <1>6, <1>7
<1>9. v[1] = b[line + 2] /\ v \in Seq(STRING)
  BY <1>1, <1>5, <1>6, <1>8
<1>10. SubSeq(v, 1, 2)[1] = v[1]
  <2> HIDE DEF v
  <2> QED BY <1>7, <1>9
<1>11. b[line + 2] = "+"
  <2> HIDE DEF v
  <2>1. <<"+", "OK">>[1] = "+"
    OBVIOUS
  <2> QED BY <1>7, <1>9, <1>10, <2>1, Zenon
<1>12. line \in 1 .. Len(b) - 2
  BY <1>1, <1>5, <1>6, <1>8
<1> QED
  BY <1>5, <1>11, <1>12

-----------------------------------------------------------------------------
\* A truncated acceptance has no terminator and no Content-Length line.
LEMMA TruncatedPart ==
  ASSUME NEW a \in Acceptances, NEW n \in 1 .. HeaderEnd(a)
  PROVE  /\ SubSeq(a, 1, n) \in Seq(STRING) /\ Len(SubSeq(a, 1, n)) \in Nat \ {0}
         /\ Terminators(SubSeq(a, 1, n)) = {} /\ Lines(SubSeq(a, 1, n), CL) = {}
<1> DEFINE t == SubSeq(a, 1, n)
           h == HeaderEnd(a)
<1>1. a \in Seq(STRING) /\ Terminators(a) # {} /\ Lines(Block(a), CL) = {}
  BY MessagesFramed, AcceptancesBare DEF Framed, BodyLength
<1>2. h \in 1 .. Len(a) - 1 /\ a[h] = nl /\ a[h + 1] = nl /\ (\A i \in Terminators(a) : h <= i) /\ Len(a) \in Nat
  BY <1>1, HeaderEndOf
<1> HIDE DEF h
<1>3. n \in 1 .. h
  BY DEF h
<1>4. t \in Seq(STRING) /\ Len(t) = n /\ n \in Nat \ {0} /\ \A i \in 1 .. n : t[i] = a[i]
  BY <1>1, <1>2, <1>3
<1> HIDE DEF t
<1>5. ASSUME NEW i \in Terminators(t) PROVE FALSE
  <2>1. i \in 1 .. n - 1 /\ t[i] = nl /\ t[i + 1] = nl
    BY <1>4 DEF Terminators
  <2>2. i \in 1 .. n /\ i + 1 \in 1 .. n /\ i \in 1 .. Len(a) - 1 /\ i < h
    BY <1>2, <1>3, <2>1
  <2>3. i \in Terminators(a)
    BY <1>4, <2>1, <2>2 DEF Terminators
  <2> QED
    BY <1>2, <2>2, <2>3
<1>6. ASSUME NEW i \in Lines(t, CL) PROVE FALSE
  <2>1. i \in 1 .. n /\ i < n /\ t[i] = CL /\ t[i + 1] = ":" /\ (i = 1 \/ t[i - 1] = nl)
    BY <1>4 DEF Lines, Starts
  <2>2. a[i] = CL /\ a[i + 1] = ":" /\ (i = 1 \/ a[i - 1] = nl)
    <3>1. i + 1 \in 1 .. n /\ (i # 1 => i - 1 \in 1 .. n)
      BY <1>3, <2>1
    <3> QED
      BY <1>4, <2>1, <3>1
  <2>3. i + 1 # h
    BY <1>2, <2>2 DEF nl
  <2>4. i + 1 <= h - 1
    BY <1>2, <1>3, <2>1, <2>3
  <2>5. /\ Block(a) \in Seq(STRING) /\ Len(Block(a)) = h - 1
        /\ \A j \in 1 .. h - 1 : Block(a)[j] = a[j]
    BY <1>1, <1>2, SMTT(30) DEF Block, h
  <2>6. i \in 1 .. h - 1 /\ i + 1 \in 1 .. h - 1 /\ (i # 1 => i - 1 \in 1 .. h - 1)
    BY <1>2, <2>1, <2>4
  <2>7. i \in Starts(Block(a))
    BY <2>2, <2>5, <2>6 DEF Starts, CL, nl
  <2>8. i < Len(Block(a)) /\ Block(a)[i] = CL /\ Block(a)[i + 1] = ":"
    BY <1>2, <2>2, <2>4, <2>5, <2>6
  <2>9. i \in Lines(Block(a), CL)
    BY <2>7, <2>8 DEF Lines
  <2> QED
    BY <1>1, <2>9
<1>7. Terminators(t) = {} /\ Lines(t, CL) = {}
  BY <1>5, <1>6
<1> QED
  BY <1>4, <1>7 DEF t

\* A message that follows a truncated reply ends the header block of both; its
\* first line may be lost in the truncated one, its Content-Length is not.
LEMMA MergedBlock ==
  ASSUME NEW t \in Seq(STRING), Len(t) # 0, Terminators(t) = {}, Lines(t, CL) = {}, NEW m \in Notices
  PROVE  /\ Terminators(t \o m) # {} /\ HeaderEnd(t \o m) = Len(t) + HeaderEnd(m)
         /\ BodyLength(Block(t \o m)) = BodyLength(Block(m))
<1> DEFINE s == t \o m
           h == HeaderEnd(m)
           l == Len(t)
<1>1. m \in Seq(STRING) /\ Terminators(m) # {} /\ m[1] = CT /\ Len(m) \in Nat
  BY MessagesFramed, NoticesTyped DEF Framed
<1>2. h \in 1 .. Len(m) - 1 /\ m[h] = nl /\ m[h + 1] = nl /\ (\A i \in Terminators(m) : h <= i)
  BY <1>1, HeaderEndOf
<1>3. /\ s \in Seq(STRING) /\ Len(s) = l + Len(m) /\ l \in Nat \ {0}
      /\ \A i \in 1 .. l : s[i] = t[i]
      /\ \A i \in 1 .. Len(m) : s[l + i] = m[i]
  BY <1>1
<1> HIDE DEF s, h, l
<1>4. l + h \in Terminators(s)
  <2>1. s[l + h] = nl /\ s[l + (h + 1)] = nl
    <3>1. h \in 1 .. Len(m) /\ h + 1 \in 1 .. Len(m)
      BY <1>1, <1>2
    <3> QED
      BY <1>2, <1>3, <3>1
  <2>2. l + h \in 1 .. Len(s) - 1 /\ l + (h + 1) = (l + h) + 1
    BY <1>1, <1>2, <1>3
  <2> QED
    BY <2>1, <2>2 DEF Terminators
<1>5. ASSUME NEW i \in Terminators(s) PROVE l + h <= i
  <2>1. i \in 1 .. Len(s) - 1 /\ s[i] = nl /\ s[i + 1] = nl
    BY DEF Terminators
  <2>2. CASE i < l
    <3>1. i \in 1 .. l - 1 /\ i \in 1 .. l /\ i + 1 \in 1 .. l
      BY <1>3, <2>1, <2>2
    <3>2. t[i] = nl /\ t[i + 1] = nl
      BY <1>3, <2>1, <3>1
    <3> QED
      BY <3>1, <3>2, Zenon DEF Terminators, l
  <2>3. CASE i = l
    <3>1. s[l + 1] = CT
      BY <1>1, <1>2, <1>3
    <3> QED
      BY <2>1, <2>3, <3>1 DEF CT, nl
  <2>4. CASE i > l
    <3> DEFINE j == i - l
    <3>1. j \in 1 .. Len(m) - 1 /\ j \in 1 .. Len(m) /\ j + 1 \in 1 .. Len(m) /\ l + j = i /\ l + (j + 1) = i + 1
      BY <1>1, <1>3, <2>1, <2>4
    <3> HIDE DEF j
    <3>2. m[j] = nl /\ m[j + 1] = nl
      BY <1>3, <2>1, <3>1, Zenon
    <3>3. h <= j
      BY <1>2, <3>1, <3>2 DEF Terminators
    <3> QED
      BY <1>2, <1>3, <3>1, <3>3
  <2> QED
    BY <1>3, <2>1, <2>2, <2>3, <2>4
<1>6. HeaderEnd(s) = l + h
  <2>1. Terminators(s) \in SUBSET Nat
    BY <1>1, <1>3 DEF Terminators
  <2>2. HeaderEnd(s) \in Terminators(s) /\ \A i \in Terminators(s) : HeaderEnd(s) <= i
    BY <1>4, <2>1, MinOf DEF HeaderEnd
  <2>3. HeaderEnd(s) <= l + h /\ l + h <= HeaderEnd(s) /\ HeaderEnd(s) \in Nat /\ l + h \in Nat
    BY <1>4, <1>5, <2>1, <2>2
  <2> QED
    BY <2>3
<1>7. h # 1
  BY <1>1, <1>2 DEF CT, nl
<1> DEFINE b == Block(s)
           c == Block(m)
<1>8. b \in Seq(STRING) /\ Len(b) = l + h - 1 /\ \A i \in 1 .. l + h - 1 : b[i] = s[i]
  BY <1>1, <1>2, <1>3, <1>6 DEF Block
<1>9. c \in Seq(STRING) /\ Len(c) = h - 1 /\ \A i \in 1 .. h - 1 : c[i] = m[i]
  BY <1>1, <1>2, SMTT(30) DEF Block, h
<1>10. \A i \in 1 .. l : b[i] = t[i]
  BY <1>2, <1>3, <1>7, <1>8
<1>11. \A i \in 1 .. h - 1 : b[l + i] = c[i]
  <2> SUFFICES ASSUME NEW i \in 1 .. h - 1 PROVE b[l + i] = c[i]
    OBVIOUS
  <2>1. i \in 1 .. Len(m) /\ l + i \in 1 .. l + h - 1
    BY <1>1, <1>2, <1>3, SMTT(30)
  <2> QED
    BY <1>3, <1>8, <1>9, <2>1, SMTT(30)
<1>12. c[1] = CT /\ b[l + 1] = CT
  <2>1. 1 \in 1 .. h - 1
    BY <1>2, <1>7
  <2> QED
    BY <1>1, <1>9, <1>11, <2>1
<1> HIDE DEF b, c
<1>13. ASSUME NEW i \in Lines(b, CL) PROVE Lines(c, CL) # {}
  <2>1. i \in 1 .. l + h - 1 /\ i < l + h - 1 /\ b[i] = CL /\ b[i + 1] = ":" /\ (i = 1 \/ b[i - 1] = nl)
    BY <1>8 DEF Lines, Starts
  <2>2. CASE i < l
    <3>1. i \in 1 .. l /\ i + 1 \in 1 .. l /\ (i # 1 => i - 1 \in 1 .. l)
      BY <1>3, <2>1, <2>2
    <3>2. t[i] = CL /\ t[i + 1] = ":" /\ (i = 1 \/ t[i - 1] = nl)
      BY <1>10, <2>1, <3>1
    <3>3. i \in Starts(t)
      BY <3>1, <3>2 DEF Starts, l, CL, nl
    <3> QED
      BY <2>2, <3>2, <3>3 DEF Lines, l
  <2>3. CASE i = l
    BY <1>12, <2>1, <2>3 DEF CT
  <2>4. CASE i = l + 1
    BY <1>12, <2>1, <2>4 DEF CT, CL
  <2>5. CASE i > l + 1
    <3> DEFINE j == i - l
    <3>1. j \in 1 .. h - 1 /\ j < h - 1 /\ j # 1 /\ j + 1 \in 1 .. h - 1 /\ j - 1 \in 1 .. h - 1
      BY <1>2, <1>3, <2>1, <2>5
    <3>2. i = l + j /\ i + 1 = l + (j + 1) /\ i - 1 = l + (j - 1) /\ i # 1
      BY <1>3, <2>1, <2>5
    <3> HIDE DEF j
    <3>3. c[j] = CL /\ c[j + 1] = ":" /\ c[j - 1] = nl
      BY <1>11, <2>1, <3>1, <3>2
    <3>4. j \in Starts(c)
      BY <1>9, <3>1, <3>3 DEF Starts, CL, nl
    <3> QED
      BY <1>9, <3>1, <3>3, <3>4, SMTT(30) DEF Lines
  <2> QED
    BY <1>3, <2>1, <2>2, <2>3, <2>4, <2>5
<1>14. ASSUME NEW j \in Lines(c, CL) PROVE Lines(b, CL) # {}
  <2>1. j \in 1 .. h - 1 /\ j < h - 1 /\ c[j] = CL /\ c[j + 1] = ":" /\ (j = 1 \/ c[j - 1] = nl)
    BY <1>9 DEF Lines, Starts
  <2>2. j # 1
    BY <1>12, <2>1 DEF CT, CL
  <2>3. j + 1 \in 1 .. h - 1 /\ j - 1 \in 1 .. h - 1
    BY <1>2, <2>1, <2>2
  <2> DEFINE i == l + j
  <2>4. i + 1 = l + (j + 1) /\ i - 1 = l + (j - 1) /\ i \in 1 .. l + h - 1 /\ i < l + h - 1
    BY <1>2, <1>3, <2>1
  <2>5. b[i] = CL /\ b[i + 1] = ":" /\ b[i - 1] = nl
    BY <1>11, <2>1, <2>2, <2>3, <2>4
  <2> HIDE DEF i
  <2>6. i \in Starts(b)
    BY <1>8, <2>4, <2>5 DEF Starts, CL, nl
  <2> QED
    BY <1>8, <2>4, <2>5, <2>6, SMTT(30) DEF Lines
<1>15. BodyLength(b) = BodyLength(c)
  BY <1>13, <1>14 DEF BodyLength
<1> QED
  BY <1>4, <1>6, <1>15 DEF s, h, l, b, c

-----------------------------------------------------------------------------
(***************************************************************************)
(* What the client makes of a reply r and what follows it, having read the *)
(* part b of them.                                                         *)
(***************************************************************************)
Follows == {<<>>} \cup Notices
LetsIn == Acceptances \cup Truncated

\* Everything the server writes is a sequence of tokens.
LEMMA WritesTokens ==
  /\ Greetings \subseteq Seq(STRING) /\ Replies \subseteq Seq(STRING) /\ Follows \subseteq Seq(STRING)
<1>1. Greetings \cup Acceptances \cup Refusals \cup Notices \subseteq Seq(STRING)
  BY MessagesFramed
<1>2. Truncated \subseteq Seq(STRING)
  BY TruncatedPart DEF Truncated
<1>3. <<>> \in Seq(STRING)
  OBVIOUS
<1> QED
  BY <1>1, <1>2, <1>3, Zenon DEF Replies, Follows

\* A parsed reply ends where the server ended it, or where the message ends that
\* was glued to a truncated one.
LEMMA ReplyEnds ==
  ASSUME NEW r \in Replies, NEW more \in Follows, NEW b \in Seq(STRING),
         PrefixOf(b, r \o more), Terminators(b) # {}
  PROVE  HeaderEnd(b) + 1 + BodyLength(Block(b)) \in {Len(r), Len(r) + Len(more)}
<1>1. r \in Seq(STRING) /\ more \in Seq(STRING) /\ r \o more \in Seq(STRING)
  BY WritesTokens
<1>2. CASE r \in Acceptances \cup Refusals \cup Notices
  <2>1. Framed(r)
    BY <1>2, MessagesFramed
  <2> QED
    BY <1>1, <2>1, FramedPrefix
<1>3. CASE r \in Truncated
  <2>1. /\ Len(r) \in Nat \ {0} /\ Terminators(r) = {} /\ Lines(r, CL) = {}
    BY <1>3, TruncatedPart, ZenonT(30) DEF Truncated
  <2>2. /\ Terminators(r \o more) # {} /\ HeaderEnd(b) = HeaderEnd(r \o more) /\ Block(b) = Block(r \o more)
    BY <1>1, PrefixBlock, Zenon
  <2>3. more # <<>>
    <3>1. r \o <<>> = r
      BY <1>1
    <3> QED
      BY <2>1, <2>2, <3>1, Zenon
  <2>4. more \in Notices
    BY <2>3 DEF Follows
  <2>5. /\ HeaderEnd(r \o more) = Len(r) + HeaderEnd(more)
        /\ BodyLength(Block(r \o more)) = BodyLength(Block(more))
    BY <1>1, <2>1, <2>4, MergedBlock
  <2>6. /\ Terminators(more) # {} /\ Len(more) = HeaderEnd(more) + 1 + BodyLength(Block(more))
    BY <2>4, MessagesFramed DEF Framed
  <2>7. HeaderEnd(more) \in Nat /\ BodyLength(Block(more)) \in Nat
    BY <1>1, <2>6, HeaderEndOf DEF BodyLength
  <2> QED
    BY <2>1, <2>2, <2>5, <2>6, <2>7
<1> QED
  BY <1>2, <1>3 DEF Replies

\* No part of a refusal or a notice reads as an acceptance.
LEMMA RefusalSaysNo ==
  ASSUME NEW r \in Refusals \cup Notices, NEW b \in Seq(STRING), Len(b) <= HeaderEnd(r),
         \A i \in 1 .. Len(b) : b[i] = r[i]
  PROVE  ~SaysOk(Header(b, RT))
<1> SUFFICES ASSUME SaysOk(Header(b, RT)) PROVE FALSE
  OBVIOUS
<1>1. PICK i \in 1 .. Len(b) - 2 : b[i] = RT /\ b[i + 1] = ":" /\ b[i + 2] = "+"
  BY OkHasPlus
<1>2. r \in Seq(STRING) /\ Terminators(r) # {}
  BY MessagesFramed DEF Framed
<1>3. HeaderEnd(r) \in Nat /\ Len(b) \in Nat
  BY <1>2, HeaderEndOf
<1>4. i \in 1 .. HeaderEnd(r) - 2 /\ i \in 1 .. Len(b) /\ i + 1 \in 1 .. Len(b) /\ i + 2 \in 1 .. Len(b)
  BY <1>3
<1>5. r[i] = RT /\ r[i + 1] = ":" /\ r[i + 2] = "+"
  BY <1>1, <1>4
<1> QED
  BY <1>4, <1>5, OthersRefuse

\* A parsed reply says that the client is in only if the server let it in.
LEMMA ParsedMeans ==
  ASSUME NEW r \in Replies, NEW more \in Follows, NEW b \in Seq(STRING),
         PrefixOf(b, r \o more), Terminators(b) # {}, SaysOk(Header(Block(b), RT))
  PROVE  r \in LetsIn
<1> SUFFICES ASSUME r \in Refusals \cup Notices PROVE FALSE
  BY DEF Replies, LetsIn
<1>1. r \in Seq(STRING) /\ more \in Seq(STRING)
  BY WritesTokens
<1>2. Framed(r)
  BY MessagesFramed
<1>3. Block(b) = Block(r)
  BY <1>1, <1>2, FramedPrefix
<1>4. HeaderEnd(r) \in 1 .. Len(r) - 1 /\ Len(r) \in Nat
  BY <1>1, <1>2, HeaderEndOf DEF Framed
<1>5. /\ Block(r) \in Seq(STRING) /\ Len(Block(r)) = HeaderEnd(r) - 1
      /\ \A i \in 1 .. HeaderEnd(r) - 1 : Block(r)[i] = r[i]
  BY <1>1, <1>4 DEF Block
<1>6. Len(Block(r)) <= HeaderEnd(r)
  BY <1>4, <1>5
<1> QED
  BY <1>3, <1>5, <1>6, RefusalSaysNo

\* So does a reply that was salvaged before it was complete.
LEMMA SalvagedMeans ==
  ASSUME NEW r \in Replies, NEW more \in Follows, NEW b \in Seq(STRING),
         PrefixOf(b, r \o more), Terminators(b) = {}, Newlines(b) # {},
         SaysOk(Header(SalvageBlock(b), RT))
  PROVE  r \in LetsIn
<1> SUFFICES ASSUME r \in Refusals \cup Notices PROVE FALSE
  BY DEF Replies, LetsIn
<1>1. r \in Seq(STRING) /\ more \in Seq(STRING)
  BY WritesTokens
<1>2. Framed(r)
  BY MessagesFramed
<1>3. Len(b) <= HeaderEnd(r) /\ \A i \in 1 .. Len(b) : b[i] = r[i]
  BY <1>1, <1>2, UnframedPrefix
<1>4. HeaderEnd(r) \in Nat /\ Len(b) \in Nat
  BY <1>1, <1>2, HeaderEndOf DEF Framed
<1>5. LastNewline(b) \in 1 .. Len(b)
  <2>1. Newlines(b) \in SUBSET (1 .. Len(b))
    BY DEF Newlines
  <2> QED
    BY <1>4, <2>1, MaxOf, SMTT(30) DEF LastNewline
<1> DEFINE c == SalvageBlock(b)
           n == LastNewline(b) - 1
<1>6. /\ c \in Seq(STRING) /\ Len(c) <= Len(b) /\ Len(c) \in Nat
      /\ \A i \in 1 .. Len(c) : c[i] = b[i]
  <2>1. CASE c = b
    BY <1>4, <2>1
  <2>2. CASE c = SubSeq(b, 1, n)
    <3>1. n \in Nat /\ n <= Len(b)
      BY <1>4, <1>5
    <3> HIDE DEF n
    <3>2. SubSeq(b, 1, n) \in Seq(STRING) /\ Len(SubSeq(b, 1, n)) = n /\ \A i \in 1 .. n : SubSeq(b, 1, n)[i] = b[i]
      BY <1>4, <3>1
    <3> HIDE DEF c
    <3> QED
      BY <2>2, <3>1, <3>2
  <2> QED
    BY <2>1, <2>2, Zenon DEF SalvageBlock
<1>7. Len(c) <= HeaderEnd(r) /\ \A i \in 1 .. Len(c) : c[i] = r[i]
  <2> HIDE DEF c
  <2>1. \A i \in 1 .. Len(c) : i \in 1 .. Len(b)
    BY <1>4, <1>6
  <2> QED
    BY <1>3, <1>4, <1>6, <2>1
<1> QED
  BY <1>6, <1>7, RefusalSaysNo

-----------------------------------------------------------------------------
(***************************************************************************)
(* The invariant: until authenticate() returns, the parser stands at the   *)
(* message it waits for or one body short of its end, what is left of the  *)
(* stream starts with that message, and a text that was parsed already     *)
(* says what the server meant.                                             *)
(***************************************************************************)
Shape ==
  /\ greeting \in Greetings /\ stream \in Seq(STRING)
  /\ pos \in Nat /\ read \in Nat /\ arrived \in Nat
  /\ pos <= read /\ read <= arrived /\ arrived <= Len(stream)
  /\ pc \in {"start", "greeting", "writing", "reply", "done"}
  /\ pc # "done" => result = "none"

Waiting(from) ==
  /\ pending = NoBody => pos = from
  /\ pending # NoBody => pending.body = 1 /\ pos + 1 \in ends

BeforeGreeting ==
  pc \in {"start", "greeting"} => stream = greeting /\ ends = {Len(greeting)} /\ Waiting(0)

BeforeWrite ==
  pc = "writing" =>
    stream = greeting /\ ends = {Len(greeting)} /\ pending = NoBody /\ pos = Len(greeting)

Replied(r, more) ==
  /\ stream = greeting \o (r \o more)
  /\ {Len(greeting) + Len(r), Len(stream)} \subseteq ends
  /\ r \in LetsIn => accepted

BeforeReply ==
  pc = "reply" =>
    /\ Waiting(Len(greeting))
    /\ pending # NoBody /\ SaysOk(pending.reply) => accepted
    /\ stream = greeting \/ \E r \in Replies, more \in Follows : Replied(r, more)

IInv ==
  /\ Shape /\ BeforeGreeting /\ BeforeWrite /\ BeforeReply
  /\ StartsOnBoundary /\ OkMeansAccepted

\* The buffer is the part of the stream between what was consumed and what was read.
LEMMA BufferOf ==
  ASSUME Shape
  PROVE  /\ Buffer \in Seq(STRING) /\ Len(Buffer) = read - pos
         /\ \A i \in 1 .. read - pos : Buffer[i] = stream[pos + i]
<1>1. /\ stream \in Seq(STRING) /\ pos \in Nat /\ read \in Nat /\ pos <= read /\ read <= Len(stream)
      /\ Len(stream) \in Nat
  BY DEF Shape
<1> QED
  BY <1>1 DEF Buffer

\* What is in the buffer while the greeting is awaited.
LEMMA GreetingBuffer ==
  ASSUME Shape, BeforeGreeting, pc = "greeting", HeadersComplete
  PROVE  /\ pos = 0 /\ HeaderEnd(Buffer) \in 1 .. read - pos - 1
         /\ HeaderEnd(Buffer) + 1 + BodyLength(Block(Buffer)) = Len(greeting)
<1>1. /\ stream = greeting /\ pos = 0 /\ greeting \in Seq(STRING) /\ Framed(greeting) /\ Terminators(Buffer) # {}
  BY MessagesFramed DEF Shape, BeforeGreeting, HeadersComplete, Waiting
<1>2. greeting \o <<>> = greeting /\ <<>> \in Seq(STRING) /\ Len(greeting) \in Nat
  BY <1>1
<1>3. PrefixOf(Buffer, greeting) /\ Buffer \in Seq(STRING) /\ Len(Buffer) = read - pos
  BY <1>1, <1>2, BufferOf DEF Shape, PrefixOf
<1>4. HeaderEnd(Buffer) + 1 + BodyLength(Block(Buffer)) = Len(greeting)
  BY <1>1, <1>2, <1>3, FramedPrefix, Zenon
<1>5. HeaderEnd(Buffer) \in 1 .. Len(Buffer) - 1
  BY <1>1, <1>3, HeaderEndOf
<1> QED
  BY <1>1, <1>3, <1>4, <1>5

\* What is in the buffer while the reply is awaited.
LEMMA ReplyBuffer ==
  ASSUME Shape, pos = Len(greeting), NEW r \in Replies, NEW more \in Follows, Replied(r, more)
  PROVE  PrefixOf(Buffer, r \o more)
<1>1. greeting \in Seq(STRING) /\ r \in Seq(STRING) /\ more \in Seq(STRING)
  BY WritesTokens DEF Shape
<1>2. r \o more \in Seq(STRING) /\ Len(greeting) \in Nat /\ Len(r \o more) \in Nat
  BY <1>1
<1> DEFINE w == r \o more
<1>3. w \in Seq(STRING) /\ Len(w) \in Nat /\ stream = greeting \o w
  BY <1>2 DEF Replied
<1> HIDE DEF w
<1>4. Len(stream) = Len(greeting) + Len(w) /\ \A i \in 1 .. Len(w) : stream[Len(greeting) + i] = w[i]
  BY <1>1, <1>3
<1>5. /\ Len(Buffer) = read - pos /\ read \in Nat /\ pos \in Nat /\ pos <= read /\ read <= Len(stream)
      /\ \A i \in 1 .. read - pos : Buffer[i] = stream[pos + i]
  BY BufferOf, <1>2, <1>4 DEF Shape
<1>6. Len(Buffer) <= Len(w) /\ \A i \in 1 .. Len(Buffer) : i \in 1 .. Len(w)
  BY <1>2, <1>3, <1>4, <1>5
<1>7. PrefixOf(Buffer, w)
  BY <1>4, <1>5, <1>6 DEF PrefixOf
<1> QED
  BY <1>7 DEF w

\* A server that closed before the reply leaves nothing in the buffer.
LEMMA NothingBuffered ==
  ASSUME Shape, pos = Len(greeting), stream = greeting
  PROVE  Terminators(Buffer) = {} /\ Newlines(Buffer) = {}
<1>1. greeting \in Seq(STRING)
  BY WritesTokens DEF Shape
<1>2. Len(Buffer) = read - pos /\ Buffer \in Seq(STRING) /\ read - pos = 0
  BY <1>1, BufferOf DEF Shape
<1>3. DOMAIN Buffer = {} /\ Len(Buffer) = 0
  BY <1>2
<1> QED
  BY <1>3 DEF Terminators, Newlines

-----------------------------------------------------------------------------
\* Init satisfies the invariant.
LEMMA InitIInv == Init => IInv
<1> SUFFICES ASSUME Init PROVE IInv
  OBVIOUS
<1>1. greeting \in Seq(STRING) /\ stream = greeting /\ Len(greeting) \in Nat
  BY WritesTokens DEF Init
<1>2. Shape
  BY <1>1 DEF Init, Shape
<1>3. BeforeGreeting /\ BeforeWrite /\ BeforeReply
  BY DEF Init, BeforeGreeting, BeforeWrite, BeforeReply, Waiting
<1>4. StartsOnBoundary /\ OkMeansAccepted
  BY DEF Init, StartsOnBoundary, OkMeansAccepted
<1> QED
  BY <1>2, <1>3, <1>4 DEF IInv

\* A return other than Ok, with the parser anywhere, keeps the invariant.
LEMMA ReturnsError ==
  ASSUME IInv, pc # "done", NEW e \in Results \ {"none", "ok"}, Return(e), Shape'
  PROVE  IInv'
<1>1. pc' = "done" /\ result' = e /\ e # "ok"
  BY DEF Return
<1>2. StartsOnBoundary' /\ OkMeansAccepted'
  BY <1>1 DEF StartsOnBoundary, OkMeansAccepted
<1>3. BeforeGreeting' /\ BeforeWrite' /\ BeforeReply'
  BY <1>1 DEF BeforeGreeting, BeforeWrite, BeforeReply
<1> QED
  BY <1>2, <1>3 DEF IInv

\* The parser's header step.
LEMMA HeaderStep ==
  ASSUME IInv, ParseHeaderFrame
  PROVE  IInv'
<1> DEFINE block == Block(Buffer)
           h == HeaderEnd(Buffer)
<1>1. /\ Shape /\ BeforeGreeting /\ BeforeReply /\ pc \in {"greeting", "reply"} /\ HeadersComplete
      /\ pending = NoBody /\ Terminators(Buffer) # {} /\ result = "none"
  BY DEF IInv, ParseHeaderFrame, Receiving, HeadersComplete, Shape
<1>2. /\ pos' = pos + h + 1
      /\ UNCHANGED <<stream, ends, greeting, accepted, arrived, read, salvaged>>
  BY DEF ParseHeaderFrame, AfterBlock, serverVars
<1>3. Buffer \in Seq(STRING) /\ Len(Buffer) = read - pos /\ h \in 1 .. read - pos - 1
  BY <1>1, BufferOf, HeaderEndOf
<1>4. pos \in Nat /\ read \in Nat /\ pos <= read /\ pos + h + 1 \in Nat /\ pos + h + 1 <= read
  BY <1>1, <1>3 DEF Shape
<1>5. /\ greeting' \in Greetings /\ stream' \in Seq(STRING)
      /\ pos' \in Nat /\ read' \in Nat /\ arrived' \in Nat
      /\ pos' <= read' /\ read' <= arrived' /\ arrived' <= Len(stream')
  BY <1>1, <1>2, <1>4, SMTT(30) DEF Shape
<1>6. \/ TypeOf(block) = "error" /\ Return("ProtocolError")
      \/ BodyLength(block) = 0 /\ Message(TypeOf(block), Header(block, RT)) /\ UNCHANGED pending
      \/ /\ BodyLength(block) > 0
         /\ pending' = [type |-> TypeOf(block), reply |-> Header(block, RT), body |-> BodyLength(block)]
         /\ UNCHANGED <<pc, text, result>>
  BY DEF ParseHeaderFrame
<1>7. BodyLength(block) \in {0, 1}
  BY DEF BodyLength
<1>8. pc = "greeting" => stream = greeting /\ ends = {Len(greeting)} /\ pos + h + 1 + BodyLength(block) = Len(greeting)
  <2> SUFFICES ASSUME pc = "greeting" PROVE stream = greeting /\ ends = {Len(greeting)} /\ pos + h + 1 + BodyLength(block) = Len(greeting)
    OBVIOUS
  <2>1. stream = greeting /\ ends = {Len(greeting)}
    BY <1>1 DEF BeforeGreeting
  <2>2. pos = 0 /\ h + 1 + BodyLength(block) = Len(greeting)
    BY <1>1, GreetingBuffer, SMTT(30)
  <2> QED
    BY <1>3, <1>7, <2>1, <2>2
<1>9. pc = "reply" => /\ pos + h + 1 + BodyLength(block) \in ends
                      /\ SaysOk(Header(block, RT)) => accepted
                      /\ stream = greeting \/ \E r \in Replies, more \in Follows : Replied(r, more)
  <2> SUFFICES ASSUME pc = "reply"
               PROVE  /\ pos + h + 1 + BodyLength(block) \in ends
                      /\ SaysOk(Header(block, RT)) => accepted
                      /\ stream = greeting \/ \E r \in Replies, more \in Follows : Replied(r, more)
    OBVIOUS
  <2>1. pos = Len(greeting) /\ (stream = greeting \/ \E r \in Replies, more \in Follows : Replied(r, more))
    BY <1>1 DEF BeforeReply, Waiting
  <2>2. stream # greeting
    BY <1>1, <2>1, NothingBuffered
  <2>3. PICK r \in Replies, more \in Follows : Replied(r, more)
    BY <2>1, <2>2
  <2>4. PrefixOf(Buffer, r \o more)
    BY <1>1, <2>1, <2>3, ReplyBuffer
  <2>5. h + 1 + BodyLength(block) \in {Len(r), Len(r) + Len(more)}
    BY <1>1, <1>3, <2>4, ReplyEnds
  <2>6. greeting \in Seq(STRING) /\ r \in Seq(STRING) /\ more \in Seq(STRING)
    BY <1>1, WritesTokens DEF Shape
  <2>7. Len(stream) = Len(greeting) + (Len(r) + Len(more)) /\ Len(r) \in Nat /\ Len(more) \in Nat
    BY <2>3, <2>6 DEF Replied
  <2>8. pos + h + 1 + BodyLength(block) \in {Len(greeting) + Len(r), Len(stream)}
    <3> HIDE DEF block, h
    <3> QED BY <1>3, <1>4, <1>7, <2>1, <2>5, <2>7, SMTT(30)
  <2>9. SaysOk(Header(block, RT)) => accepted
    BY <1>1, <1>3, <2>3, <2>4, ParsedMeans DEF Replied
  <2> QED
    BY <2>1, <2>3, <2>8, <2>9, Zenon DEF Replied
<1> HIDE DEF block, h
<1>10. CASE Return("ProtocolError")
  <2>1. Shape'
    BY <1>5, <1>10 DEF Shape, Return
  <2> QED
    BY <1>1, <1>10, <2>1, ReturnsError DEF Results
<1>11. CASE BodyLength(block) = 0 /\ Message(TypeOf(block), Header(block, RT)) /\ UNCHANGED pending
  <2>1. CASE pc = "greeting"
    <3>1. \/ Return("AccessDenied") \/ Return("ProtocolError")
          \/ pc' = "writing" /\ UNCHANGED result
      BY <1>11, <2>1 DEF Message, Greet, Classify
    <3>2. CASE Return("AccessDenied") \/ Return("ProtocolError")
      <4>1. Shape'
        BY <1>5, <3>2, SMTT(30) DEF Shape, Return
      <4> QED
        BY <1>1, <3>2, <4>1, ReturnsError, SMTT(30) DEF Results
    <3>3. CASE pc' = "writing" /\ UNCHANGED result
      <4>1. Shape'
        BY <1>1, <1>5, <3>3, SMTT(30) DEF Shape
      <4>2. pos' = Len(greeting)
        BY <1>2, <1>3, <1>4, <1>8, <1>11, <2>1, SMTT(30)
      <4>3. BeforeWrite'
        BY <1>1, <1>2, <1>8, <1>11, <2>1, <4>2, SMTT(30) DEF BeforeWrite, NoBody
      <4> QED
        BY <1>1, <3>3, <4>1, <4>3, SMTT(30) DEF IInv, BeforeGreeting, BeforeReply, StartsOnBoundary, OkMeansAccepted
    <3> QED
      BY <3>1, <3>2, <3>3
  <2>2. CASE pc = "reply"
    <3>1. /\ text' = Header(block, RT) /\ pc' = "done"
          /\ result' = IF is_success(Header(block, RT)) THEN "ok" ELSE "AuthFailed"
      BY <1>11, <2>2 DEF Message, Greet, Classify, Return
    <3>2. Shape'
      BY <1>5, <3>1 DEF Shape
    <3>3. pos' \in ends'
      BY <1>2, <1>3, <1>4, <1>9, <1>11, <2>2, SMTT(30)
    <3>4. OkMeansAccepted'
      BY <1>2, <1>9, <2>2, <3>1, SMTT(30) DEF OkMeansAccepted, SaysOk
    <3> QED
      BY <3>1, <3>2, <3>3, <3>4 DEF IInv, BeforeGreeting, BeforeWrite, BeforeReply, StartsOnBoundary
  <2> QED
    BY <1>1, <2>1, <2>2
<1>12. CASE /\ BodyLength(block) > 0
            /\ pending' = [type |-> TypeOf(block), reply |-> Header(block, RT), body |-> BodyLength(block)]
            /\ UNCHANGED <<pc, text, result>>
  <2>1. BodyLength(block) = 1
    BY <1>7, <1>12, SMTT(30)
  <2>2. pending'.body = 1 /\ pending'.reply = Header(block, RT) /\ pending' # NoBody
    BY <1>12, <2>1, SMTT(30) DEF NoBody
  <2>3. Shape'
    BY <1>1, <1>5, <1>12 DEF Shape
  <2>4. pos' + 1 = pos + h + 1 + BodyLength(block)
    BY <1>2, <1>3, <1>4, <2>1, SMTT(30)
  <2>5. BeforeGreeting'
    <3>1. pc' = "greeting" => pos' + 1 \in ends'
      BY <1>2, <1>8, <1>12, <2>4, SMTT(30)
    <3>2. NoBody' = NoBody
      BY DEF NoBody, Absent
    <3> QED
      BY <1>1, <1>2, <1>8, <1>12, <2>2, <3>1, <3>2, SMTT(30) DEF BeforeGreeting, Waiting
  <2>6. BeforeReply'
    <3>1. ASSUME pc' = "reply" PROVE pos' + 1 \in ends' /\ (SaysOk(pending'.reply) => accepted')
      BY <1>2, <1>9, <1>12, <2>2, <2>4, <3>1, SMTT(30)
    <3>2. ASSUME pc' = "reply" PROVE (stream = greeting \/ \E r \in Replies, more \in Follows : Replied(r, more))'
      BY <1>2, <1>9, <1>12, <3>2, SMTT(30) DEF Replied
    <3>3. NoBody' = NoBody
      BY DEF NoBody, Absent
    <3> QED
      BY <2>2, <3>1, <3>2, <3>3, SMTT(30) DEF BeforeReply, Waiting, SaysOk
  <2> QED
    BY <1>1, <1>12, <2>3, <2>5, <2>6, SMTT(30) DEF IInv, BeforeWrite, StartsOnBoundary, OkMeansAccepted
<1> QED
  BY <1>6, <1>10, <1>11, <1>12, SMTT(30)

\* The parser's body step.
LEMMA BodyStep ==
  ASSUME IInv, ParseBodyFrame
  PROVE  IInv'
<1>1. /\ Shape /\ BeforeGreeting /\ BeforeReply /\ pc \in {"greeting", "reply"}
      /\ pending # NoBody /\ read - pos >= pending.body /\ result = "none"
  BY DEF IInv, ParseBodyFrame, Receiving, BodyComplete, Shape
<1>2. /\ pos' = pos + pending.body /\ pending' = NoBody
      /\ UNCHANGED <<stream, ends, greeting, accepted, arrived, read, salvaged>>
      /\ Message(pending.type, pending.reply)
  BY DEF ParseBodyFrame, serverVars
<1>3. pending.body = 1 /\ pos + 1 \in ends
  BY <1>1 DEF BeforeGreeting, BeforeReply, Waiting
<1>4. /\ greeting' \in Greetings /\ stream' \in Seq(STRING)
      /\ pos' \in Nat /\ read' \in Nat /\ arrived' \in Nat
      /\ pos' <= read' /\ read' <= arrived' /\ arrived' <= Len(stream')
  BY <1>1, <1>2, <1>3 DEF Shape
<1>5. CASE pc = "greeting"
  <2>1. \/ Return("AccessDenied") \/ Return("ProtocolError")
        \/ pc' = "writing" /\ UNCHANGED result
    BY <1>2, <1>5 DEF Message, Greet, Classify
  <2>2. CASE Return("AccessDenied") \/ Return("ProtocolError")
    <3>1. Shape'
      BY <1>4, <2>2 DEF Shape, Return
    <3> QED
      BY <1>1, <2>2, <3>1, ReturnsError, SMTT(30) DEF Results
  <2>3. CASE pc' = "writing" /\ UNCHANGED result
    <3>1. Shape'
      BY <1>1, <1>4, <2>3 DEF Shape
    <3>2. pos' = Len(greeting) /\ stream = greeting /\ ends = {Len(greeting)}
      BY <1>1, <1>2, <1>3, <1>5, SMTT(30) DEF BeforeGreeting
    <3>3. NoBody' = NoBody
      BY DEF NoBody, Absent
    <3>4. BeforeWrite'
      BY <1>2, <3>2, <3>3, SMTT(30) DEF BeforeWrite
    <3> QED
      BY <1>1, <2>3, <3>1, <3>4, SMTT(30) DEF IInv, BeforeGreeting, BeforeReply, StartsOnBoundary, OkMeansAccepted
  <2> QED
    BY <2>1, <2>2, <2>3
<1>6. CASE pc = "reply"
  <2>1. /\ text' = pending.reply /\ pc' = "done"
        /\ result' = IF is_success(pending.reply) THEN "ok" ELSE "AuthFailed"
    BY <1>2, <1>6 DEF Message, Greet, Classify, Return
  <2>2. Shape'
    BY <1>4, <2>1 DEF Shape
  <2>3. SaysOk(pending.reply) => accepted
    BY <1>1, <1>6, SMTT(30) DEF BeforeReply
  <2>4. StartsOnBoundary' /\ OkMeansAccepted'
    BY <1>2, <1>3, <2>1, <2>3, SMTT(30) DEF StartsOnBoundary, OkMeansAccepted, SaysOk
  <2> QED
    BY <2>1, <2>2, <2>4 DEF IInv, BeforeGreeting, BeforeWrite, BeforeReply
<1> QED
  BY <1>1, <1>5, <1>6

\* A read that waited in vain, and the salvage of what is buffered.
LEMMA IdleStep ==
  ASSUME IInv, Idle
  PROVE  IInv'
<1> DEFINE block == SalvageBlock(Buffer)
<1>1. /\ Shape /\ BeforeReply /\ pc \in {"greeting", "reply"} /\ result = "none" /\ ~HeadersComplete
      /\ UNCHANGED <<stream, ends, greeting, accepted, arrived, read, pending>>
  BY DEF IInv, Idle, NeedsData, Receiving, Shape, serverVars
<1>2. \/ (Return("Timeout") \/ Return("ProtocolError")) /\ UNCHANGED pos
      \/ /\ pc = "reply" /\ Salvageable /\ Classify(Header(block, RT))
         /\ pos' = read /\ salvaged' = TRUE
  BY DEF Idle
<1>3. CASE (Return("Timeout") \/ Return("ProtocolError")) /\ UNCHANGED pos
  <2>1. Shape'
    BY <1>1, <1>3, SMTT(30) DEF Shape, Return
  <2> QED
    BY <1>1, <1>3, <2>1, ReturnsError, SMTT(30) DEF Results
<1>4. CASE pc = "reply" /\ Salvageable /\ Classify(Header(block, RT)) /\ pos' = read /\ salvaged' = TRUE
  <2>1. /\ text' = Header(block, RT) /\ pc' = "done"
        /\ result' = IF is_success(Header(block, RT)) THEN "ok" ELSE "AuthFailed"
    BY <1>4, SMTT(30) DEF Classify, Return
  <2>2. Shape'
    BY <1>1, <1>4, <2>1 DEF Shape
  <2>3. Terminators(Buffer) = {} /\ Newlines(Buffer) # {} /\ pos = Len(greeting)
    BY <1>1, <1>4 DEF Salvageable, HeadersComplete, BeforeReply, Waiting
  <2>4. stream # greeting
    BY <1>1, <2>3, NothingBuffered
  <2>5. PICK r \in Replies, more \in Follows : Replied(r, more)
    BY <1>1, <1>4, <2>4, SMTT(30) DEF BeforeReply
  <2>6. PrefixOf(Buffer, r \o more) /\ Buffer \in Seq(STRING)
    BY <1>1, <2>3, <2>5, ReplyBuffer, BufferOf, SMTT(30)
  <2>7. SaysOk(Header(block, RT)) => accepted
    BY <2>3, <2>5, <2>6, SalvagedMeans, Zenon DEF Replied
  <2> HIDE DEF block
  <2>8. StartsOnBoundary' /\ OkMeansAccepted'
    BY <1>1, <1>4, <2>1, <2>7 DEF StartsOnBoundary, OkMeansAccepted, SaysOk
  <2> QED
    BY <2>1, <2>2, <2>8 DEF IInv, BeforeGreeting, BeforeWrite, BeforeReply
<1> QED
  BY <1>2, <1>3, <1>4, Zenon

\* The write of the auth command and the server's answer to it.
LEMMA WriteStep ==
  ASSUME IInv, WriteAuth
  PROVE  IInv'
<1>1. /\ Shape /\ BeforeWrite /\ pc = "writing" /\ result = "none"
      /\ UNCHANGED <<arrived, read, pos, pending, text, salvaged>>
  BY DEF IInv, WriteAuth, Shape
<1>2. stream = greeting /\ ends = {Len(greeting)} /\ pending = NoBody /\ pos = Len(greeting)
  BY <1>1 DEF BeforeWrite
<1>3. NoBody' = NoBody
  BY DEF NoBody, Absent
<1>4. \/ Return("Io") /\ UNCHANGED serverVars
      \/ pc' = "reply" /\ UNCHANGED <<result, serverVars>>
      \/ /\ pc' = "reply" /\ UNCHANGED <<result, greeting>>
         /\ \E r \in Replies, more \in {<<>>} \cup Notices :
              /\ stream' = stream \o r \o more
              /\ ends' = ends \cup {Len(stream) + Len(r), Len(stream')}
              /\ accepted' = (r \in Acceptances \cup Truncated)
  BY DEF WriteAuth
<1>5. CASE Return("Io") /\ UNCHANGED serverVars
  <2>1. Shape'
    BY <1>1, <1>5 DEF Shape, Return, serverVars
  <2> QED
    BY <1>1, <1>5, <2>1, ReturnsError, SMTT(30) DEF Results
<1>6. CASE pc' = "reply" /\ UNCHANGED <<result, serverVars>>
  <2>1. Shape'
    BY <1>1, <1>6 DEF Shape, serverVars
  <2>2. BeforeReply'
    BY <1>1, <1>2, <1>3, <1>6, SMTT(30) DEF BeforeReply, Waiting, serverVars
  <2> QED
    BY <1>1, <1>6, <2>1, <2>2, SMTT(30) DEF IInv, BeforeGreeting, BeforeWrite, StartsOnBoundary, OkMeansAccepted
<1>7. ASSUME pc' = "reply", UNCHANGED <<result, greeting>>,
             NEW r \in Replies, NEW more \in {<<>>} \cup Notices,
             stream' = stream \o r \o more,
             ends' = ends \cup {Len(stream) + Len(r), Len(stream')},
             accepted' = (r \in Acceptances \cup Truncated)
      PROVE  IInv'
  <2>1. greeting \in Seq(STRING) /\ r \in Seq(STRING) /\ more \in Seq(STRING) /\ more \in Follows
    BY <1>1, WritesTokens DEF Shape, Follows
  <2>2. stream' = greeting \o (r \o more) /\ stream' \in Seq(STRING) /\ Len(greeting) <= Len(stream')
    BY <1>2, <1>7, <2>1, SMTT(30)
  <2>3. Len(stream') \in Nat /\ Len(greeting) \in Nat
    BY <2>1, <2>2
  <2>4. Shape'
    BY <1>1, <1>2, <1>7, <2>2, <2>3, SMTT(30) DEF Shape
  <2>5. Replied(r, more)'
    BY <1>2, <1>7, <2>2, Zenon DEF Replied, LetsIn
  <2>6. BeforeReply'
    BY <1>1, <1>2, <1>3, <1>7, <2>1, <2>5 DEF BeforeReply, Waiting
  <2> QED
    BY <1>1, <1>7, <2>4, <2>6, SMTT(30) DEF IInv, BeforeGreeting, BeforeWrite, StartsOnBoundary, OkMeansAccepted
<1> QED
  BY <1>4, <1>5, <1>6, <1>7, SMTT(30)

\* Connecting, a failed read and a closed socket: no step of the parser.
LEMMA OtherStep ==
  ASSUME IInv, Connect \/ Read \/ ReadFails \/ Arrive \/ ServerCloses \/ UNCHANGED vars
  PROVE  IInv'
<1>1. UNCHANGED <<stream, ends, greeting, accepted, pos, pending, text, salvaged>>
  BY DEF Connect, Read, ReadFails, Arrive, ServerCloses, serverVars, vars
<1>2. NoBody' = NoBody
  BY DEF NoBody, Absent
<1>3. Shape /\ Len(stream) \in Nat
  BY DEF IInv, Shape
<1>4. ASSUME UNCHANGED <<pc, result>>, Shape' PROVE IInv'
  <2>1. BeforeGreeting' /\ BeforeWrite'
    BY <1>1, <1>2, <1>4, SMTT(30) DEF IInv, BeforeGreeting, BeforeWrite, Waiting
  <2>2. BeforeReply'
    BY <1>1, <1>2, <1>4 DEF IInv, BeforeReply, Waiting, Replied
  <2> QED
    BY <1>1, <1>4, <2>1, <2>2, SMTT(30) DEF IInv, StartsOnBoundary, OkMeansAccepted
<1>5. ASSUME pc # "done", NEW e \in Results \ {"none", "ok"}, Return(e), UNCHANGED <<arrived, read>> PROVE IInv'
  <2>1. Shape'
    BY <1>1, <1>3, <1>5 DEF Shape, Return
  <2> QED
    BY <1>5, <2>1, ReturnsError
<1>6. CASE Connect
  <2>1. UNCHANGED <<arrived, read>> /\ pc = "start"
    BY <1>6 DEF Connect
  <2>2. CASE \E e \in {"AuthFailed", "Io", "Timeout"} : Return(e)
    BY <1>5, <2>1, <2>2, SMTT(30) DEF Results
  <2>3. CASE pc' = "greeting" /\ UNCHANGED result
    <3>1. Shape'
      BY <1>1, <1>3, <2>1, <2>3, SMTT(30) DEF Shape
    <3>2. BeforeGreeting'
      BY <1>1, <1>2, <2>1, <2>3, SMTT(30) DEF IInv, BeforeGreeting, Waiting
    <3> QED
      BY <1>1, <2>3, <3>1, <3>2, SMTT(30) DEF IInv, BeforeWrite, BeforeReply, StartsOnBoundary, OkMeansAccepted
  <2> QED
    BY <1>6, <2>2, <2>3 DEF Connect
<1>7. CASE Read
  <2>1. pc # "done" /\ UNCHANGED arrived
    BY <1>7 DEF Read, NeedsData, Receiving
  <2>2. CASE read < arrived /\ read' = arrived /\ UNCHANGED <<pc, result>>
    <3>1. Shape'
      BY <1>1, <1>3, <2>1, <2>2 DEF Shape
    <3> QED
      BY <1>4, <2>2, <3>1
  <2>3. CASE Return("ConnectionClosed") /\ UNCHANGED read
    BY <1>5, <2>1, <2>3 DEF Results
  <2> QED
    BY <1>7, <2>2, <2>3, SMTT(30) DEF Read
<1>8. CASE ReadFails
  <2>1. pc # "done" /\ UNCHANGED <<arrived, read>> /\ Return("Io")
    BY <1>8 DEF ReadFails, NeedsData, Receiving
  <2> QED
    BY <1>5, <2>1 DEF Results
<1>9. CASE Arrive
  <2>1. PICK n \in arrived + 1 .. Len(stream) : arrived' = n
    BY <1>9 DEF Arrive
  <2>2. UNCHANGED <<pc, result, read>>
    BY <1>9 DEF Arrive
  <2>3. Shape'
    BY <1>1, <1>3, <2>1, <2>2 DEF Shape
  <2> QED
    BY <1>4, <2>2, <2>3
<1>10. CASE ServerCloses \/ UNCHANGED vars
  <2>1. UNCHANGED <<pc, result, read, arrived>>
    BY <1>10 DEF ServerCloses, vars
  <2>2. Shape'
    BY <1>1, <1>3, <2>1 DEF Shape
  <2> QED
    BY <1>4, <2>1, <2>2, SMTT(30)
<1> QED
  BY <1>6, <1>7, <1>8, <1>9, <1>10

-----------------------------------------------------------------------------
\* The invariant holds throughout, for any messages of the server.
THEOREM HandshakeInvariant == Spec => []IInv
<1>1. Init => IInv
  BY InitIInv
<1>2. IInv /\ [Next]_vars => IInv'
  <2> SUFFICES ASSUME IInv, [Next]_vars PROVE IInv'
    OBVIOUS
  <2> QED
    BY HeaderStep, BodyStep, IdleStep, WriteStep, OtherStep DEF Next, Client
<1> QED
  BY <1>1, <1>2, PTL DEF Spec

\* connect_with_auth() hands the reader task a parser that stands on a message
\* boundary, whatever the server greets and replies with and however the bytes
\* are cut, a truncated acceptance that runs into the next message included.
THEOREM HandshakeBoundary == Spec => []StartsOnBoundary
<1>1. IInv => StartsOnBoundary
  BY DEF IInv
<1> QED
  BY <1>1, HandshakeInvariant, PTL

\* connect_with_auth() believes a Reply-Text only if the server let the client in:
\* no part of a refusal, parsed or salvaged, reads as an acceptance.
THEOREM HandshakeMeaning == Spec => []OkMeansAccepted
<1>1. IInv => OkMeansAccepted
  BY DEF IInv
<1> QED
  BY <1>1, HandshakeInvariant, PTL

=============================================================================
