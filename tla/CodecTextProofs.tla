-------------------------- MODULE CodecTextProofs ---------------------------
(***************************************************************************)
(* What the readers of a codec string make of a text: the split at the     *)
(* commas, the cleanup of each token, the parts of a token and the loops   *)
(* over them, for texts of any length over any alphabet.                   *)
(*                                                                         *)
(* Each recursive function of CodecString has a table (Runs), and what the *)
(* loop has done after k steps is shown for every k with Induction.        *)
(***************************************************************************)
EXTENDS CodecString, SequenceLemmas

-----------------------------------------------------------------------------
(***************************************************************************)
(* The loops over a text.  One table lemma serves all: Turn is the step of *)
(* whichever loop is meant.                                                *)
(***************************************************************************)
SplitTurn(s, c, parts, k) ==
  IF s[k] = c THEN Append(parts, <<>>) ELSE [parts EXCEPT ![Len(parts)] = Append(@, s[k])]

ReadTurn(parts, lenient, read, k) ==
  IF k = 1 THEN read ELSE ApplyQualifierPart(read, parts[k], lenient)

ListTurn(tokens, lenient, r, k) ==
  IF tokens[k] = <<>> \/ r.list = Nothing THEN r
  ELSE [list |-> Then(ParseEntry(tokens[k], lenient).entry, LAMBDA e : Some(Append(r.list[1], e))),
        warnings |-> r.warnings + ParseEntry(tokens[k], lenient).warnings]

Turn(loop, a, b, x, k) ==
  IF loop = "flatten" THEN x \o a[k]
  ELSE IF loop = "cut" THEN CharDelimStep(a, Comma, NoLimit, x, k)
  ELSE IF loop = "clean" THEN CleanupStep(a, Comma, x, k)
  ELSE IF loop = "split" THEN SplitTurn(a, b, x, k)
  ELSE IF loop = "read" THEN ReadTurn(a, b, x, k)
  ELSE ListTurn(a, b, x, k)

\* f is the table of a loop, up to m.
IsTable(f, loop, a, b, init, m) ==
  f = [k \in 0 .. m |-> IF k = 0 THEN init ELSE Turn(loop, a, b, f[k - 1], k)]

\* There is such a table.
LEMMA TableExists ==
  ASSUME NEW m \in Nat, NEW loop, NEW a, NEW b, NEW init
  PROVE  \E f : IsTable(f, loop, a, b, init, m)
<1> DEFINE G == {j \in Nat : \E f : IsTable(f, loop, a, b, init, j)}
<1>1. 0 \in G
  <2> DEFINE g == [k \in 0 .. 0 |-> init]
  <2>1. IsTable(g, loop, a, b, init, 0)
    BY DEF IsTable
  <2> QED BY <2>1
<1>2. ASSUME NEW j \in 0 .. m - 1, j \in G PROVE j + 1 \in G
  <2>1. PICK f : IsTable(f, loop, a, b, init, j)
    BY <1>2
  <2> DEFINE last == Turn(loop, a, b, f[j], j + 1)
             g == [k \in 0 .. j + 1 |-> IF k = j + 1 THEN last ELSE f[k]]
  <2>2. j \in Nat /\ j + 1 # 0 /\ (j + 1) - 1 = j
    OBVIOUS
  <2>3. ASSUME NEW k \in 0 .. j + 1
        PROVE  g[k] = IF k = 0 THEN init ELSE Turn(loop, a, b, g[k - 1], k)
    <3>1. CASE k = j + 1
      <4>1. g[k - 1] = f[j] /\ g[k] = last
        <5> HIDE DEF last
        <5> QED BY <2>2, <3>1
      <4> QED
        BY <2>2, <3>1, <4>1, Zenon
    <3>2. CASE k # j + 1
      <4>1. k \in 0 .. j /\ (k # 0 => k - 1 \in 0 .. j /\ k - 1 # j + 1)
        BY <2>2, <3>2
      <4>2. f[k] = IF k = 0 THEN init ELSE Turn(loop, a, b, f[k - 1], k)
        BY <2>1, <4>1, Zenon DEF IsTable
      <4> HIDE DEF last
      <4>3. g[k] = f[k] /\ (k # 0 => g[k - 1] = f[k - 1])
        BY <2>2, <3>2, <4>1
      <4> QED
        BY <4>2, <4>3, Zenon
    <3> QED
      BY <3>1, <3>2
  <2>4. IsTable(g, loop, a, b, init, j + 1)
    <3>1. g = [k \in 0 .. j + 1 |-> g[k]]
      BY Zenon
    <3> HIDE DEF g
    <3> QED
      BY <2>3, <3>1, Zenon DEF IsTable
  <2> HIDE DEF g
  <2> QED
    BY <2>2, <2>4
<1> HIDE DEF G
<1>3. m \in G
  BY <1>1, <1>2, Induction
<1> QED BY <1>3 DEF G

\* f runs through a loop over 1 .. n.
Runs(f, loop, a, b, init, n) ==
  f[0] = init /\ \A k \in 1 .. n : f[k] = Turn(loop, a, b, f[k - 1], k)

\* The table of a loop runs through it.
LEMMA TableRuns ==
  ASSUME NEW n \in Nat, NEW loop, NEW a, NEW b, NEW init, NEW f, IsTable(f, loop, a, b, init, n)
  PROVE  Runs(f, loop, a, b, init, n)
<1>1. 0 \in 0 .. n /\ \A k \in 1 .. n : k \in 0 .. n /\ k # 0
  OBVIOUS
<1>2. \A k \in 0 .. n : f[k] = IF k = 0 THEN init ELSE Turn(loop, a, b, f[k - 1], k)
  BY Zenon DEF IsTable
<1> QED
  BY <1>1, <1>2, Zenon DEF Runs

\* Flatten() is a loop over the sequences it is given.
LEMMA FlattenRuns ==
  ASSUME NEW seqs, Len(seqs) \in Nat
  PROVE  \E f : Runs(f, "flatten", seqs, 0, <<>>, Len(seqs)) /\ Flatten(seqs) = f[Len(seqs)]
<1> DEFINE n == Len(seqs)
           IsIt(f) == f = [k \in 0 .. n |-> IF k = 0 THEN <<>> ELSE f[k - 1] \o seqs[k]]
<1>1. \A x, k : Turn("flatten", seqs, 0, x, k) = x \o seqs[k]
  BY DEF Turn
<1>2. \A f : IsTable(f, "flatten", seqs, 0, <<>>, n) <=> IsIt(f)
  BY <1>1, Zenon DEF IsTable
<1> DEFINE K == CHOOSE f : IsIt(f)
<1>3. Flatten(seqs) = K[n]
  BY DEF Flatten, Scan
<1> HIDE DEF n, IsIt
<1>4. IsTable(K, "flatten", seqs, 0, <<>>, n)
  BY <1>2, TableExists DEF n
<1> QED
  BY <1>3, <1>4, TableRuns, Zenon DEF n

\* separate_string_char_delim() is a loop over the text.
LEMMA CharDelimRuns ==
  ASSUME NEW text, Len(text) \in Nat
  PROVE  \E f : /\ Runs(f, "cut", text, 0, CutStart, Len(text))
                /\ CharDelim(text, Comma, NoLimit) = CutOf(f[Len(text)], LAMBDA s : s.begin # None, text)
<1> DEFINE n == Len(text)
           IsIt(f) == f = [k \in 0 .. n |->
                             IF k = 0 THEN CutStart ELSE CharDelimStep(text, Comma, NoLimit, f[k - 1], k)]
<1>1. \A x, k : Turn("cut", text, 0, x, k) = CharDelimStep(text, Comma, NoLimit, x, k)
  BY DEF Turn
<1>2. \A f : IsTable(f, "cut", text, 0, CutStart, n) <=> IsIt(f)
  BY <1>1, Zenon DEF IsTable
<1> DEFINE K == CHOOSE f : IsIt(f)
<1>3. CharDelim(text, Comma, NoLimit) = CutOf(K[n], LAMBDA s : s.begin # None, text)
  BY DEF CharDelim, Scan
<1> HIDE DEF n, IsIt
<1>4. IsTable(K, "cut", text, 0, CutStart, n)
  BY <1>2, TableExists DEF n
<1>5. Runs(K, "cut", text, 0, CutStart, n)
  BY <1>4, TableRuns DEF n
<1> QED
  BY <1>3, <1>5, Zenon DEF n

\* cleanup_separated_string() is a loop over the text.
LEMMA CleanupRuns ==
  ASSUME NEW text, Len(text) \in Nat
  PROVE  \E f : /\ Runs(f, "clean", text, 0, CleanupStart, Len(text))
                /\ CleanupWritten(text, Comma) = f[Len(text)]
<1> DEFINE n == Len(text)
           IsIt(f) == f = [k \in 0 .. n |-> IF k = 0 THEN CleanupStart ELSE CleanupStep(text, Comma, f[k - 1], k)]
<1>1. \A x, k : Turn("clean", text, 0, x, k) = CleanupStep(text, Comma, x, k)
  BY DEF Turn
<1>2. \A f : IsTable(f, "clean", text, 0, CleanupStart, n) <=> IsIt(f)
  BY <1>1, Zenon DEF IsTable
<1> DEFINE K == CHOOSE f : IsIt(f)
<1>3. CleanupWritten(text, Comma) = K[n]
  BY DEF CleanupWritten, Scan
<1> HIDE DEF n, IsIt
<1>4. IsTable(K, "clean", text, 0, CleanupStart, n)
  BY <1>2, TableExists DEF n
<1> QED
  BY <1>3, <1>4, TableRuns, Zenon DEF n

\* str::split() is a loop over the text.
LEMMA SplitRuns ==
  ASSUME NEW s, NEW c, Len(s) \in Nat
  PROVE  \E f : Runs(f, "split", s, c, <<<<>>>>, Len(s)) /\ Split(s, c) = f[Len(s)]
<1> DEFINE n == Len(s)
           IsIt(f) == f = [k \in 0 .. n |-> IF k = 0 THEN <<<<>>>> ELSE SplitTurn(s, c, f[k - 1], k)]
<1>1. \A x, k : Turn("split", s, c, x, k) = SplitTurn(s, c, x, k)
  BY DEF Turn
<1>2. \A f : IsTable(f, "split", s, c, <<<<>>>>, n) <=> IsIt(f)
  BY <1>1, Zenon DEF IsTable
<1> DEFINE K == CHOOSE f : IsIt(f)
<1>3. Split(s, c) = K[n]
  BY DEF Split, Scan, SplitTurn
<1> HIDE DEF n, IsIt
<1>4. IsTable(K, "split", s, c, <<<<>>>>, n)
  BY <1>2, TableExists DEF n
<1> QED
  BY <1>3, <1>4, TableRuns, Zenon DEF n

\* Reading an entry is a loop over the parts of its token.
LEMMA ParseEntryRuns ==
  ASSUME NEW token, NEW lenient, Len(Split(token, "@")) \in Nat
  PROVE  LET parts == Split(token, "@")
         IN  \E f : /\ Runs(f, "read", parts, lenient, [entry |-> ParseName(parts[1]), warnings |-> 0], Len(parts))
                    /\ ParseEntry(token, lenient) = f[Len(parts)]
<1> DEFINE parts == Split(token, "@")
           n == Len(parts)
           init == [entry |-> ParseName(parts[1]), warnings |-> 0]
           IsIt(f) == f = [k \in 0 .. n |-> IF k = 0 THEN init ELSE ReadTurn(parts, lenient, f[k - 1], k)]
<1>1. \A x, k : Turn("read", parts, lenient, x, k) = ReadTurn(parts, lenient, x, k)
  BY DEF Turn
<1>2. \A f : IsTable(f, "read", parts, lenient, init, n) <=> IsIt(f)
  BY <1>1, Zenon DEF IsTable
<1> DEFINE K == CHOOSE f : IsIt(f)
<1>3. ParseEntry(token, lenient) = K[n]
  BY DEF ParseEntry, Scan, With, ReadTurn
<1>0. n \in Nat
  OBVIOUS
<1> HIDE DEF n, IsIt, init, parts
<1>4. IsTable(K, "read", parts, lenient, init, n)
  BY <1>0, <1>2, TableExists
<1>5. Runs(K, "read", parts, lenient, init, n)
  BY <1>0, <1>4, TableRuns
<1> QED
  BY <1>3, <1>5, Zenon DEF n, init, parts

\* Reading a list is a loop over its tokens.
LEMMA ParseListRuns ==
  ASSUME NEW s, NEW lenient, Len(SplitCodecString(s)) \in Nat
  PROVE  LET tokens == SplitCodecString(s)
             past == Len(tokens) > MaxSwitchEntries
         IN  \E f : /\ Runs(f, "list", tokens, lenient,
                            [list |-> Some(<<>>), warnings |-> IF past THEN 1 ELSE 0], Len(tokens))
                    /\ ParseCodecString(s, lenient) = IF past /\ ~lenient
                         THEN [list |-> Nothing, warnings |-> 0] ELSE f[Len(tokens)]
<1> DEFINE tokens == SplitCodecString(s)
           n == Len(tokens)
           past == n > MaxSwitchEntries
           init == [list |-> Some(<<>>), warnings |-> IF past THEN 1 ELSE 0]
           IsIt(f) == f = [k \in 0 .. n |-> IF k = 0 THEN init ELSE ListTurn(tokens, lenient, f[k - 1], k)]
<1>1. \A x, k : Turn("list", tokens, lenient, x, k) = ListTurn(tokens, lenient, x, k)
  BY DEF Turn
<1>2. \A f : IsTable(f, "list", tokens, lenient, init, n) <=> IsIt(f)
  BY <1>1, Zenon DEF IsTable
<1> DEFINE K == CHOOSE f : IsIt(f)
<1>3. ParseCodecString(s, lenient) = IF past /\ ~lenient THEN [list |-> Nothing, warnings |-> 0] ELSE K[n]
  BY DEF ParseCodecString, Scan, With, ListTurn
<1>0. n \in Nat
  OBVIOUS
<1> HIDE DEF n, IsIt, init, tokens
<1>4. IsTable(K, "list", tokens, lenient, init, n)
  BY <1>0, <1>2, TableExists
<1>5. Runs(K, "list", tokens, lenient, init, n)
  BY <1>0, <1>4, TableRuns
<1> QED
  BY <1>3, <1>5, Zenon DEF n, init, tokens

-----------------------------------------------------------------------------
(***************************************************************************)
(* Layout: where the parts of a flattened text are, and what a text with   *)
(* escapes spells.                                                         *)
(***************************************************************************)
\* Where each part of a flattened sequence of sequences ends in the whole.
Layout(whole, parts, at) ==
  /\ at \in [0 .. Len(parts) -> Nat] /\ at[0] = 0 /\ at[Len(parts)] = Len(whole)
  /\ \A k \in 1 .. Len(parts) :
       /\ at[k] = at[k - 1] + Len(parts[k]) /\ at[k] <= Len(whole)
       /\ \A j \in 1 .. Len(parts[k]) : whole[at[k - 1] + j] = parts[k][j]

\* The parts lie in the flattened sequence one after another.
LEMMA FlattenLayout ==
  ASSUME NEW A, NEW parts \in Seq(Seq(A))
  PROVE  Flatten(parts) \in Seq(A) /\ \E at : Layout(Flatten(parts), parts, at)
<1> DEFINE n == Len(parts)
<1>0. n \in Nat /\ \A k \in 1 .. n : parts[k] \in Seq(A) /\ Len(parts[k]) \in Nat
  OBVIOUS
<1>1. PICK f : Runs(f, "flatten", parts, 0, <<>>, n) /\ Flatten(parts) = f[n]
  BY <1>0, FlattenRuns
<1>2. f[0] = <<>> /\ \A k \in 1 .. n : f[k] = f[k - 1] \o parts[k]
  BY <1>1, Zenon DEF Runs, Turn
<1> HIDE DEF n
<1> DEFINE Good(m) ==
             /\ f[m] \in Seq(A)
             /\ \A k \in 1 .. m :
                  /\ Len(f[k]) \in Nat /\ Len(f[k - 1]) \in Nat
                  /\ Len(f[k]) = Len(f[k - 1]) + Len(parts[k]) /\ Len(f[k]) <= Len(f[m])
                  /\ \A j \in 1 .. Len(parts[k]) : f[m][Len(f[k - 1]) + j] = parts[k][j]
           G == {m \in Nat : Good(m)}
<1>3. 0 \in G
  <2>1. f[0] \in Seq(A) /\ 1 .. 0 = {}
    BY <1>2
  <2> QED BY <2>1, Zenon
<1> HIDE DEF G, Good
<1>4. ASSUME NEW m \in 0 .. n - 1, m \in G PROVE m + 1 \in G
  <2>1. m \in Nat /\ m + 1 \in 1 .. n /\ (m + 1) - 1 = m
    BY <1>0
  <2>2. f[m + 1] = f[m] \o parts[m + 1] /\ f[m] \in Seq(A) /\ parts[m + 1] \in Seq(A)
    BY <1>0, <1>2, <1>4, <2>1, Zenon DEF G, Good
  <2>3. /\ f[m + 1] \in Seq(A) /\ Len(f[m + 1]) = Len(f[m]) + Len(parts[m + 1])
        /\ Len(f[m]) \in Nat /\ Len(parts[m + 1]) \in Nat
        /\ \A i \in 1 .. Len(f[m]) : f[m + 1][i] = f[m][i]
        /\ \A j \in 1 .. Len(parts[m + 1]) : f[m + 1][Len(f[m]) + j] = parts[m + 1][j]
    <3> DEFINE x == f[m]
               y == parts[m + 1]
    <3>1. x \in Seq(A) /\ y \in Seq(A) /\ f[m + 1] = x \o y
      BY <2>2
    <3>2. /\ x \o y \in Seq(A) /\ Len(x \o y) = Len(x) + Len(y) /\ Len(x) \in Nat /\ Len(y) \in Nat
          /\ \A i \in 1 .. Len(x) : (x \o y)[i] = x[i]
          /\ \A j \in 1 .. Len(y) : (x \o y)[Len(x) + j] = y[j]
      <4> HIDE DEF x, y
      <4> QED BY <3>1, ConcatParts
    <3> QED
      BY <3>1, <3>2, Zenon
  <2>5. Len(f[m + 1]) \in Nat /\ Len(f[m]) <= Len(f[m + 1]) /\ Len(f[m + 1]) <= Len(f[m + 1])
    <3> DEFINE y == Len(f[m])
               z == Len(f[m + 1])
               p == Len(parts[m + 1])
    <3>1. y \in Nat /\ p \in Nat /\ z = y + p
      BY <2>3, Zenon
    <3> HIDE DEF y, z, p
    <3>2. z \in Nat /\ y <= z /\ z <= z
      BY <3>1
    <3> QED BY <3>2 DEF y, z
  <2>4. ASSUME NEW k \in 1 .. m + 1
        PROVE  /\ Len(f[k]) \in Nat /\ Len(f[k - 1]) \in Nat
               /\ Len(f[k]) = Len(f[k - 1]) + Len(parts[k]) /\ Len(f[k]) <= Len(f[m + 1])
               /\ \A j \in 1 .. Len(parts[k]) : f[m + 1][Len(f[k - 1]) + j] = parts[k][j]
    <3>1. CASE k = m + 1
      <4>1. k - 1 = m
        BY <2>1, <3>1
      <4> QED
        BY <2>3, <2>5, <3>1, <4>1, Zenon
    <3>2. CASE k # m + 1
      <4>1. k \in 1 .. m /\ k \in 1 .. n
        BY <1>0, <2>1, <3>2
      <4>2. /\ Len(f[k]) \in Nat /\ Len(f[k - 1]) \in Nat
            /\ Len(f[k]) = Len(f[k - 1]) + Len(parts[k]) /\ Len(f[k]) <= Len(f[m])
            /\ \A j \in 1 .. Len(parts[k]) : f[m][Len(f[k - 1]) + j] = parts[k][j]
        BY <1>4, <4>1, Zenon DEF G, Good
      <4>3. ASSUME NEW j \in 1 .. Len(parts[k]) PROVE f[m + 1][Len(f[k - 1]) + j] = parts[k][j]
        <5>1. Len(f[k - 1]) + j \in 1 .. Len(f[m])
          <6>1. Len(parts[k]) \in Nat
            BY <1>0, <4>1
          <6> DEFINE a == Len(f[k - 1])
                     b == Len(f[k])
                     p == Len(parts[k])
                     z == Len(f[m])
          <6>2. a \in Nat /\ b \in Nat /\ p \in Nat /\ z \in Nat /\ b = a + p /\ b <= z /\ j \in 1 .. p
            BY <2>3, <4>2, <6>1, Zenon
          <6> HIDE DEF a, b, p, z
          <6>3. a + j \in 1 .. z
            BY <6>2
          <6> QED BY <6>3 DEF a, z
        <5> QED
          BY <2>3, <4>2, <5>1, Zenon
      <4> QED
        <5> DEFINE b == Len(f[k])
                   y == Len(f[m])
                   z == Len(f[m + 1])
        <5>1. b \in Nat /\ y \in Nat /\ z \in Nat /\ b <= y /\ y <= z
          BY <2>3, <2>5, <4>2, Zenon
        <5> HIDE DEF b, y, z
        <5>2. b <= z
          BY <5>1
        <5> QED
          BY <4>2, <4>3, <5>2, Zenon DEF b, z
    <3> QED
      BY <3>1, <3>2, Zenon
  <2>6. Good(m + 1)
    BY <2>3, <2>4, Zenon DEF Good
  <2> QED
    BY <2>1, <2>6 DEF G
<1>5. n \in G
  BY <1>0, <1>3, <1>4, Induction
<1>6. Good(n)
  BY <1>5 DEF G
<1> DEFINE at == [k \in 0 .. n |-> Len(f[k])]
<1>7. at \in [0 .. n -> Nat]
  <2>1. ASSUME NEW k \in 0 .. n PROVE Len(f[k]) \in Nat
    <3>1. k = 0 \/ k \in 1 .. n
      BY <1>0
    <3> QED
      BY <1>2, <1>6, <3>1 DEF Good
  <2> QED BY <2>1
<1>8. at[0] = 0 /\ at[n] = Len(f[n]) /\ \A k \in 1 .. n : at[k] = Len(f[k]) /\ at[k - 1] = Len(f[k - 1])
  BY <1>0, <1>2
<1> HIDE DEF at
<1>9. Layout(f[n], parts, at)
  BY <1>6, <1>7, <1>8, ZenonT(30) DEF Layout, n, Good
<1> QED
  BY <1>1, <1>6, <1>9 DEF Good

\* One character of a spelled text.
LetterAt(s, t, off, i) ==
  IF TakesABackslash(t[i], Comma)
    THEN off[i] = off[i - 1] + 2 /\ s[off[i - 1] + 1] = BS /\ s[off[i - 1] + 2] = t[i]
    ELSE off[i] = off[i - 1] + 1 /\ s[off[i - 1] + 1] = t[i]

\* From position lo to position hi, s holds the text t with the escapes of
\* escape_inside_token(); off[i] is the position of the i-th character's last symbol.
Spelled(s, lo, t, off, hi) ==
  /\ off \in [0 .. Len(t) -> Nat] /\ off[0] = lo /\ off[Len(t)] = hi
  /\ \A i \in 1 .. Len(t) :
       off[i] <= hi /\ LetterAt(s, t, off, i)

\* e is the text t with its escapes.
Spells(e, t) == \E off : Spelled(e, 0, t, off, Len(e))

\* A text without the characters that are escaped spells itself.
LEMMA PlainSpells ==
  ASSUME NEW A, NEW t \in Seq(A), \A i \in 1 .. Len(t) : ~TakesABackslash(t[i], Comma)
  PROVE  Spells(t, t)
<1> DEFINE off == [i \in 0 .. Len(t) |-> i]
<1>1. /\ off \in [0 .. Len(t) -> Nat] /\ off[0] = 0 /\ off[Len(t)] = Len(t)
      /\ \A i \in 1 .. Len(t) : off[i] = i /\ off[i - 1] + 1 = i
  OBVIOUS
<1> HIDE DEF off
<1>2. Spelled(t, 0, t, off, Len(t))
  BY <1>1 DEF Spelled, LetterAt
<1> QED
  BY <1>2 DEF Spells

\* What escape_inside_token() writes spells the text it was given.
LEMMA EscapeSpells ==
  ASSUME NEW A, BS \in A, NEW t \in Seq(A)
  PROVE  EscapeInsideToken(t, Comma) \in Seq(A) /\ Spells(EscapeInsideToken(t, Comma), t)
<1> DEFINE n == Len(t)
           parts == [i \in 1 .. n |-> EscapedChar(t[i], Comma)]
<1>0. n \in Nat /\ \A i \in 1 .. n : t[i] \in A
  OBVIOUS
<1>1. \A c \in A : EscapedChar(c, Comma) \in Seq(A)
  <2>1. \A c \in A : <<BS, c>> \in Seq(A) /\ <<c>> \in Seq(A)
    OBVIOUS
  <2> QED
    BY <2>1, Zenon DEF EscapedChar
<1>2. parts \in Seq(Seq(A)) /\ Len(parts) = n
  <2>1. parts \in [1 .. n -> Seq(A)]
    BY <1>0, <1>1, Zenon
  <2> QED
    BY <1>0, <2>1
<1>3. Listed(LAMBDA i : EscapedChar(t[i], Comma), n) = parts
  BY <1>0 DEF Listed
<1>4. \A i \in 1 .. n : parts[i] = EscapedChar(t[i], Comma)
  OBVIOUS
<1> HIDE DEF parts
<1>5. EscapeInsideToken(t, Comma) = Flatten(parts)
  BY <1>3 DEF EscapeInsideToken
<1> DEFINE e == Flatten(parts)
<1>6. e \in Seq(A) /\ \E at : Layout(e, parts, at)
  BY <1>2, FlattenLayout
<1>7. PICK at : Layout(e, parts, at)
  BY <1>6
<1> HIDE DEF e
<1>8. ASSUME NEW i \in 1 .. n
      PROVE  LetterAt(e, t, at, i)
  <2>1. /\ at[i] = at[i - 1] + Len(parts[i])
        /\ \A j \in 1 .. Len(parts[i]) : e[at[i - 1] + j] = parts[i][j]
    BY <1>2, <1>7 DEF Layout
  <2>2. CASE TakesABackslash(t[i], Comma)
    <3>1. parts[i] = <<BS, t[i]>>
      BY <1>4, <2>2, Zenon DEF EscapedChar
    <3>2. Len(parts[i]) = 2 /\ parts[i][1] = BS /\ parts[i][2] = t[i]
      BY <3>1
    <3> QED
      BY <2>1, <2>2, <3>2 DEF LetterAt
  <2>3. CASE ~TakesABackslash(t[i], Comma)
    <3>1. parts[i] = <<t[i]>>
      BY <1>4, <2>3, Zenon DEF EscapedChar
    <3>2. Len(parts[i]) = 1 /\ parts[i][1] = t[i]
      BY <3>1
    <3> QED
      BY <2>1, <2>3, <3>2 DEF LetterAt
  <2> QED
    BY <2>2, <2>3
<1>9. Spelled(e, 0, t, at, Len(e))
  BY <1>2, <1>7, <1>8 DEF Layout, Spelled
<1> QED
  BY <1>5, <1>6, <1>9 DEF Spells, e

\* Where a text holds another, it spells what that one does.
LEMMA SpelledWithin ==
  ASSUME NEW A, NEW e \in Seq(A), NEW t \in Seq(A), NEW off, Spelled(e, 0, t, off, Len(e)),
         NEW s, NEW lo \in Nat, \A j \in 1 .. Len(e) : s[lo + j] = e[j]
  PROVE  Spelled(s, lo, t, [i \in 0 .. Len(t) |-> lo + off[i]], lo + Len(e))
<1> DEFINE n == Len(t)
           h == Len(e)
           moved == [i \in 0 .. n |-> lo + off[i]]
<1>0. n \in Nat /\ h \in Nat
  OBVIOUS
<1>1. /\ off \in [0 .. n -> Nat] /\ off[0] = 0 /\ off[n] = h
      /\ \A i \in 1 .. n : off[i] <= h /\ LetterAt(e, t, off, i)
  BY Zenon DEF Spelled
<1>2. \A j \in 1 .. h : s[lo + j] = e[j]
  OBVIOUS
<1> HIDE DEF n, h
<1>3. moved \in [0 .. n -> Nat] /\ moved[0] = lo /\ moved[n] = lo + h
  BY <1>0, <1>1
<1>4. ASSUME NEW i \in 1 .. n PROVE moved[i] <= lo + h /\ LetterAt(s, t, moved, i)
  <2>1. i \in 0 .. n /\ i - 1 \in 0 .. n
    BY <1>0
  <2>2. /\ moved[i] = lo + off[i] /\ moved[i - 1] = lo + off[i - 1] /\ off[i] \in Nat /\ off[i - 1] \in Nat
        /\ off[i] <= h /\ LetterAt(e, t, off, i)
    BY <1>1, <2>1, SMTT(30)
  <2> HIDE DEF moved
  <2>5. /\ moved[i] = lo + off[i] /\ moved[i - 1] = lo + off[i - 1]
        /\ off[i] \in Nat /\ off[i - 1] \in Nat /\ off[i] <= h
    BY <2>2
  <2>3. CASE TakesABackslash(t[i], Comma)
    <3>1. off[i] = off[i - 1] + 2 /\ e[off[i - 1] + 1] = BS /\ e[off[i - 1] + 2] = t[i]
      BY <2>2, <2>3 DEF LetterAt
    <3>4. moved[i] = moved[i - 1] + 2 /\ moved[i] <= lo + h
      <4>1. off[i] = off[i - 1] + 2
        BY <3>1
      <4> QED BY <1>0, <2>5, <4>1, SMTT(30)
    <3> DEFINE p == off[i - 1]
    <3>2. p + 1 \in 1 .. h /\ p + 2 \in 1 .. h /\ p \in Nat
      <4>1. p \in Nat /\ p + 2 <= h
        BY <2>2, <3>1
      <4> HIDE DEF p
      <4> QED BY <1>0, <4>1
    <3>3. lo + (p + 1) = moved[i - 1] + 1 /\ lo + (p + 2) = moved[i - 1] + 2
      BY <2>2
    <3>5. s[lo + (p + 1)] = BS /\ s[lo + (p + 2)] = t[i]
      <4>1. e[p + 1] = BS /\ e[p + 2] = t[i]
        BY <3>1
      <4> HIDE DEF p
      <4>2. s[lo + (p + 1)] = e[p + 1] /\ s[lo + (p + 2)] = e[p + 2]
        BY <1>2, <3>2
      <4> QED BY <4>1, <4>2
    <3> HIDE DEF p
    <3> QED
      BY <2>3, <3>3, <3>4, <3>5, Zenon DEF LetterAt
  <2>4. CASE ~TakesABackslash(t[i], Comma)
    <3>1. off[i] = off[i - 1] + 1 /\ e[off[i - 1] + 1] = t[i]
      BY <2>2, <2>4 DEF LetterAt
    <3>2. off[i - 1] + 1 \in 1 .. h
      BY <1>0, <2>2, <3>1
    <3>3. s[lo + (off[i - 1] + 1)] = t[i] /\ lo + (off[i - 1] + 1) = moved[i - 1] + 1
      BY <1>2, <2>2, <3>1, <3>2, SMTT(30)
    <3>4. moved[i] = moved[i - 1] + 1 /\ moved[i] <= lo + h
      BY <1>0, <2>2, <3>1, SMTT(30)
    <3> QED
      BY <2>4, <3>3, <3>4, Zenon DEF LetterAt
  <2> QED
    BY <2>3, <2>4
<1> HIDE DEF moved
<1>5. Spelled(s, lo, t, moved, lo + h)
  BY <1>3, <1>4, Zenon DEF Spelled, n
<1> QED
  BY <1>5 DEF moved, n, h

\* Texts in a row spell what they spell, in a row.
LEMMA SpellsConcat ==
  ASSUME NEW A, NEW e \in Seq(A), NEW t \in Seq(A), NEW e2 \in Seq(A), NEW t2 \in Seq(A),
         Spells(e, t), Spells(e2, t2)
  PROVE  Spells(e \o e2, t \o t2)
<1> DEFINE n == Len(t)
           n2 == Len(t2)
           h == Len(e)
           h2 == Len(e2)
           w == e \o e2
           u == t \o t2
<1>0. /\ n \in Nat /\ n2 \in Nat /\ h \in Nat /\ h2 \in Nat /\ Len(w) = h + h2 /\ Len(u) = n + n2
      /\ \A j \in 1 .. h : w[0 + j] = e[j]
      /\ \A j \in 1 .. h2 : w[h + j] = e2[j]
      /\ \A i \in 1 .. n : u[i] = t[i]
      /\ \A i \in 1 .. n2 : u[n + i] = t2[i]
  BY ConcatParts
<1>1. PICK a : Spelled(e, 0, t, a, h)
  BY DEF Spells
<1>2. PICK b : Spelled(e2, 0, t2, b, h2)
  BY DEF Spells
<1> DEFINE c == [i \in 0 .. n |-> 0 + a[i]]
           d == [i \in 0 .. n2 |-> h + b[i]]
           off == [i \in 0 .. n + n2 |-> IF i <= n THEN c[i] ELSE d[i - n]]
<1>3. Spelled(w, 0, t, c, 0 + h)
  <2> HIDE DEF w, c
  <2> QED BY <1>0, <1>1, SpelledWithin, Zenon DEF c
<1>4. Spelled(w, h, t2, d, h + h2)
  <2> HIDE DEF w, d
  <2> QED BY <1>0, <1>2, SpelledWithin, Zenon DEF d
<1>5. /\ c \in [0 .. n -> Nat] /\ c[0] = 0 /\ c[n] = h
      /\ \A i \in 1 .. n : c[i] <= h /\ LetterAt(w, t, c, i)
  <2> HIDE DEF w, c
  <2>1. 0 + h = h
    BY <1>0
  <2> QED BY <1>3, <2>1, Zenon DEF Spelled
<1>6. /\ d \in [0 .. n2 -> Nat] /\ d[0] = h /\ d[n2] = h + h2
      /\ \A i \in 1 .. n2 : d[i] <= h + h2 /\ LetterAt(w, t2, d, i)
  <2> HIDE DEF w, d
  <2> QED BY <1>4, Zenon DEF Spelled
<1> HIDE DEF n, n2, h, h2, w, u, c, d
<1>7. /\ off \in [0 .. n + n2 -> Nat] /\ off[0] = 0 /\ off[n + n2] = h + h2
      /\ \A i \in 0 .. n : off[i] = c[i]
      /\ \A i \in 0 .. n2 : off[n + i] = d[i]
  <2>1. \A i \in 0 .. n : off[i] = c[i]
    BY <1>0
  <2>2. ASSUME NEW i \in 0 .. n2 PROVE off[n + i] = d[i]
    <3>1. CASE i = 0
      BY <1>0, <1>5, <1>6, <2>1, <3>1
    <3>2. CASE i # 0
      <4>1. n + i \in 0 .. n + n2 /\ ~(n + i <= n) /\ (n + i) - n = i
        BY <1>0, <3>2
      <4> QED BY <4>1
    <3> QED BY <3>1, <3>2
  <2>3. off \in [0 .. n + n2 -> Nat]
    <3>1. ASSUME NEW i \in 0 .. n + n2 PROVE (IF i <= n THEN c[i] ELSE d[i - n]) \in Nat
      <4>1. IF i <= n THEN i \in 0 .. n ELSE i - n \in 0 .. n2
        BY <1>0
      <4> QED BY <1>5, <1>6, <4>1, SMTT(30)
    <3> QED BY <3>1
  <2>4. off[0] = 0 /\ off[n + n2] = h + h2
    <3>1. 0 \in 0 .. n /\ n2 \in 0 .. n2
      BY <1>0
    <3> HIDE DEF off
    <3> QED BY <1>5, <1>6, <2>1, <2>2, <3>1
  <2> HIDE DEF off
  <2> QED BY <2>1, <2>2, <2>3, <2>4
<1> HIDE DEF off
<1>8. ASSUME NEW i \in 1 .. n + n2 PROVE off[i] <= h + h2 /\ LetterAt(w, u, off, i)
  <2>1. CASE i <= n
    <3>1. i \in 1 .. n /\ i \in 0 .. n /\ i - 1 \in 0 .. n
      BY <1>0, <2>1
    <3>2. off[i] = c[i] /\ off[i - 1] = c[i - 1] /\ u[i] = t[i] /\ c[i] \in Nat /\ c[i] <= h /\ LetterAt(w, t, c, i)
      BY <1>0, <1>5, <1>7, <3>1, SMTT(30)
    <3>3. off[i] <= h + h2
      BY <1>0, <3>2, SMTT(30)
    <3> QED
      BY <3>2, <3>3, Zenon DEF LetterAt
  <2>2. CASE ~(i <= n)
    <3> DEFINE j == i - n
    <3>1. j \in 1 .. n2 /\ j \in 0 .. n2 /\ j - 1 \in 0 .. n2 /\ i = n + j /\ i - 1 = n + (j - 1)
      BY <1>0, <2>2
    <3> HIDE DEF j
    <3>2. off[i] = d[j] /\ off[i - 1] = d[j - 1] /\ u[i] = t2[j] /\ d[j] <= h + h2 /\ LetterAt(w, t2, d, j)
      BY <1>0, <1>6, <1>7, <3>1, Zenon
    <3> QED
      BY <3>2, Zenon DEF LetterAt
  <2> QED
    BY <2>1, <2>2
<1>9. Spelled(w, 0, u, off, Len(w))
  BY <1>0, <1>7, <1>8, Zenon DEF Spelled
<1> QED
  BY <1>9 DEF Spells, w, u

-----------------------------------------------------------------------------
(***************************************************************************)
(* The cleanup of a token gives back the text that the token spells.       *)
(***************************************************************************)
\* The characters that mean something to the split and the cleanup differ.
LEMMA MarksDiffer ==
  /\ BS # NUL /\ Quote # NUL /\ Comma # NUL /\ BS # Quote /\ BS # Comma /\ Quote # Comma
  /\ Space # BS /\ Space # Quote /\ Space # Comma
BY Zenon DEF BS, Quote, Comma, Space, NUL

\* A state of the cleanup between two characters, outside quotes.
Cleaning(out, end) == [out |-> out, end |-> end, quoted |-> FALSE, skip |-> FALSE]

\* The cleanup copies a character that means nothing to it.
LEMMA CleanPlain ==
  ASSUME NEW s, NEW i, NEW out, NEW end, s[i][1] # BS, s[i][1] # Quote
  PROVE  CleanupStep(s, Comma, Cleaning(out, end), i) =
           Cleaning(Append(out, s[i]), IF s[i][1] # Space THEN Len(out) + 1 ELSE end)
BY MarksDiffer, Zenon DEF CleanupStep, Cleaning

\* A state of the cleanup after the backslash of an escape.
Unescaping(out, end) == [out |-> out, end |-> end, quoted |-> FALSE, skip |-> TRUE]

\* It takes a backslash off what escape_inside_token() put one on.
LEMMA CleanEscaped ==
  ASSUME NEW s, NEW i \in Nat, NEW out, NEW end, s[i][1] = BS, i < Len(s), Len(s) \in Nat,
         TakesABackslash(s[i + 1][1], Comma)
  PROVE  CleanupStep(s, Comma, Cleaning(out, end), i) =
           Unescaping(Append(out, <<s[i + 1][1], s[i][2], s[i + 1][3]>>), Len(out) + 1)
<1> DEFINE c == s[i + 1][1]
<1>1. Unescape(c, Comma) = c /\ c # NUL
  BY MarksDiffer, Zenon DEF Unescape, TakesABackslash
<1> QED
  BY <1>1, Zenon DEF CleanupStep, Cleaning, Unescaping

\* The character after that backslash is done with.
LEMMA CleanSkips ==
  ASSUME NEW s, NEW i, NEW out, NEW end
  PROVE  CleanupStep(s, Comma, Unescaping(out, end), i) = Cleaning(out, end)
BY Zenon DEF CleanupStep, Cleaning, Unescaping

\* The symbols of a traced text: a character and where it came from.
Traced(A) == A \X Nat \X Nat

\* The characters of a trace.
LEMMA UntraceIs ==
  ASSUME NEW A, NEW text \in Seq(Traced(A)), NEW t \in Seq(A), Len(text) = Len(t),
         \A i \in 1 .. Len(t) : text[i][1] = t[i]
  PROVE  Untrace(text) = t
<1> DEFINE n == Len(t)
           chars == [i \in 1 .. n |-> text[i][1]]
<1>1. n \in Nat /\ chars \in Seq(A) /\ Len(chars) = n /\ \A i \in 1 .. n : chars[i] = t[i]
  OBVIOUS
<1>2. chars = t
  <2> HIDE DEF chars
  <2> QED BY <1>1, SameSequence
<1>3. Untrace(text) = SubSeq(chars, 1, n)
  BY DEF Untrace, Listed
<1> QED
  BY <1>2, <1>3

\* The cleanup of a spelled text, with a character other than a space at both ends.
LEMMA CleanupOf ==
  ASSUME NEW A, BS \in A, NEW text \in Seq(Traced(A)), NEW t \in Seq(A), NEW off,
         NEW s \in Seq(A), Len(s) = Len(text), \A j \in 1 .. Len(s) : text[j][1] = s[j],
         Spelled(s, 0, t, off, Len(s)),
         t # <<>>, t[1] # Space, t[Len(t)] # Space
  PROVE  Untrace(Cleanup(text, Comma)) = t
<1> DEFINE n == Len(t)
           h == Len(text)
<1>0. /\ n \in Nat /\ n # 0 /\ 1 \in 1 .. n /\ h \in Nat /\ \A i \in 1 .. n : t[i] \in A
      /\ \A j \in 1 .. h : text[j] \in Traced(A) /\ text[j][1] = s[j]
  OBVIOUS
<1>1. /\ off \in [0 .. n -> Nat] /\ off[0] = 0 /\ off[n] = h
      /\ \A i \in 1 .. n : off[i] <= h /\ LetterAt(s, t, off, i)
  BY Zenon DEF Spelled
<1>2. \A i \in 1 .. n : i - 1 \in 0 .. n /\ i \in 0 .. n
  BY <1>0
<1> HIDE DEF n, h
<1>3. SkipSpaces(text) = text
  <2>1. h > 0 /\ text[1][1] # Space
    <3>1. off[1] <= h /\ LetterAt(s, t, off, 1) /\ off[1] \in Nat /\ 1 - 1 = 0
      BY <1>0, <1>1, <1>2
    <3>2. (off[1] = 2 /\ s[1] = BS) \/ (off[1] = 1 /\ s[1] = t[1])
      BY <1>1, <3>1 DEF LetterAt
    <3>3. h > 0 /\ s[1] # Space
      BY <1>0, <3>1, <3>2, MarksDiffer
    <3> QED
      BY <1>0, <3>3
  <2> DEFINE found == {k \in 1 .. Len(text) : text[k][1] # Space}
             first == CHOOSE k \in found : \A j \in found : k <= j
  <2>2. 1 \in found /\ \A j \in found : 1 <= j /\ j \in Nat
    BY <1>0, <2>1 DEF h
  <2> HIDE DEF found
  <2>3. first \in found /\ \A j \in found : first <= j
    BY <2>2
  <2>4. first = 1
    BY <2>2, <2>3
  <2>5. LeadingSpaces(text) = IF found = {} \/ first = None THEN Len(text) ELSE first - 1
    BY DEF LeadingSpaces, FirstAt, With, found, None
  <2>6. LeadingSpaces(text) = 0
    BY <2>2, <2>4, <2>5 DEF None
  <2> QED
    BY <2>6 DEF SkipSpaces
<1>4. PICK f : Runs(f, "clean", text, 0, CleanupStart, h) /\ CleanupWritten(text, Comma) = f[h]
  BY <1>0, CleanupRuns DEF h
<1>5. f[0] = Cleaning(<<>>, -1) /\ \A k \in 1 .. h : f[k] = CleanupStep(text, Comma, f[k - 1], k)
  BY <1>4 DEF Runs, Turn, CleanupStart, Cleaning
<1> DEFINE Good(i, out, end) ==
             /\ f[off[i]] = Cleaning(out, end) /\ Len(out) = i
             /\ \A j \in 1 .. i : out[j][1] = t[j]
             /\ i > 0 /\ t[i] # Space => end = i
           G == {i \in Nat : \E out \in Seq(Traced(A)), end \in Int : Good(i, out, end)}
<1>6. 0 \in G
  <2>1. Good(0, <<>>, -1) /\ <<>> \in Seq(Traced(A)) /\ -1 \in Int
    BY <1>1, <1>5
  <2> HIDE DEF Good
  <2> QED BY <2>1, Zenon
<1> HIDE DEF G, Good
<1>7. ASSUME NEW m \in 0 .. n - 1, m \in G PROVE m + 1 \in G
  <2> DEFINE i == m + 1
             p == off[m]
  <2>1. i \in 1 .. n /\ i - 1 = m /\ m \in Nat /\ m \in 0 .. n /\ i \in 0 .. n
    BY <1>0
  <2>2. PICK out \in Seq(Traced(A)), end \in Int : Good(m, out, end)
    BY <1>7 DEF G
  <2>3. /\ f[p] = Cleaning(out, end) /\ Len(out) = m /\ \A j \in 1 .. m : out[j][1] = t[j]
    BY <2>2 DEF Good
  <2>4. p \in Nat /\ off[i] \in Nat /\ off[i] <= h /\ LetterAt(s, t, off, i) /\ off[i - 1] = p /\ t[i] \in A
    BY <1>0, <1>1, <2>1
  <2> HIDE DEF i, p
  <2>5. ASSUME NEW x \in Traced(A), x[1] = t[i], NEW last \in Int, (t[i] # Space => last = i),
               f[off[i]] = Cleaning(Append(out, x), last)
        PROVE  i \in G
    <3> DEFINE more == Append(out, x)
    <3>1. /\ more \in Seq(Traced(A)) /\ Len(more) = i /\ more[i] = x
          /\ \A j \in 1 .. m : more[j] = out[j]
      BY <2>1, <2>3 DEF i
    <3>2. \A j \in 1 .. i : j = i \/ j \in 1 .. m
      BY <2>1 DEF i
    <3> HIDE DEF more
    <3>3. \A j \in 1 .. i : more[j][1] = t[j]
      BY <2>3, <2>5, <3>1, <3>2, Zenon
    <3>4. Good(i, more, last)
      BY <2>5, <3>1, <3>3, Zenon DEF Good, more
    <3> QED
      BY <2>1, <3>1, <3>4 DEF G
  <2>6. CASE TakesABackslash(t[i], Comma)
    <3>1. off[i] = p + 2 /\ s[p + 1] = BS /\ s[p + 2] = t[i]
      BY <2>4, <2>6 DEF LetterAt
    <3> DEFINE k == p + 1
               x == <<text[k + 1][1], text[k][2], text[k + 1][3]>>
    <3>2. k \in 1 .. h /\ k + 1 \in 1 .. h /\ k - 1 = p /\ (k + 1) - 1 = k /\ off[i] = k + 1 /\ k < h
      BY <1>0, <2>4, <3>1, SMTT(30)
    <3>3. text[k][1] = BS /\ text[k + 1][1] = t[i]
      BY <1>0, <2>4, <3>1, <3>2, SMTT(30)
    <3>4. x \in Traced(A) /\ x[1] = t[i]
      BY <1>0, <3>2, <3>3, Zenon DEF Traced
    <3> HIDE DEF k, x
    <3>5. f[k] = CleanupStep(text, Comma, f[p], k) /\ f[k + 1] = CleanupStep(text, Comma, f[k], k + 1)
      BY <1>5, <3>2
    <3>6. f[k + 1] = Cleaning(Append(out, x), Len(out) + 1)
      <4>1. text[k][1] = BS /\ k < Len(text) /\ TakesABackslash(text[k + 1][1], Comma)
        BY <2>6, <3>2, <3>3 DEF h
      <4>2. CleanupStep(text, Comma, Cleaning(out, end), k) =
              Unescaping(Append(out, <<text[k + 1][1], text[k][2], text[k + 1][3]>>), Len(out) + 1)
        BY <1>0, <3>2, <4>1, CleanEscaped, SMTT(30) DEF h
      <4>3. f[k] = Unescaping(Append(out, x), Len(out) + 1)
        BY <2>3, <3>5, <4>2, Zenon DEF x
      <4> QED
        BY <3>5, <4>3, CleanSkips
    <3>7. Len(out) + 1 = i /\ i \in Int
      BY <2>1, <2>3 DEF i
    <3> QED
      BY <2>5, <3>2, <3>4, <3>6, <3>7 DEF i
  <2>7. CASE ~TakesABackslash(t[i], Comma)
    <3>1. off[i] = p + 1 /\ s[p + 1] = t[i] /\ t[i] # BS /\ t[i] # Quote
      BY <2>4, <2>7 DEF LetterAt, TakesABackslash
    <3> DEFINE k == p + 1
               last == IF text[k][1] # Space THEN Len(out) + 1 ELSE end
    <3>2. k \in 1 .. h /\ k - 1 = p /\ off[i] = k
      BY <1>0, <2>4, <3>1
    <3>3. text[k][1] = t[i] /\ text[k] \in Traced(A)
      BY <1>0, <3>1, <3>2
    <3> HIDE DEF k
    <3>5. f[k] = CleanupStep(text, Comma, f[p], k)
      BY <1>5, <3>2
    <3>6. f[k] = Cleaning(Append(out, text[k]), last)
      BY <2>3, <3>1, <3>3, <3>5, CleanPlain, SMTT(30)
    <3>7. last \in Int /\ (t[i] # Space => last = i)
      BY <2>1, <2>3, <3>3 DEF i
    <3> HIDE DEF last
    <3> QED
      BY <2>5, <3>2, <3>3, <3>6, <3>7, Zenon DEF i
  <2> QED
    BY <2>6, <2>7
<1>8. n \in G
  BY <1>0, <1>6, <1>7, Induction
<1>9. PICK out \in Seq(Traced(A)), end \in Int : Good(n, out, end)
  BY <1>8 DEF G
<1>10. f[h] = Cleaning(out, n) /\ Len(out) = n /\ \A j \in 1 .. n : out[j][1] = t[j]
  BY <1>0, <1>1, <1>9 DEF Good, n
<1>11. Cleanup(text, Comma) = SubSeq(out, 1, IF n = -1 THEN 0 ELSE n)
  BY <1>3, <1>4, <1>10, SMTT(30) DEF Cleanup, With, Cleaning
<1>12. Cleanup(text, Comma) = out
  BY <1>0, <1>10, <1>11
<1> QED
  BY <1>10, <1>12, UntraceIs DEF n

-----------------------------------------------------------------------------
(***************************************************************************)
(* The split goes through a token without closing it, and closes it at the *)
(* separator.                                                              *)
(***************************************************************************)
\* A state of the split between two characters, outside quotes, and one after a backslash.
Cutting(spans, begin) ==
  [spans |-> spans, begin |-> begin, quoted |-> FALSE, held |-> FALSE,
   skip |-> FALSE, stop |-> None, done |-> FALSE, state |-> "Start"]

Passing(spans, begin) ==
  [spans |-> spans, begin |-> begin, quoted |-> FALSE, held |-> FALSE,
   skip |-> TRUE, stop |-> None, done |-> FALSE, state |-> "Start"]

\* Where the token that holds position i begins.
Begun(begin, i) == IF begin = None THEN i ELSE begin

\* The split goes through a character that means nothing to it.
LEMMA CutPlain ==
  ASSUME NEW text, NEW i, NEW spans, NEW begin, text[i][1] # NUL, ~TakesABackslash(text[i][1], Comma)
  PROVE  CharDelimStep(text, Comma, NoLimit, Cutting(spans, begin), i) = Cutting(spans, Begun(begin, i))
<1>1. text[i][1] # BS /\ text[i][1] # Quote /\ text[i][1] # Comma
  BY DEF TakesABackslash
<1> QED
  BY <1>1, Zenon DEF CharDelimStep, Cutting, Begun, Reached

\* It goes through a backslash and holds its meaning for the next character.
LEMMA CutEscaped ==
  ASSUME NEW text, NEW i, NEW spans, NEW begin, text[i][1] = BS
  PROVE  CharDelimStep(text, Comma, NoLimit, Cutting(spans, begin), i) = Passing(spans, Begun(begin, i))
BY MarksDiffer, Zenon DEF CharDelimStep, Cutting, Passing, Begun, Reached

\* The character after a backslash is gone through, whatever it is.
LEMMA CutPasses ==
  ASSUME NEW text, NEW i, NEW spans, NEW begin
  PROVE  CharDelimStep(text, Comma, NoLimit, Passing(spans, begin), i) = Cutting(spans, begin)
BY Zenon DEF CharDelimStep, Cutting, Passing

\* At a separator the split closes a token.
LEMMA CutSeparates ==
  ASSUME NEW text, NEW i, NEW spans, NEW begin, begin # None, text[i][1] = Comma
  PROVE  CharDelimStep(text, Comma, NoLimit, Cutting(spans, begin), i) =
           Cutting(Append(spans, <<begin, i>>), None)
BY MarksDiffer, Zenon DEF CharDelimStep, Cutting, Reached

\* The characters of the first h symbols of a traced text.
Chars(text, s, h) == \A j \in 1 .. h : text[j][1] = s[j]

\* f goes through the split of a text.
Splits(f, text, h) == \A k \in 1 .. h : f[k] = CharDelimStep(text, Comma, NoLimit, f[k - 1], k)

\* The split passes over a spelled text as a whole.
LEMMA TokenPassed ==
  ASSUME NEW A, NEW t \in Seq(A), NEW s, NEW h \in Nat, NEW text, Chars(text, s, h),
         NEW lo \in Nat, NEW hi, NEW off, Spelled(s, lo, t, off, hi), hi <= h,
         t # <<>>, ~Contains(t, NUL), NEW f, Splits(f, text, h), NEW spans, f[lo] = Cutting(spans, None)
  PROVE  f[hi] = Cutting(spans, lo + 1)
<1> DEFINE n == Len(t)
<1>0. n \in Nat /\ n # 0 /\ \A i \in 1 .. n : t[i] # NUL
  BY DEF Contains
<1>1. /\ off \in [0 .. n -> Nat] /\ off[0] = lo /\ off[n] = hi
      /\ \A i \in 1 .. n : off[i] <= hi /\ LetterAt(s, t, off, i)
  BY Zenon DEF Spelled
<1> HIDE DEF n
<1>2. hi \in Nat
  BY <1>0, <1>1
<1> DEFINE Good(i) == f[off[i]] = Cutting(spans, IF i = 0 THEN None ELSE lo + 1)
           G == {i \in Nat : Good(i)}
<1>3. 0 \in G
  BY <1>1
<1> HIDE DEF G, Good
<1>4. ASSUME NEW m \in 0 .. n - 1, m \in G PROVE m + 1 \in G
  <2> DEFINE i == m + 1
             p == off[m]
             k == p + 1
             begin == IF m = 0 THEN None ELSE lo + 1
  <2>1. i \in 1 .. n /\ i - 1 = m /\ m \in Nat /\ m \in 0 .. n /\ i \in 0 .. n /\ i # 0 /\ i \in Nat
    BY <1>0
  <2>2. f[p] = Cutting(spans, begin)
    BY <1>4 DEF G, Good
  <2>3. /\ p \in Nat /\ off[i] \in Nat /\ off[i] <= hi /\ LetterAt(s, t, off, i) /\ off[i - 1] = p
        /\ t[i] # NUL
    BY <1>0, <1>1, <2>1
  <2>4. Begun(begin, k) = lo + 1
    BY <1>1, <2>1 DEF Begun, None
  <2>5. ASSUME f[off[i]] = Cutting(spans, lo + 1) PROVE i \in G
    BY <2>1, <2>5 DEF G, Good
  <2> HIDE DEF i, p, begin
  <2>6. CASE TakesABackslash(t[i], Comma)
    <3>1. off[i] = p + 2 /\ s[p + 1] = BS
      BY <2>3, <2>6 DEF LetterAt
    <3>2. k \in 1 .. h /\ k + 1 \in 1 .. h /\ k - 1 = p /\ (k + 1) - 1 = k /\ off[i] = k + 1
      BY <1>2, <2>3, <3>1, SMTT(30)
    <3>3. text[k][1] = BS
      BY <3>1, <3>2 DEF Chars
    <3> HIDE DEF k
    <3>4. /\ f[k] = CharDelimStep(text, Comma, NoLimit, f[p], k)
          /\ f[k + 1] = CharDelimStep(text, Comma, NoLimit, f[k], k + 1)
      BY <3>2, SMTT(30) DEF Splits
    <3>5. f[k] = Passing(spans, lo + 1)
      BY <2>2, <2>4, <3>3, <3>4, CutEscaped, SMTT(30)
    <3>6. f[k + 1] = Cutting(spans, lo + 1)
      BY <3>4, <3>5, CutPasses
    <3> QED
      BY <2>5, <3>2, <3>6, SMTT(30) DEF i
  <2>7. CASE ~TakesABackslash(t[i], Comma)
    <3>1. off[i] = p + 1 /\ s[p + 1] = t[i]
      BY <2>3, <2>7 DEF LetterAt
    <3>2. k \in 1 .. h /\ k - 1 = p /\ off[i] = k
      BY <1>2, <2>3, <3>1
    <3>3. text[k][1] = t[i]
      BY <3>1, <3>2 DEF Chars
    <3> HIDE DEF k
    <3>4. f[k] = CharDelimStep(text, Comma, NoLimit, f[p], k)
      BY <3>2, SMTT(30) DEF Splits
    <3>5. f[k] = Cutting(spans, lo + 1)
      BY <2>2, <2>3, <2>4, <2>7, <3>3, <3>4, CutPlain, SMTT(30)
    <3> QED
      BY <2>5, <3>2, <3>5 DEF i
  <2> QED
    BY <2>6, <2>7
<1>5. n \in G
  BY <1>0, <1>3, <1>4, Induction
<1> QED
  BY <1>0, <1>1, <1>5 DEF G, Good

\* A text before anything is done to it.
LEMMA TraceIs ==
  ASSUME NEW A, NEW s \in Seq(A)
  PROVE  /\ Trace(s) \in Seq(Traced(A)) /\ Len(Trace(s)) = Len(s)
         /\ \A j \in 1 .. Len(s) : Trace(s)[j][1] = s[j]
<1> DEFINE n == Len(s)
           x == [i \in 1 .. n |-> <<s[i], i - 1, i>>]
<1>1. n \in Nat
  OBVIOUS
<1>2. \A i \in 1 .. n : <<s[i], i - 1, i>> \in Traced(A)
  BY DEF Traced
<1>3. x \in [1 .. n -> Traced(A)]
  BY <1>2
<1>4. x \in Seq(Traced(A)) /\ Len(x) = n /\ \A j \in 1 .. n : x[j][1] = s[j]
  <2>1. \A j \in 1 .. n : x[j][1] = s[j]
    OBVIOUS
  <2> HIDE DEF x, n
  <2> QED BY <1>1, <1>3, <2>1
<1>5. Trace(s) = SubSeq(x, 1, n)
  BY DEF Trace, Listed
<1>6. SubSeq(x, 1, n) = x
  <2> HIDE DEF x, n
  <2> QED BY <1>1, <1>4
<1> QED
  BY <1>4, <1>5, <1>6

\* The tokens of a text: lo[k] symbols precede the k-th, which ends at hi[k].
Tokens(s, texts, lo, hi) ==
  /\ lo \in [1 .. Len(texts) -> Nat] /\ hi \in [1 .. Len(texts) -> Nat]
  /\ \A k \in 1 .. Len(texts) :
       /\ hi[k] <= Len(s) /\ \E off : Spelled(s, lo[k], texts[k], off, hi[k])
       /\ texts[k] # <<>> /\ ~Contains(texts[k], NUL)
       /\ k = 1 => lo[k] = 0
       /\ k > 1 => lo[k] = hi[k - 1] + 1 /\ s[lo[k]] = Comma /\ lo[k] <= Len(s)
  /\ IF texts = <<>> THEN Len(s) = 0 ELSE hi[Len(texts)] = Len(s)

\* The split on commas cuts a text into its tokens.
LEMMA TokensCut ==
  ASSUME NEW A, NEW s \in Seq(A), NEW texts \in Seq(Seq(A)), NEW lo, NEW hi, Tokens(s, texts, lo, hi)
  PROVE  CharDelim(Trace(s), Comma, NoLimit).spans = [k \in 1 .. Len(texts) |-> <<lo[k] + 1, hi[k] + 1>>]
<1> DEFINE n == Len(texts)
           h == Len(s)
           text == Trace(s)
           g == [j \in 1 .. n |-> <<lo[j] + 1, hi[j] + 1>>]
           Spans(k) == [j \in 1 .. k |-> g[j]]
<1>0. n \in Nat /\ h \in Nat /\ (texts = <<>>) = (n = 0) /\ \A k \in 1 .. n : texts[k] \in Seq(A)
  OBVIOUS
<1>1. text \in Seq(Traced(A)) /\ Len(text) = h /\ \A j \in 1 .. h : text[j][1] = s[j]
  BY TraceIs, Zenon
<1>2. /\ lo \in [1 .. n -> Nat] /\ hi \in [1 .. n -> Nat]
      /\ \A k \in 1 .. n :
           /\ hi[k] <= h /\ \E off : Spelled(s, lo[k], texts[k], off, hi[k])
           /\ texts[k] # <<>> /\ ~Contains(texts[k], NUL)
           /\ k = 1 => lo[k] = 0
           /\ k > 1 => lo[k] = hi[k - 1] + 1 /\ s[lo[k]] = Comma /\ lo[k] <= h
      /\ IF texts = <<>> THEN h = 0 ELSE hi[n] = h
  BY Zenon DEF Tokens
<1> HIDE DEF n, h, text
<1>3. PICK f : /\ Runs(f, "cut", text, 0, CutStart, h)
               /\ CharDelim(text, Comma, NoLimit) = CutOf(f[h], LAMBDA x : x.begin # None, text)
  <2>1. Len(text) \in Nat
    BY <1>0, <1>1
  <2> QED BY <1>1, <2>1, CharDelimRuns, Zenon
<1>4. f[0] = Cutting(<<>>, None) /\ \A k \in 1 .. h : f[k] = CharDelimStep(text, Comma, NoLimit, f[k - 1], k)
  BY <1>3 DEF Runs, Turn, CutStart, Cutting
<1>5. Spans(0) = <<>> /\ \A k \in 0 .. n - 1 : Append(Spans(k), <<lo[k + 1] + 1, hi[k + 1] + 1>>) = Spans(k + 1)
  <2>1. Spans(0) = <<>>
    OBVIOUS
  <2>2. ASSUME NEW k \in 0 .. n - 1 PROVE Append(Spans(k), <<lo[k + 1] + 1, hi[k + 1] + 1>>) = Spans(k + 1)
    <3>1. k \in Nat /\ g[k + 1] = <<lo[k + 1] + 1, hi[k + 1] + 1>>
      BY <1>0
    <3> HIDE DEF g
    <3>2. Append(Spans(k), g[k + 1]) = Spans(k + 1)
      BY <3>1, AppendNext
    <3> QED BY <3>1, <3>2, Zenon
  <2> HIDE DEF Spans
  <2> QED BY <2>1, <2>2
<1>10. Spans(n) = g
  BY Zenon
<1> HIDE DEF Spans, g
<1> DEFINE Good(k) == k > 0 => f[hi[k]] = Cutting(Spans(k - 1), lo[k] + 1)
           G == {k \in Nat : Good(k)}
<1>6. 0 \in G
  OBVIOUS
<1>7. ASSUME NEW m \in 0 .. n - 1, m \in G PROVE m + 1 \in G
  <2> DEFINE k == m + 1
  <2>1. m \in Nat /\ k \in 1 .. n /\ k - 1 = m /\ k \in Nat
    BY <1>0
  <2>2. lo[k] \in Nat /\ hi[k] \in Nat /\ hi[k] <= h
    BY <1>2, <2>1
  <2>3. f[lo[k]] = Cutting(Spans(m), None)
    <3>1. CASE m = 0
      <4>1. lo[k] = 0
        BY <1>2, <2>1, <3>1
      <4> QED BY <1>4, <1>5, <3>1, <4>1
    <3>2. CASE m # 0
      <4>1. m \in 1 .. n /\ m > 0 /\ k > 1 /\ (m - 1) + 1 = m /\ m - 1 \in 0 .. n - 1
        BY <1>0, <2>1, <3>2
      <4>2. /\ lo[k] = hi[m] + 1 /\ s[lo[k]] = Comma /\ lo[k] <= h /\ lo[m] \in Nat /\ hi[m] \in Nat
        BY <1>2, <2>1, <4>1
      <4>3. lo[k] \in 1 .. h /\ lo[k] - 1 = hi[m]
        <5> DEFINE l == lo[k]
                   e == hi[m]
        <5>1. l \in Nat /\ e \in Nat /\ l = e + 1 /\ l <= h
          BY <2>2, <4>2
        <5> HIDE DEF l, e
        <5>2. l \in 1 .. h /\ l - 1 = e
          BY <1>0, <5>1
        <5> QED BY <5>2 DEF l, e
      <4>4. f[hi[m]] = Cutting(Spans(m - 1), lo[m] + 1)
        BY <1>7, <4>1
      <4>5. f[lo[k]] = CharDelimStep(text, Comma, NoLimit, Cutting(Spans(m - 1), lo[m] + 1), lo[k])
        BY <1>4, <4>3, <4>4, SMTT(30)
      <4>6. lo[m] + 1 # None /\ text[lo[k]][1] = Comma
        BY <1>1, <4>2, <4>3, SMTT(30) DEF None
      <4>7. f[lo[k]] = Cutting(Append(Spans(m - 1), <<lo[m] + 1, lo[k]>>), None)
        BY <4>5, <4>6, CutSeparates
      <4>8. Append(Spans(m - 1), <<lo[m] + 1, hi[m] + 1>>) = Spans(m)
        BY <1>5, <4>1
      <4> QED BY <4>2, <4>7, <4>8, Zenon
    <3> QED BY <3>1, <3>2
  <2>4. PICK off : Spelled(s, lo[k], texts[k], off, hi[k])
    BY <1>2, <2>1
  <2>5. texts[k] \in Seq(A) /\ texts[k] # <<>> /\ ~Contains(texts[k], NUL)
    BY <1>0, <1>2, <2>1
  <2> HIDE DEF k
  <2>6. f[hi[k]] = Cutting(Spans(m), lo[k] + 1)
    <3> DEFINE t == texts[k]
               l == lo[k]
               e == hi[k]
    <3>1. /\ t \in Seq(A) /\ t # <<>> /\ ~Contains(t, NUL) /\ l \in Nat /\ Spelled(s, l, t, off, e) /\ e <= h
          /\ f[l] = Cutting(Spans(m), None) /\ Chars(text, s, h) /\ Splits(f, text, h)
      BY <1>1, <1>4, <2>2, <2>3, <2>4, <2>5, SMTT(30) DEF Chars, Splits
    <3> HIDE DEF t, l, e
    <3>2. f[e] = Cutting(Spans(m), l + 1)
      BY <1>0, <3>1, TokenPassed
    <3> QED BY <3>2, SMTT(30) DEF e, l
  <2> QED
    BY <2>1, <2>6 DEF k
<1> HIDE DEF G
<1>8. n \in G
  BY <1>0, <1>6, <1>7, Induction
<1>9. CharDelim(text, Comma, NoLimit).spans = Spans(n)
  <2>1. CASE n = 0
    <3>1. f[h] = Cutting(<<>>, None)
      BY <1>0, <1>2, <1>4, <2>1, SMTT(30)
    <3>2. CutOf(f[h], LAMBDA x : x.begin # None, text).spans = <<>>
      BY <3>1 DEF CutOf, Cutting
    <3> QED BY <1>3, <1>5, <2>1, <3>2
  <2>2. CASE n # 0
    <3>1. n > 0 /\ n \in 1 .. n /\ (n - 1) + 1 = n /\ n - 1 \in 0 .. n - 1 /\ hi[n] = h /\ lo[n] \in Nat
      BY <1>0, <1>2, <2>2
    <3>2. f[h] = Cutting(Spans(n - 1), lo[n] + 1) /\ lo[n] + 1 # None
      BY <1>8, <3>1, SMTT(30) DEF G, None
    <3>3. CharDelim(text, Comma, NoLimit).spans = Append(Spans(n - 1), <<lo[n] + 1, Len(text) + 1>>)
      BY <1>3, <3>2 DEF CutOf, Cutting
    <3>4. Append(Spans(n - 1), <<lo[n] + 1, hi[n] + 1>>) = Spans(n)
      BY <1>5, <3>1, SMTT(30)
    <3> QED BY <1>1, <3>1, <3>3, <3>4, SMTT(30)
  <2> QED BY <2>1, <2>2
<1> QED
  BY <1>9, <1>10 DEF g, n, text

-----------------------------------------------------------------------------
(***************************************************************************)
(* The text of a list splits into the texts of its entries.                *)
(***************************************************************************)
\* The entries of a list, as they stand in its text.
Separated(k, e) == (IF k = 1 THEN <<>> ELSE <<Comma>>) \o e

\* The text of a list, from the texts of its entries.
Joined(es) == Flatten(Listed(LAMBDA k : Separated(k, es[k]), Len(es)))

\* A text that comes out of the split and the cleanup as it went in.
Whole(A, t) ==
  t \in Seq(A) /\ t # <<>> /\ ~Contains(t, NUL) /\ t[1] # Space /\ t[Len(t)] # Space

\* Entries that spell a list of such texts.
Fits(A, es, texts) ==
  /\ es \in Seq(Seq(A)) /\ texts \in Seq(Seq(A)) /\ Len(es) = Len(texts)
  /\ \A k \in 1 .. Len(es) : Spells(es[k], texts[k]) /\ Whole(A, texts[k])

\* Where each entry stands in the text.
Stand(s, es, lo, hi) ==
  \A k \in 1 .. Len(es) : hi[k] = lo[k] + Len(es[k]) /\ \A j \in 1 .. Len(es[k]) : s[lo[k] + j] = es[k][j]

\* The entries of the joined text are its tokens.
LEMMA JoinedTokens ==
  ASSUME NEW A, Comma \in A, NEW es, NEW texts, Fits(A, es, texts)
  PROVE  /\ Joined(es) \in Seq(A)
         /\ \E lo, hi : Tokens(Joined(es), texts, lo, hi) /\ Stand(Joined(es), es, lo, hi)
<1> DEFINE n == Len(es)
           parts == [k \in 1 .. n |-> Separated(k, es[k])]
           s == Flatten(parts)
<1>0. /\ n \in Nat /\ n = Len(texts) /\ texts \in Seq(Seq(A))
      /\ \A k \in 1 .. n : /\ es[k] \in Seq(A) /\ Len(es[k]) \in Nat /\ texts[k] \in Seq(A)
                           /\ Spells(es[k], texts[k]) /\ Whole(A, texts[k])
  BY DEF Fits
<1>1. ASSUME NEW k \in 1 .. n
      PROVE  /\ Separated(k, es[k]) \in Seq(A)
             /\ k = 1 => /\ Len(Separated(k, es[k])) = Len(es[k])
                         /\ \A j \in 1 .. Len(es[k]) : Separated(k, es[k])[j] = es[k][j]
             /\ k > 1 => /\ Len(Separated(k, es[k])) = 1 + Len(es[k]) /\ Separated(k, es[k])[1] = Comma
                         /\ \A j \in 1 .. Len(es[k]) : Separated(k, es[k])[1 + j] = es[k][j]
  <2> DEFINE e == es[k]
  <2>1. e \in Seq(A)
    BY <1>0
  <2>2. ASSUME NEW c \in A
        PROVE  /\ <<c>> \o e \in Seq(A) /\ Len(<<c>> \o e) = 1 + Len(e) /\ (<<c>> \o e)[1] = c
               /\ \A j \in 1 .. Len(e) : (<<c>> \o e)[1 + j] = e[j]
    <3> HIDE DEF e
    <3> QED BY <2>1
  <2>3. <<>> \o e = e
    <3> HIDE DEF e
    <3> QED BY <2>1
  <2> HIDE DEF e
  <2>4. k = 1 => Separated(k, e) = e
    BY <2>3 DEF Separated
  <2>5. k # 1 => Separated(k, e) = <<Comma>> \o e
    BY DEF Separated
  <2>6. k = 1 \/ k # 1
    OBVIOUS
  <2>7. k > 1 => k # 1
    OBVIOUS
  <2>8. CASE k = 1
    <3>1. ~(k > 1)
      BY <2>8
    <3>2. Separated(k, e) = e
      BY <2>4, <2>8
    <3>3. /\ Separated(k, e) \in Seq(A) /\ Len(Separated(k, e)) = Len(e)
          /\ \A j \in 1 .. Len(e) : Separated(k, e)[j] = e[j]
      BY <2>1, <3>2, SMTT(30)
    <3> QED BY <3>1, <3>3 DEF e
  <2>9. CASE k # 1
    <3>1. Separated(k, e) = <<Comma>> \o e
      BY <2>5, <2>9
    <3> DEFINE p == <<Comma>> \o e
    <3>2. /\ p \in Seq(A) /\ Len(p) = 1 + Len(e) /\ p[1] = Comma
          /\ \A j \in 1 .. Len(e) : p[1 + j] = e[j]
      BY <2>2
    <3> HIDE DEF p
    <3>3. /\ Separated(k, e) \in Seq(A) /\ Len(Separated(k, e)) = 1 + Len(e) /\ Separated(k, e)[1] = Comma
          /\ \A j \in 1 .. Len(e) : Separated(k, e)[1 + j] = e[j]
      BY <3>1, <3>2 DEF p
    <3> QED BY <2>9, <3>3 DEF e
  <2> QED
    BY <2>8, <2>9
<1>2. parts \in Seq(Seq(A)) /\ Len(parts) = n /\ \A k \in 1 .. n : parts[k] = Separated(k, es[k])
  <2>1. parts \in [1 .. n -> Seq(A)] /\ \A k \in 1 .. n : parts[k] = Separated(k, es[k])
    BY <1>1, Zenon
  <2>2. \A m \in Nat : \A q \in [1 .. m -> Seq(A)] : q \in Seq(Seq(A)) /\ Len(q) = m
    OBVIOUS
  <2>3. n \in Nat
    BY <1>0
  <2> HIDE DEF parts, n
  <2> QED BY <2>1, <2>2, <2>3
<1>3. Joined(es) = s
  <2>1. Listed(LAMBDA k : Separated(k, es[k]), Len(es)) = SubSeq(parts, 1, n)
    BY DEF Listed
  <2>2. SubSeq(parts, 1, n) = parts
    <3> HIDE DEF parts, n
    <3> QED BY <1>0, <1>2
  <2> QED BY <2>1, <2>2, Zenon DEF Joined
<1> HIDE DEF parts
<1>4. s \in Seq(A) /\ \E at : Layout(s, parts, at)
  BY <1>2, FlattenLayout
<1> HIDE DEF s
<1>5. PICK at : Layout(s, parts, at)
  BY <1>4
<1>6. /\ at \in [0 .. n -> Nat] /\ at[0] = 0 /\ at[n] = Len(s)
      /\ \A k \in 1 .. n : /\ at[k] = at[k - 1] + Len(parts[k]) /\ at[k] <= Len(s)
                           /\ \A j \in 1 .. Len(parts[k]) : s[at[k - 1] + j] = parts[k][j]
  BY <1>2, <1>5 DEF Layout
<1> HIDE DEF n
<1> DEFINE lo == [k \in 1 .. n |-> IF k = 1 THEN 0 ELSE at[k - 1] + 1]
           hi == [k \in 1 .. n |-> at[k]]
<1>7. ASSUME NEW k \in 1 .. n
      PROVE  /\ lo[k] \in Nat /\ hi[k] \in Nat /\ hi[k] = lo[k] + Len(es[k]) /\ hi[k] <= Len(s)
             /\ k = 1 => lo[k] = 0
             /\ k > 1 => lo[k] = hi[k - 1] + 1 /\ s[lo[k]] = Comma /\ lo[k] <= Len(s)
             /\ \A j \in 1 .. Len(es[k]) : s[lo[k] + j] = es[k][j]
  <2> DEFINE a == at[k - 1]
             p == parts[k]
             e == es[k]
  <2>1. /\ k \in Nat /\ k - 1 \in 0 .. n /\ k \in 0 .. n /\ a \in Nat /\ at[k] \in Nat
        /\ Len(e) \in Nat /\ Len(s) \in Nat
        /\ hi[k] = at[k] /\ at[k] = a + Len(p) /\ at[k] <= Len(s) /\ \A j \in 1 .. Len(p) : s[a + j] = p[j]
    <3>1. k \in Nat /\ k - 1 \in 0 .. n /\ k \in 0 .. n /\ Len(e) \in Nat /\ Len(s) \in Nat
      BY <1>0, <1>4
    <3>2. a \in Nat /\ at[k] \in Nat /\ hi[k] = at[k]
      BY <1>6, <3>1
    <3> QED BY <1>6, <3>1, <3>2, Zenon
  <2>2. p = Separated(k, e)
    BY <1>2
  <2>3. CASE k = 1
    <3>1. lo[k] = 0 /\ a = 0
      BY <1>6, <2>3, SMTT(30)
    <3>2. Len(p) = Len(e) /\ \A j \in 1 .. Len(e) : p[j] = e[j]
      BY <1>1, <2>2, <2>3, SMTT(30)
    <3> HIDE DEF a, p, e, lo, hi
    <3>3. \A j \in 1 .. Len(e) : s[0 + j] = e[j]
      BY <2>1, <3>1, <3>2
    <3>4. hi[k] \in Nat /\ hi[k] = 0 + Len(e) /\ hi[k] <= Len(s) /\ ~(k > 1)
      BY <2>1, <2>3, <3>1, <3>2
    <3> QED BY <3>1, <3>3, <3>4, SMTT(30) DEF e
  <2>4. CASE k # 1
    <3>1. lo[k] = a + 1 /\ k > 1 /\ k - 1 \in 1 .. n /\ hi[k - 1] = a
      BY <1>0, <2>1, <2>4, SMTT(30)
    <3>2. Len(p) = 1 + Len(e) /\ p[1] = Comma /\ \A j \in 1 .. Len(e) : p[1 + j] = e[j]
      BY <1>1, <2>2, <3>1, SMTT(30)
    <3> HIDE DEF a, p, e, lo, hi
    <3>3. 1 \in 1 .. Len(p) /\ \A j \in 1 .. Len(e) : 1 + j \in 1 .. Len(p) /\ (a + 1) + j = a + (1 + j)
      <4> DEFINE u == Len(p)
                 v == Len(e)
      <4>1. u = 1 + v /\ v \in Nat /\ a \in Nat
        BY <2>1, <3>2
      <4> HIDE DEF u, v
      <4>2. 1 \in 1 .. u /\ \A j \in 1 .. v : 1 + j \in 1 .. u /\ (a + 1) + j = a + (1 + j)
        BY <4>1
      <4> QED BY <4>2 DEF u, v
    <3>4. s[a + 1] = Comma /\ \A j \in 1 .. Len(e) : s[a + (1 + j)] = e[j]
      BY <2>1, <3>2, <3>3, SMTT(30)
    <3>5. \A j \in 1 .. Len(e) : s[(a + 1) + j] = e[j]
      BY <3>3, <3>4
    <3>6. hi[k] \in Nat /\ hi[k] = (a + 1) + Len(e) /\ hi[k] <= Len(s) /\ a + 1 \in Nat /\ a + 1 <= Len(s)
      <4> DEFINE u == Len(p)
                 v == Len(e)
                 w == Len(s)
                 h == hi[k]
      <4>1. u = 1 + v /\ v \in Nat /\ a \in Nat /\ w \in Nat /\ h = a + u /\ h <= w
        BY <2>1, <3>2
      <4> HIDE DEF u, v, w, h
      <4>2. h \in Nat /\ h = (a + 1) + v /\ h <= w /\ a + 1 \in Nat /\ a + 1 <= w
        BY <4>1
      <4> QED BY <4>2 DEF v, w, h
    <3> QED BY <2>4, <3>1, <3>4, <3>5, <3>6, Zenon DEF e
  <2> QED
    BY <2>3, <2>4
<1>8. lo \in [1 .. n -> Nat] /\ hi \in [1 .. n -> Nat]
  <2>1. \A k \in 1 .. n : lo[k] \in Nat /\ hi[k] \in Nat
    BY <1>7, Zenon
  <2>2. lo = [k \in 1 .. n |-> lo[k]] /\ hi = [k \in 1 .. n |-> hi[k]]
    BY Zenon
  <2> HIDE DEF lo, hi
  <2> QED BY <2>1, <2>2, Zenon
<1>9. n # 0 => hi[n] = Len(s)
  BY <1>0, <1>6
<1>10. n = 0 => Len(s) = 0
  BY <1>6
<1> HIDE DEF lo, hi
<1>11. ASSUME NEW k \in 1 .. n PROVE \E off : Spelled(s, lo[k], texts[k], off, hi[k])
  <2> DEFINE e == es[k]
             t == texts[k]
             l == lo[k]
  <2>1. e \in Seq(A) /\ t \in Seq(A) /\ l \in Nat /\ hi[k] = l + Len(e) /\ \A j \in 1 .. Len(e) : s[l + j] = e[j]
    BY <1>0, <1>7
  <2>2. PICK off : Spelled(e, 0, t, off, Len(e))
    BY <1>0 DEF Spells
  <2> HIDE DEF e, t, l
  <2>3. Spelled(s, l, t, [i \in 0 .. Len(t) |-> l + off[i]], l + Len(e))
    BY <2>1, <2>2, SpelledWithin, Zenon
  <2> QED
    BY <2>1, <2>3, Zenon DEF l, t
<1>12. Tokens(s, texts, lo, hi)
  <2>1. \A k \in 1 .. n : texts[k] # <<>> /\ ~Contains(texts[k], NUL)
    BY <1>0 DEF Whole
  <2>2. (texts = <<>>) = (n = 0)
    BY <1>0
  <2> QED
    BY <1>0, <1>7, <1>8, <1>9, <1>10, <1>11, <2>1, <2>2, Zenon DEF Tokens
<1>13. Stand(s, es, lo, hi)
  BY <1>7 DEF Stand, n
<1> QED
  BY <1>3, <1>4, <1>12, <1>13

\* Texts that are escaped and put in a list come out of it as they were.
LEMMA SplitJoined ==
  ASSUME NEW A, Comma \in A, BS \in A, NEW es, NEW texts, Fits(A, es, texts)
  PROVE  SplitCodecString(Joined(es)) = texts
<1> DEFINE n == Len(es)
           s == Joined(es)
           text == Trace(s)
<1>0. /\ n \in Nat /\ n = Len(texts) /\ texts \in Seq(Seq(A))
      /\ \A k \in 1 .. n : /\ es[k] \in Seq(A) /\ Len(es[k]) \in Nat /\ texts[k] \in Seq(A)
                           /\ Spells(es[k], texts[k]) /\ Whole(A, texts[k])
  BY DEF Fits
<1>1. s \in Seq(A)
  BY JoinedTokens
<1>2. PICK lo, hi : Tokens(s, texts, lo, hi) /\ Stand(s, es, lo, hi)
  BY JoinedTokens, SMTT(30)
<1> HIDE DEF s
<1> DEFINE spans == [k \in 1 .. n |-> <<lo[k] + 1, hi[k] + 1>>]
<1>3. CharDelim(text, Comma, NoLimit).spans = spans
  BY <1>0, <1>1, <1>2, TokensCut, SMTT(30)
<1>4. text \in Seq(Traced(A)) /\ Len(text) = Len(s) /\ \A j \in 1 .. Len(s) : text[j][1] = s[j]
  BY <1>1, TraceIs, Zenon
<1>5. Len(spans) = n /\ \A k \in 1 .. n : spans[k][1] = lo[k] + 1 /\ spans[k][2] = hi[k] + 1
  BY <1>0
<1> HIDE DEF text, n, spans
<1>6. ASSUME NEW k \in 1 .. n
      PROVE  Untrace(Cleanup(SubSeq(text, spans[k][1], spans[k][2] - 1), Comma)) = texts[k]
  <2> DEFINE e == es[k]
             t == texts[k]
             l == lo[k]
             x == SubSeq(text, l + 1, l + Len(e))
  <2>1. /\ e \in Seq(A) /\ t \in Seq(A) /\ l \in Nat /\ hi[k] = l + Len(e) /\ Len(e) \in Nat
        /\ hi[k] <= Len(s) /\ \A j \in 1 .. Len(e) : s[l + j] = e[j]
    BY <1>0, <1>2, Zenon DEF Tokens, Stand, n
  <2>2. PICK off : Spelled(e, 0, t, off, Len(e))
    BY <1>0 DEF Spells
  <2>3. t # <<>> /\ t[1] # Space /\ t[Len(t)] # Space
    BY <1>0 DEF Whole
  <2>4. SubSeq(text, spans[k][1], spans[k][2] - 1) = x
    <3>1. spans[k][1] = l + 1 /\ spans[k][2] = (l + Len(e)) + 1 /\ l \in Nat /\ Len(e) \in Nat
      BY <1>5, <2>1
    <3>2. spans[k][2] - 1 = l + Len(e)
      <4> HIDE DEF e, l
      <4> QED BY <3>1
    <3> QED BY <3>1, <3>2, Zenon
  <2> HIDE DEF e, t, l
  <2>5. l + Len(e) <= Len(text) /\ \A j \in 1 .. Len(e) : text[l + j][1] = e[j]
    <3> DEFINE m == Len(e)
               v == Len(s)
    <3>1. l \in Nat /\ m \in Nat /\ v \in Nat /\ l + m <= v
      BY <1>1, <2>1
    <3>2. \A j \in 1 .. m : l + j \in 1 .. v
      <4> HIDE DEF m, v
      <4> QED BY <3>1
    <3> QED BY <1>4, <2>1, <3>1, <3>2
  <2>6. x \in Seq(Traced(A)) /\ Len(x) = Len(e) /\ \A j \in 1 .. Len(e) : x[j] = text[l + j]
    BY <1>4, <2>1, <2>5, SMTT(30)
  <2> HIDE DEF x
  <2>7. \A j \in 1 .. Len(e) : x[j][1] = e[j]
    BY <2>5, <2>6, SMTT(30)
  <2>8. Untrace(Cleanup(x, Comma)) = t
    BY <2>1, <2>2, <2>3, <2>6, <2>7, CleanupOf, SMTT(30)
  <2> QED
    BY <2>4, <2>8, Zenon DEF t
<1> DEFINE tokens == [k \in 1 .. n |-> Untrace(Cleanup(SubSeq(text, spans[k][1], spans[k][2] - 1), Comma))]
<1>7. SplitCodecString(s) = SubSeq(tokens, 1, n)
  BY <1>3, <1>5 DEF SplitCodecString, With, Listed, text
<1>8. tokens = [k \in 1 .. n |-> texts[k]]
  BY <1>6, Zenon
<1>9. [k \in 1 .. n |-> texts[k]] = texts
  BY <1>0
<1> QED
  BY <1>0, <1>7, <1>8, <1>9 DEF s

-----------------------------------------------------------------------------
(***************************************************************************)
(* str::split() and str::split_once(), which take a token apart.           *)
(***************************************************************************)
\* A text without the character is one part.
LEMMA SplitNone ==
  ASSUME NEW A, NEW s \in Seq(A), NEW c, ~Contains(s, c)
  PROVE  Split(s, c) = <<s>>
<1> DEFINE n == Len(s)
<1>0. n \in Nat /\ DOMAIN s = 1 .. n /\ \A i \in 1 .. n : s[i] \in A
  OBVIOUS
<1>1. PICK f : Runs(f, "split", s, c, <<<<>>>>, n) /\ Split(s, c) = f[n]
  BY <1>0, SplitRuns
<1>2. f[0] = <<<<>>>> /\ \A k \in 1 .. n : f[k] = SplitTurn(s, c, f[k - 1], k)
  BY <1>1 DEF Runs, Turn
<1>3. \A k \in 1 .. n : s[k] # c
  BY <1>0 DEF Contains
<1> DEFINE G == {k \in 0 .. n : f[k] = <<SubSeq(s, 1, k)>>}
<1>4. 0 \in G
  <2>1. SubSeq(s, 1, 0) = <<>>
    OBVIOUS
  <2>2. 0 \in 0 .. n /\ f[0] = <<SubSeq(s, 1, 0)>>
    BY <1>0, <1>2, <2>1
  <2> QED BY <2>2
<1>5. ASSUME NEW k \in 0 .. n - 1, k \in G PROVE k + 1 \in G
  <2>1. k + 1 \in 1 .. n /\ (k + 1) - 1 = k /\ k + 1 \in 0 .. n /\ k \in 0 .. n
    BY <1>0
  <2> DEFINE p == SubSeq(s, 1, k)
  <2>2. p \in Seq(A) /\ Append(p, s[k + 1]) = SubSeq(s, 1, k + 1)
    BY <1>0, <2>1, AppendNext
  <2>3. f[k] = <<p>>
    BY <1>5
  <2> HIDE DEF p
  <2>4. f[k + 1] = [<<p>> EXCEPT ![Len(<<p>>)] = Append(@, s[k + 1])]
    BY <1>2, <1>3, <2>1, <2>3, Zenon DEF SplitTurn
  <2>5. ASSUME NEW x PROVE [<<p>> EXCEPT ![Len(<<p>>)] = x] = <<x>>
    OBVIOUS
  <2>6. [<<p>> EXCEPT ![Len(<<p>>)] = Append(@, s[k + 1])] = <<Append(p, s[k + 1])>>
    <3>1. Len(<<p>>) = 1 /\ <<p>>[1] = p
      OBVIOUS
    <3> QED BY <2>5, <3>1
  <2> QED
    BY <2>1, <2>2, <2>4, <2>6, Zenon
<1> HIDE DEF G
<1>6. n \in G
  BY <1>0, <1>4, <1>5, Induction
<1>7. SubSeq(s, 1, n) = s
  OBVIOUS
<1> QED
  BY <1>1, <1>6, <1>7 DEF G

\* w is s, the character c and t.
Divided(w, s, c, t) ==
  /\ Len(w) = Len(s) + 1 + Len(t)
  /\ \A i \in 1 .. Len(s) : w[i] = s[i]
  /\ w[Len(s) + 1] = c
  /\ \A j \in 1 .. Len(t) : w[Len(s) + 1 + j] = t[j]

\* What the split has so far, on a text of symbols of A.
LEMMA SplitType ==
  ASSUME NEW A, NEW s \in Seq(A), NEW c, NEW f, Runs(f, "split", s, c, <<<<>>>>, Len(s)), NEW m \in 0 .. Len(s)
  PROVE  f[m] \in Seq(Seq(A)) /\ Len(f[m]) > 0
<1> DEFINE n == Len(s)
<1>0. n \in Nat /\ m \in Nat /\ \A i \in 1 .. n : s[i] \in A
  OBVIOUS
<1>2. f[0] = <<<<>>>> /\ \A k \in 1 .. n : f[k] = SplitTurn(s, c, f[k - 1], k)
  BY DEF Runs, Turn
<1> DEFINE G == {k \in 0 .. m : f[k] \in Seq(Seq(A)) /\ Len(f[k]) > 0}
<1>4. 0 \in G
  <2>1. <<<<>>>> \in Seq(Seq(A)) /\ Len(<<<<>>>>) > 0 /\ 0 \in 0 .. m
    BY <1>0
  <2> QED BY <1>2, <2>1, Zenon
<1>5. ASSUME NEW k \in 0 .. m - 1, k \in G PROVE k + 1 \in G
  <2>1. k + 1 \in 1 .. n /\ (k + 1) - 1 = k /\ k + 1 \in 0 .. m
    BY <1>0
  <2> DEFINE p == f[k]
  <2>2. p \in Seq(Seq(A)) /\ Len(p) \in Nat \ {0}
    BY <1>5
  <2>3. f[k + 1] = SplitTurn(s, c, p, k + 1) /\ s[k + 1] \in A
    BY <1>0, <1>2, <2>1
  <2> HIDE DEF p
  <2>4. Append(p, <<>>) \in Seq(Seq(A)) /\ Len(Append(p, <<>>)) > 0
    BY <2>2
  <2>5. ASSUME NEW x \in A
        PROVE  [p EXCEPT ![Len(p)] = Append(@, x)] \in Seq(Seq(A)) /\ Len([p EXCEPT ![Len(p)] = Append(@, x)]) > 0
    <3> DEFINE l == Len(p)
               y == Append(p[l], x)
    <3>1. p[l] \in Seq(A) /\ l \in 1 .. Len(p)
      BY <2>2
    <3>2. y \in Seq(A)
      BY <3>1
    <3> HIDE DEF l, y
    <3>3. [p EXCEPT ![l] = y] \in Seq(Seq(A)) /\ Len([p EXCEPT ![l] = y]) = Len(p)
      BY <2>2, <3>1, <3>2
    <3> QED BY <2>2, <3>3 DEF l, y
  <2>6. SplitTurn(s, c, p, k + 1) \in Seq(Seq(A)) /\ Len(SplitTurn(s, c, p, k + 1)) > 0
    <3>1. CASE s[k + 1] = c
      BY <2>4, <3>1 DEF SplitTurn
    <3>2. CASE s[k + 1] # c
      <4>1. SplitTurn(s, c, p, k + 1) = [p EXCEPT ![Len(p)] = Append(@, s[k + 1])]
        BY <3>2 DEF SplitTurn
      <4> QED BY <2>3, <2>5, <4>1, Zenon
    <3> QED BY <3>1, <3>2
  <2> QED
    BY <2>1, <2>3, <2>6
<1> HIDE DEF G
<1>6. m \in G
  BY <1>0, <1>4, <1>5, Induction, SMTT(30)
<1> QED BY <1>6 DEF G

\* The last part of a split is what follows the last such character.
LEMMA SplitMore ==
  ASSUME NEW A, NEW s \in Seq(A), NEW t \in Seq(A), NEW c, ~Contains(t, c), NEW w \in Seq(A), Divided(w, s, c, t)
  PROVE  /\ Split(w, c) = Append(Split(s, c), t)
         /\ Split(s, c) \in Seq(Seq(A)) /\ Len(Split(s, c)) > 0
<1> DEFINE m == Len(s)
           n == Len(w)
           l == Len(t)
<1>0. /\ m \in Nat /\ l \in Nat /\ n = m + 1 + l
      /\ \A i \in 1 .. m : w[i] = s[i]
      /\ w[m + 1] = c
      /\ \A j \in 1 .. l : w[m + 1 + j] = t[j]
  BY SMTT(30) DEF Divided
<1>1. PICK f : Runs(f, "split", w, c, <<<<>>>>, n) /\ Split(w, c) = f[n]
  <2>1. Len(w) \in Nat
    OBVIOUS
  <2> QED BY <2>1, SplitRuns
<1>2. f[0] = <<<<>>>> /\ \A k \in 1 .. n : f[k] = SplitTurn(w, c, f[k - 1], k)
  <2> HIDE DEF m, n, l
  <2> QED BY <1>1, SMTT(30) DEF Runs, Turn
<1>3. PICK g : Runs(g, "split", s, c, <<<<>>>>, m) /\ Split(s, c) = g[m]
  BY <1>0, SplitRuns, SMTT(30)
<1>4. g[0] = <<<<>>>> /\ \A k \in 1 .. m : g[k] = SplitTurn(s, c, g[k - 1], k)
  BY <1>3, SMTT(30) DEF Runs, Turn
<1>5. g[m] \in Seq(Seq(A)) /\ Len(g[m]) > 0
  BY <1>0, <1>3, SplitType, SMTT(30)
<1>6. f[m] = g[m]
  <2> DEFINE G == {k \in 0 .. m : f[k] = g[k]}
  <2>1. 0 \in G
    <3>1. 0 \in 0 .. m /\ f[0] = g[0]
      BY <1>0, <1>2, <1>4, SMTT(30)
    <3> QED BY <3>1
  <2>2. ASSUME NEW k \in 0 .. m - 1, k \in G PROVE k + 1 \in G
    <3>1. k + 1 \in 1 .. n /\ k + 1 \in 1 .. m /\ (k + 1) - 1 = k /\ k + 1 \in 0 .. m /\ f[k] = g[k]
      <4> HIDE DEF m, n, l
      <4> QED BY <1>0, <2>2, SMTT(30)
    <3>2. f[k + 1] = SplitTurn(w, c, g[k], k + 1) /\ g[k + 1] = SplitTurn(s, c, g[k], k + 1) /\ w[k + 1] = s[k + 1]
      BY <1>0, <1>2, <1>4, <3>1, SMTT(30)
    <3>3. f[k + 1] = g[k + 1]
      BY <3>2 DEF SplitTurn
    <3> QED BY <3>1, <3>3, SMTT(30)
  <2> HIDE DEF G
  <2>3. m \in G
    BY <1>0, <2>1, <2>2, Induction, SMTT(30)
  <2> QED BY <2>3 DEF G
<1> DEFINE q == g[m]
<1>7. f[m + 1] = Append(q, <<>>)
  <2>1. m + 1 \in 1 .. n /\ (m + 1) - 1 = m
    <3> HIDE DEF m, n, l
    <3> QED BY <1>0, SMTT(30)
  <2>2. f[m + 1] = SplitTurn(w, c, q, m + 1) /\ w[m + 1] = c
    BY <1>0, <1>2, <1>6, <2>1
  <2> HIDE DEF q
  <2> QED BY <2>2 DEF SplitTurn
<1>8. \A j \in 1 .. l : t[j] # c
  BY SMTT(30) DEF Contains
<1>9. f[n] = Append(q, SubSeq(t, 1, l))
  <2> DEFINE G == {j \in 0 .. l : f[m + 1 + j] = Append(q, SubSeq(t, 1, j))}
  <2>1. 0 \in G
    <3>1. SubSeq(t, 1, 0) = <<>>
      OBVIOUS
    <3>2. m + 1 + 0 = m + 1 /\ 0 \in 0 .. l
      BY <1>0
    <3> HIDE DEF q
    <3> QED BY <1>7, <3>1, <3>2, Zenon
  <2>2. ASSUME NEW j \in 0 .. l - 1, j \in G PROVE j + 1 \in G
    <3>1. /\ m + 1 + (j + 1) \in 1 .. n /\ (m + 1 + (j + 1)) - 1 = m + 1 + j
          /\ j + 1 \in 0 .. l /\ j + 1 \in 1 .. l /\ j \in 0 .. l
      <4> HIDE DEF m, n, l
      <4> QED BY <1>0, <2>2
    <3> DEFINE p == SubSeq(t, 1, j)
               i == m + 1 + (j + 1)
    <3>2. p \in Seq(A) /\ Append(p, t[j + 1]) = SubSeq(t, 1, j + 1)
      BY <1>0, <3>1, AppendNext, SMTT(30)
    <3>3. f[m + 1 + j] = Append(q, p)
      BY <2>2, SMTT(30)
    <3>4. w[i] = t[j + 1] /\ t[j + 1] # c
      BY <1>0, <1>8, <3>1, SMTT(30)
    <3>5. f[i] = SplitTurn(w, c, Append(q, p), i)
      BY <1>2, <3>1, <3>3, Zenon
    <3> HIDE DEF p, i, q
    <3>6. f[i] = [Append(q, p) EXCEPT ![Len(Append(q, p))] = Append(@, t[j + 1])]
      BY <3>4, <3>5 DEF SplitTurn
    <3>7. ASSUME NEW x \in Seq(A) PROVE [Append(q, p) EXCEPT ![Len(Append(q, p))] = x] = Append(q, x)
      <4> DEFINE u == [Append(q, p) EXCEPT ![Len(Append(q, p))] = x]
                 v == Append(q, x)
                 r == Len(q)
      <4>0. q \in Seq(Seq(A)) /\ r \in Nat
        BY <1>5 DEF q
      <4>1. /\ Append(q, p) \in Seq(Seq(A)) /\ Len(Append(q, p)) = r + 1 /\ v \in Seq(Seq(A)) /\ Len(v) = r + 1
            /\ \A k \in 1 .. r : Append(q, p)[k] = q[k] /\ v[k] = q[k]
            /\ v[r + 1] = x
        BY <3>2, <4>0
      <4>2. u \in Seq(Seq(A)) /\ Len(u) = r + 1 /\ u[r + 1] = x /\ \A k \in 1 .. r : u[k] = Append(q, p)[k]
        <5> DEFINE y == Append(q, p)
        <5>1. y \in Seq(Seq(A)) /\ Len(y) = r + 1
          BY <4>1
        <5> HIDE DEF y, r
        <5>2. [y EXCEPT ![r + 1] = x] \in Seq(Seq(A)) /\ Len([y EXCEPT ![r + 1] = x]) = r + 1
          BY <4>0, <5>1
        <5>3. [y EXCEPT ![r + 1] = x][r + 1] = x /\ \A k \in 1 .. r : [y EXCEPT ![r + 1] = x][k] = y[k]
          BY <4>0, <5>1
        <5>4. u = [y EXCEPT ![r + 1] = x]
          BY <5>1 DEF y
        <5> QED BY <5>2, <5>3, <5>4, Zenon DEF y
      <4> HIDE DEF u, v
      <4>3. \A k \in 1 .. Len(u) : u[k] = v[k]
        <5> HIDE DEF r
        <5> QED BY <4>0, <4>1, <4>2, SMTT(30)
      <4>4. u = v
        BY <4>1, <4>2, <4>3, SameSequence, SMTT(30)
      <4> QED BY <4>4 DEF u, v
    <3>8. [Append(q, p) EXCEPT ![Len(Append(q, p))] = Append(@, t[j + 1])] = Append(q, Append(p, t[j + 1]))
      <4>0. q \in Seq(Seq(A)) /\ t[j + 1] \in A
        BY <1>5, <3>1 DEF q
      <4>1. Append(q, p)[Len(Append(q, p))] = p
        BY <3>2, <4>0
      <4>2. Append(p, t[j + 1]) \in Seq(A)
        BY <3>2, <4>0
      <4> QED BY <3>7, <4>1, <4>2, Zenon
    <3> QED
      BY <3>1, <3>2, <3>6, <3>8, Zenon DEF i
  <2> HIDE DEF G
  <2>3. l \in G
    BY <1>0, <2>1, <2>2, Induction
  <2> QED BY <1>0, <2>3 DEF G
<1>10. SubSeq(t, 1, l) = t
  OBVIOUS
<1> QED
  BY <1>1, <1>3, <1>5, <1>9, <1>10, SMTT(30)

\* A token with no qualifier is its name segment.
LEMMA ParseBase ==
  ASSUME NEW A, NEW s \in Seq(A), ~Contains(s, "@"), NEW lenient
  PROVE  ParseEntry(s, lenient) = [entry |-> ParseName(s), warnings |-> 0]
<1>1. Split(s, "@") = <<s>>
  BY SplitNone
<1>2. Len(<<s>>) = 1 /\ <<s>>[1] = s
  OBVIOUS
<1> DEFINE init == [entry |-> ParseName(s), warnings |-> 0]
<1>3. \E f : Runs(f, "read", <<s>>, lenient, init, 1) /\ ParseEntry(s, lenient) = f[1]
  <2>1. Len(Split(s, "@")) \in Nat
    BY <1>1, <1>2
  <2>2. LET parts == Split(s, "@")
        IN  \E f : /\ Runs(f, "read", parts, lenient, [entry |-> ParseName(parts[1]), warnings |-> 0], Len(parts))
                   /\ ParseEntry(s, lenient) = f[Len(parts)]
    BY <2>1, ParseEntryRuns
  <2> QED BY <1>1, <1>2, <2>2, Zenon
<1>4. PICK f : Runs(f, "read", <<s>>, lenient, init, 1) /\ ParseEntry(s, lenient) = f[1]
  BY <1>3
<1> HIDE DEF init
<1>5. f[0] = init /\ f[1] = ReadTurn(<<s>>, lenient, f[0], 1)
  <2>1. 1 \in 1 .. 1 /\ 1 - 1 = 0
    OBVIOUS
  <2> QED BY <1>4, <2>1 DEF Runs, Turn
<1>6. f[1] = init
  BY <1>5 DEF ReadTurn
<1> QED
  BY <1>4, <1>6 DEF init

\* One more qualifier on a token.
LEMMA ParseMore ==
  ASSUME NEW A, NEW s \in Seq(A), NEW t \in Seq(A), ~Contains(t, "@"), NEW w \in Seq(A), Divided(w, s, "@", t),
         NEW lenient
  PROVE  ParseEntry(w, lenient) = ApplyQualifierPart(ParseEntry(s, lenient), t, lenient)
<1> DEFINE p == Split(s, "@")
           q == Split(w, "@")
           n == Len(p)
<1>1. q = Append(p, t) /\ p \in Seq(Seq(A)) /\ n > 0
  BY SplitMore
<1> HIDE DEF p, q
<1>2. n \in Nat \ {0} /\ Len(q) = n + 1 /\ \A k \in 1 .. n : q[k] = p[k]
  BY <1>1
<1>3. q[n + 1] = t
  BY <1>1
<1> DEFINE init == [entry |-> ParseName(p[1]), warnings |-> 0]
<1>4. \E f : Runs(f, "read", p, lenient, init, n) /\ ParseEntry(s, lenient) = f[n]
  <2>1. LET parts == Split(s, "@")
        IN  \E f : /\ Runs(f, "read", parts, lenient, [entry |-> ParseName(parts[1]), warnings |-> 0], Len(parts))
                   /\ ParseEntry(s, lenient) = f[Len(parts)]
    BY <1>2, ParseEntryRuns DEF p
  <2> QED BY <2>1, Zenon DEF p
<1>5. \E f : Runs(f, "read", q, lenient, init, n + 1) /\ ParseEntry(w, lenient) = f[n + 1]
  <2>1. Len(q) \in Nat /\ q[1] = p[1]
    BY <1>2, SMTT(30)
  <2>2. LET parts == Split(w, "@")
        IN  \E f : /\ Runs(f, "read", parts, lenient, [entry |-> ParseName(parts[1]), warnings |-> 0], Len(parts))
                   /\ ParseEntry(w, lenient) = f[Len(parts)]
    BY <2>1, ParseEntryRuns DEF q
  <2>3. \E f : /\ Runs(f, "read", q, lenient, [entry |-> ParseName(q[1]), warnings |-> 0], Len(q))
               /\ ParseEntry(w, lenient) = f[Len(q)]
    BY <2>2, Zenon DEF q
  <2> QED BY <1>2, <2>1, <2>3, Zenon
<1> HIDE DEF init, n
<1>6. PICK f : Runs(f, "read", p, lenient, init, n) /\ ParseEntry(s, lenient) = f[n]
  BY <1>4
<1>7. PICK g : Runs(g, "read", q, lenient, init, n + 1) /\ ParseEntry(w, lenient) = g[n + 1]
  BY <1>5
<1>8. f[0] = init /\ \A k \in 1 .. n : f[k] = ReadTurn(p, lenient, f[k - 1], k)
  BY <1>6 DEF Runs, Turn
<1>9. g[0] = init /\ \A k \in 1 .. n + 1 : g[k] = ReadTurn(q, lenient, g[k - 1], k)
  BY <1>7, SMTT(30) DEF Runs, Turn
<1>10. f[n] = g[n]
  <2> DEFINE G == {k \in 0 .. n : f[k] = g[k]}
  <2>1. 0 \in G
    <3>1. 0 \in 0 .. n /\ f[0] = g[0]
      BY <1>2, <1>8, <1>9
    <3> QED BY <3>1
  <2>2. ASSUME NEW k \in 0 .. n - 1, k \in G PROVE k + 1 \in G
    <3>1. k + 1 \in 1 .. n /\ k + 1 \in 1 .. n + 1 /\ (k + 1) - 1 = k /\ k + 1 \in 0 .. n /\ f[k] = g[k]
      BY <1>2, <2>2, SMTT(30)
    <3>2. /\ f[k + 1] = ReadTurn(p, lenient, f[k], k + 1) /\ g[k + 1] = ReadTurn(q, lenient, f[k], k + 1)
          /\ q[k + 1] = p[k + 1]
      BY <1>2, <1>8, <1>9, <3>1, SMTT(30)
    <3>3. f[k + 1] = g[k + 1]
      BY <3>2, SMTT(30) DEF ReadTurn
    <3> QED BY <3>1, <3>3
  <2> HIDE DEF G
  <2>3. n \in G
    BY <1>2, <2>1, <2>2, Induction
  <2> QED BY <2>3 DEF G
<1>11. g[n + 1] = ReadTurn(q, lenient, g[n], n + 1) /\ n + 1 # 1
  <2>1. n + 1 \in 1 .. n + 1 /\ (n + 1) - 1 = n /\ n + 1 # 1
    BY <1>2
  <2> QED BY <1>9, <2>1, SMTT(30)
<1> QED
  BY <1>3, <1>6, <1>7, <1>10, <1>11 DEF ReadTurn

\* split_once() of a text without the character.
LEMMA SplitOnceNone ==
  ASSUME NEW A, NEW s \in Seq(A), NEW c, ~Contains(s, c)
  PROVE  SplitOnce(s, c) = <<s>>
<1>1. DOMAIN s = 1 .. Len(s)
  OBVIOUS
<1>2. {k \in 1 .. Len(s) : s[k] = c} = {}
  BY <1>1 DEF Contains
<1>3. FirstAt(LAMBDA i : s[i] = c, 1, Len(s)) = None
  BY <1>2 DEF FirstAt, With
<1> QED
  BY <1>3 DEF SplitOnce, With

\* split_once() at the first occurrence.
LEMMA SplitOnceAt ==
  ASSUME NEW A, NEW s \in Seq(A), NEW t \in Seq(A), NEW c, ~Contains(s, c), NEW w \in Seq(A), Divided(w, s, c, t)
  PROVE  SplitOnce(w, c) = <<s, t>>
<1> DEFINE m == Len(s)
           n == Len(w)
           l == Len(t)
           found == {k \in 1 .. n : w[k] = c}
<1>0. /\ m \in Nat /\ l \in Nat /\ n = m + 1 + l
      /\ \A i \in 1 .. m : w[i] = s[i]
      /\ w[m + 1] = c
      /\ \A j \in 1 .. l : w[m + 1 + j] = t[j]
  BY DEF Divided
<1>1. \A i \in 1 .. m : w[i] # c
  <2>1. DOMAIN s = 1 .. m
    OBVIOUS
  <2> QED BY <1>0, <2>1, Zenon DEF Contains
<1>2. m + 1 \in found /\ \A k \in found : m + 1 <= k
  <2> HIDE DEF m, n, l
  <2> QED BY <1>0, <1>1
<1>3. \A k \in found : k \in Nat
  <2> HIDE DEF m, n, l
  <2> QED BY <1>0
<1> HIDE DEF found
<1>4. (CHOOSE k \in found : \A j \in found : k <= j) = m + 1
  <2>1. \A k \in found : (\A j \in found : k <= j) => k = m + 1
    <3> HIDE DEF m, n, l
    <3> QED BY <1>0, <1>2, <1>3
  <2> DEFINE x == CHOOSE k \in found : \A j \in found : k <= j
  <2>2. x \in found /\ \A j \in found : x <= j
    BY <1>2, Zenon
  <2> QED BY <2>1, <2>2, Zenon
<1>5. FirstAt(LAMBDA i : w[i] = c, 1, n) = m + 1
  BY <1>2, <1>4, Zenon DEF FirstAt, With, found
<1>6. m + 1 # None /\ (m + 1) - 1 = m
  BY <1>0 DEF None
<1>7. SubSeq(w, 1, m) = s
  <2> DEFINE u == SubSeq(w, 1, m)
  <2>1. m <= n
    <3> HIDE DEF m, n, l
    <3> QED BY <1>0
  <2>2. u \in Seq(A) /\ Len(u) = m /\ \A i \in 1 .. m : u[i] = w[i]
    BY <1>0, <2>1
  <2> HIDE DEF u
  <2>3. \A i \in 1 .. Len(u) : u[i] = s[i]
    BY <1>0, <2>2
  <2>4. u = s
    BY <2>2, <2>3, SameSequence
  <2> QED BY <2>4, SMTT(30) DEF u
<1>8. SubSeq(w, (m + 1) + 1, n) = t
  <2> DEFINE u == SubSeq(w, (m + 1) + 1, n)
             a == (m + 1) + 1
  <2>1. /\ a \in Nat /\ n \in Nat /\ a >= 1 /\ (n - a) + 1 = l
        /\ \A j \in 1 .. l : (a + j) - 1 = m + 1 + j /\ m + 1 + j \in 1 .. n
    <3> HIDE DEF m, n, l
    <3> QED BY <1>0
  <2>2. u \in Seq(A) /\ Len(u) = l /\ \A j \in 1 .. l : u[j] = w[m + 1 + j]
    <3>1. u = SubSeq(w, a, n)
      OBVIOUS
    <3> HIDE DEF a, u
    <3>2. u \in Seq(A) /\ Len(u) = l
      BY <1>0, <2>1, <3>1
    <3>3. \A j \in 1 .. l : u[j] = w[(a + j) - 1]
      BY <1>0, <2>1, <3>1
    <3> QED BY <2>1, <3>2, <3>3, SMTT(30)
  <2> HIDE DEF u
  <2>3. \A i \in 1 .. Len(u) : u[i] = t[i]
    BY <1>0, <2>2, SMTT(30)
  <2>4. u = t
    BY <2>2, <2>3, SameSequence
  <2> QED BY <2>4 DEF u
<1> QED
  BY <1>5, <1>6, <1>7, <1>8, Zenon DEF SplitOnce, With

=============================================================================
