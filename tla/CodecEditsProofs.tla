-------------------------- MODULE CodecEditsProofs --------------------------
(***************************************************************************)
(* Proofs about CodecEdits, for every list, every table, every set of      *)
(* numbers and any number of edits.                                        *)
(*                                                                         *)
(* VettedStays is inductive beside the types: what only takes away either  *)
(* drops an entry whose name an earlier one has (dedup()), or replaces one *)
(* by an entry that matches wherever the first did (Weaker).               *)
(*                                                                         *)
(* ListArrives follows from the types: the edits keep entries well formed, *)
(* what is written of a well-formed entry spells its plain text, the split *)
(* and the cleanup give that text back (CodecTextProofs), and reading it   *)
(* part by part gives the entry.                                           *)
(***************************************************************************)
EXTENDS CodecEdits, CodecTextProofs

ListsType == list \in Seq(Entry) /\ policy \in Seq(Entry)

VInv == ListsType /\ VettedStays

-----------------------------------------------------------------------------
(***************************************************************************)
(* Options and entries.                                                    *)
(***************************************************************************)
\* None and Some.
LEMMA OptionOf ==
  ASSUME NEW S
  PROVE  Nothing \in Option(S) /\ \A v \in S : Some(v) \in Option(S)
BY DEF Option, Nothing, Some

\* Some or None.
LEMMA OptionCases ==
  ASSUME NEW S, NEW v \in Option(S)
  PROVE  v = Nothing \/ (v # Nothing /\ v[1] \in S /\ v = Some(v[1]))
<1>1. v \in Seq(S) /\ Len(v) <= 1 /\ Len(v) \in Nat
  BY DEF Option
<1>2. CASE Len(v) = 0
  BY <1>1, <1>2 DEF Nothing
<1>3. CASE Len(v) = 1
  <2>1. v[1] \in S /\ v # <<>>
    BY <1>1, <1>3
  <2>2. v = <<v[1]>>
    BY <1>1, <1>3
  <2> QED BY <2>1, <2>2, Zenon DEF Nothing, Some
<1> QED BY <1>1, <1>2, <1>3

\* What normalize_fmtp_trailing_space() drops is spaces, and it drops them all.
LEMMA LastKept ==
  ASSUME NEW fmtp \in Text
  PROVE  \E last \in 0 .. Len(fmtp) :
           /\ NormalizeFmtpTrailingSpace(fmtp) = SubSeq(fmtp, 1, last)
           /\ last # 0 => fmtp[last] # Space
           /\ \A i \in 1 .. Len(fmtp) : i > last => fmtp[i] = Space
<1> DEFINE kept == {i \in DOMAIN fmtp : fmtp[i] # Space}
           last == IF kept = {} THEN 0 ELSE CHOOSE i \in kept : \A j \in kept : j <= i
<1>0. DOMAIN fmtp = 1 .. Len(fmtp) /\ Len(fmtp) \in Nat
  BY DEF Text
<1>1. NormalizeFmtpTrailingSpace(fmtp) = SubSeq(fmtp, 1, last)
  BY DEF NormalizeFmtpTrailingSpace, With
<1>2. CASE kept = {}
  <2>1. last = 0 /\ last \in 0 .. Len(fmtp)
    BY <1>0, <1>2
  <2>2. \A i \in 1 .. Len(fmtp) : fmtp[i] = Space
    BY <1>0, <1>2
  <2> HIDE DEF last
  <2> QED
    BY <1>1, <2>1, <2>2
<1>3. CASE kept # {}
  <2> DEFINE mirrored == {Len(fmtp) - i : i \in kept}
  <2>1. mirrored \in SUBSET Nat /\ mirrored # {}
    BY <1>0, <1>3
  <2>2. PICK m \in mirrored : \A n \in mirrored : m <= n
    <3> HIDE DEF mirrored
    <3> QED BY <2>1, LeastOf
  <2>3. PICK i \in kept : m = Len(fmtp) - i
    OBVIOUS
  <2>4. ASSUME NEW j \in kept PROVE j <= i
    <3>1. Len(fmtp) - j \in mirrored
      OBVIOUS
    <3>2. m <= Len(fmtp) - j /\ i \in 1 .. Len(fmtp) /\ j \in 1 .. Len(fmtp)
      BY <1>0, <2>2, <3>1
    <3> QED
      BY <1>0, <2>3, <3>2
  <2>5. last \in kept /\ \A j \in kept : j <= last
    <3> HIDE DEF kept
    <3> QED BY <1>3, <2>4, Zenon
  <2>6. last \in 1 .. Len(fmtp) /\ fmtp[last] # Space
    <3> HIDE DEF last
    <3> QED BY <1>0, <2>5
  <2>7. ASSUME NEW j \in 1 .. Len(fmtp), j > last PROVE fmtp[j] = Space
    <3> HIDE DEF last
    <3>1. ~(j <= last)
      BY <1>0, <2>6, <2>7
    <3> QED BY <1>0, <2>5, <3>1
  <2> HIDE DEF last
  <2>8. last \in 0 .. Len(fmtp)
    BY <1>0, <2>6
  <2> QED
    BY <1>1, <2>6, <2>7, <2>8
<1> QED
  BY <1>2, <1>3

\* The text a setter keeps of the format parameters is a text that stays as it is.
LEMMA NormalizedIsText ==
  ASSUME NEW fmtp \in Text
  PROVE  /\ NormalizeFmtpTrailingSpace(fmtp) \in Text
         /\ NormalizeFmtpTrailingSpace(NormalizeFmtpTrailingSpace(fmtp)) = NormalizeFmtpTrailingSpace(fmtp)
<1>1. PICK last \in 0 .. Len(fmtp) : /\ NormalizeFmtpTrailingSpace(fmtp) = SubSeq(fmtp, 1, last)
                                     /\ last # 0 => fmtp[last] # Space
  BY LastKept
<1> DEFINE x == SubSeq(fmtp, 1, last)
<1>2. fmtp \in Seq(STRING) /\ ~Contains(fmtp, NUL)
  BY DEF Text
<1>3. /\ x \in Seq(STRING) /\ Len(x) = last /\ last \in Nat
      /\ \A i \in 1 .. last : x[i] = fmtp[i] /\ i \in 1 .. Len(fmtp)
  BY <1>2
<1> HIDE DEF x
<1>4. x \in Text
  <2>1. DOMAIN x = 1 .. last /\ DOMAIN fmtp = 1 .. Len(fmtp)
    BY <1>2, <1>3
  <2>2. ~Contains(x, NUL)
    BY <1>2, <1>3, <2>1, Zenon DEF Contains
  <2> QED BY <1>3, <2>2 DEF Text
<1>5. PICK l \in 0 .. last : /\ NormalizeFmtpTrailingSpace(x) = SubSeq(x, 1, l)
                             /\ \A i \in 1 .. last : i > l => x[i] = Space
  BY <1>3, <1>4, LastKept, Zenon
<1>6. l = last
  <2> SUFFICES ASSUME l # last PROVE FALSE
    OBVIOUS
  <2>1. last \in 1 .. last /\ last > l /\ last # 0
    BY <1>3
  <2> QED BY <1>1, <1>3, <1>5, <2>1
<1>7. SubSeq(x, 1, last) = x
  BY <1>3
<1> QED
  BY <1>1, <1>4, <1>5, <1>6, <1>7 DEF x

\* What an entry is made of.
LEMMA EntryParts ==
  ASSUME NEW e \in Entry
  PROVE  /\ e.name \in Text /\ e.name # <<>> /\ ValidateName(e.name) /\ CheckNameGrammar(e.name)
         /\ e.modname \in Option(Text) /\ e.fmtp \in Option(Text)
         /\ e.modname # Nothing => e.modname[1] \in Text /\ CheckNameGrammar(e.modname[1])
         /\ e.fmtp # Nothing =>
              /\ e.fmtp[1] \in Text /\ NewlineFree(e.fmtp[1]) /\ ~Contains(e.fmtp[1], "@")
              /\ NormalizeFmtpTrailingSpace(e.fmtp[1]) = e.fmtp[1]
              /\ Contains(e.fmtp[1], ".") => e.modname # Nothing
         /\ e.rate \in Option(Numbers) /\ e.ptime \in Option(Numbers)
         /\ e.bitrate \in Option(Numbers) /\ e.channels \in Option(Numbers)
<1>1. WellFormed(e) /\ e \in [modname : Option(Text), name : Text, fmtp : Option(Text),
                rate : Option(Numbers), ptime : Option(Numbers), bitrate : Option(Numbers),
                channels : Option(Numbers)]
  BY Zenon DEF Entry
<1>2. /\ e.name \in Text /\ e.modname \in Option(Text) /\ e.fmtp \in Option(Text)
      /\ e.rate \in Option(Numbers) /\ e.ptime \in Option(Numbers)
      /\ e.bitrate \in Option(Numbers) /\ e.channels \in Option(Numbers)
  BY <1>1
<1>3. (e.modname # Nothing => e.modname[1] \in Text) /\ (e.fmtp # Nothing => e.fmtp[1] \in Text)
  BY <1>2, OptionCases
<1> QED
  BY <1>1, <1>2, <1>3, Zenon DEF WellFormed, ValidateName

-----------------------------------------------------------------------------
(***************************************************************************)
(* The text of an entry: what fmt() writes spells the entry's plain text,  *)
(* whose first and last symbols are no spaces.                             *)
(***************************************************************************)
\* The symbols of the text of a list.
Alphabet == STRING \cup Marks \cup {Digits(n) : n \in Numbers}

\* What the alphabet holds.
LEMMA AlphabetHas ==
  /\ STRING \subseteq Alphabet /\ BS \in Alphabet /\ Comma \in Alphabet
  /\ "." \in Alphabet /\ "~" \in Alphabet /\ "@" \in Alphabet
  /\ "h" \in Alphabet /\ "i" \in Alphabet /\ "b" \in Alphabet /\ "c" \in Alphabet
  /\ \A n \in Numbers : Digits(n) \in Alphabet
BY Zenon DEF Alphabet, Marks

\* A symbol the split and the cleanup copy, and no space.
Plain(x) == ~TakesABackslash(x, Comma) /\ x # NUL /\ x # Space

\* The marks the grammar is made of are copied.
LEMMA PlainMarks ==
  Plain(".") /\ Plain("~") /\ Plain("@") /\ Plain("h") /\ Plain("i") /\ Plain("b") /\ Plain("c")
BY Zenon DEF Plain, TakesABackslash, BS, Quote, Comma, NUL, Space

\* So are the digits of a number, which are none of those marks.
LEMMA PlainDigits ==
  ASSUME NEW n \in Numbers
  PROVE  Plain(Digits(n)) /\ Digits(n) \notin {"@", "h", "k", "i", "b", "c", Overflow}
BY DigitsAssumption, Zenon DEF Plain, TakesABackslash, Marks

\* e spells the piece t of an entry.
Piece(e, t) ==
  /\ e \in Seq(Alphabet) /\ t \in Seq(Alphabet) /\ Spells(e, t) /\ ~Contains(t, NUL)
  /\ t # <<>> => t[Len(t)] # Space

\* What neither of two texts holds, the two in a row do not.
LEMMA NoneInConcat ==
  ASSUME NEW A, NEW s \in Seq(A), NEW t \in Seq(A), NEW c, ~Contains(s, c), ~Contains(t, c)
  PROVE  ~Contains(s \o t, c)
<1>1. \A u : Contains(u, c) <=> c \in Range(u)
  BY Zenon DEF Contains, Range
<1>2. Range(s \o t) = Range(s) \cup Range(t)
  BY RangeOfConcat
<1> QED BY <1>1, <1>2, Zenon

\* A text of such symbols spells itself.
LEMMA PlainPiece ==
  ASSUME NEW t \in Seq(Alphabet), \A i \in 1 .. Len(t) : Plain(t[i])
  PROVE  Piece(t, t)
<1>1. DOMAIN t = 1 .. Len(t) /\ (t # <<>> => Len(t) \in 1 .. Len(t))
  OBVIOUS
<1>2. \A i \in 1 .. Len(t) : ~TakesABackslash(t[i], Comma) /\ t[i] # NUL /\ t[i] # Space
  BY DEF Plain
<1>3. Spells(t, t)
  BY <1>2, PlainSpells
<1> QED
  BY <1>1, <1>2, <1>3, Zenon DEF Piece, Contains

\* The empty piece.
LEMMA EmptyPiece == Piece(<<>>, <<>>) /\ \A c : ~Contains(<<>>, c)
<1>1. <<>> \in Seq(Alphabet) /\ Len(<<>>) = 0 /\ 1 .. 0 = {}
  OBVIOUS
<1>2. Piece(<<>>, <<>>)
  BY <1>1, PlainPiece, Zenon
<1> QED BY <1>2 DEF Contains

\* Two pieces in a row.
LEMMA PieceConcat ==
  ASSUME NEW e, NEW t, NEW e2, NEW t2, Piece(e, t), Piece(e2, t2)
  PROVE  Piece(e \o e2, t \o t2)
<1> DEFINE A == Alphabet
           w == t \o t2
           m == Len(t)
           l == Len(t2)
<1>0. /\ e \in Seq(A) /\ t \in Seq(A) /\ e2 \in Seq(A) /\ t2 \in Seq(A) /\ Spells(e, t) /\ Spells(e2, t2)
      /\ ~Contains(t, NUL) /\ ~Contains(t2, NUL)
      /\ t # <<>> => t[Len(t)] # Space
      /\ t2 # <<>> => t2[Len(t2)] # Space
  BY DEF Piece
<1> HIDE DEF A
<1>1. e \o e2 \in Seq(A) /\ Spells(e \o e2, t \o t2)
  BY <1>0, SpellsConcat
<1>2. /\ w \in Seq(A) /\ Len(w) = m + l /\ m \in Nat /\ l \in Nat
      /\ \A i \in 1 .. m : w[i] = t[i]
      /\ \A j \in 1 .. l : w[m + j] = t2[j]
  BY <1>0, ConcatParts
<1>6. ~Contains(w, NUL)
  BY <1>0, NoneInConcat
<1>3. DOMAIN t = 1 .. m /\ DOMAIN t2 = 1 .. l /\ DOMAIN w = 1 .. m + l /\ (t = <<>> => m = 0) /\ (t2 = <<>> => l = 0)
  <2> HIDE DEF w
  <2> QED BY <1>0, <1>2
<1>4. (w # <<>> => m + l # 0) /\ (m # 0 => t # <<>>) /\ (l # 0 => t2 # <<>>)
  <2>1. Len(<<>>) = 0
    OBVIOUS
  <2>2. w # <<>> => m + l # 0
    <3> HIDE DEF w
    <3> QED BY <1>2
  <2> QED BY <1>3, <2>1, <2>2
<1> HIDE DEF w, m, l
<1>7. ASSUME w # <<>> PROVE w[Len(w)] # Space
  <2>1. CASE l # 0
    <3>1. l \in 1 .. l
      BY <1>2, <2>1
    <3>2. w[m + l] = t2[l] /\ t2 # <<>>
      BY <1>2, <1>4, <2>1, <3>1
    <3> QED BY <1>0, <1>2, <3>2 DEF l
  <2>2. CASE l = 0
    <3>1. m \in 1 .. m /\ m # 0 /\ Len(w) = m
      BY <1>2, <1>4, <1>7, <2>2
    <3>2. w[m] = t[m] /\ t # <<>>
      BY <1>2, <1>4, <3>1
    <3> QED BY <1>0, <3>1, <3>2 DEF m
  <2> QED BY <2>1, <2>2
<1> QED
  BY <1>0, <1>1, <1>2, <1>6, <1>7 DEF Piece, w, A

\* The parts of the text of an entry, before the escapes.
PrefixText(entry) == IF entry.modname = Nothing THEN <<>> ELSE Append(entry.modname[1], ".")

\* The format parameters with their tilde, as meant and as written.
FmtpText(entry) == IF entry.fmtp = Nothing THEN <<>> ELSE <<"~">> \o entry.fmtp[1]

FmtpEscaped(entry) ==
  IF entry.fmtp = Nothing THEN <<>> ELSE <<"~">> \o EscapeInsideToken(entry.fmtp[1], Comma)

\* The entry before its qualifiers, and the whole.
BaseText(entry) == PrefixText(entry) \o entry.name \o FmtpText(entry)

PlainText(entry) ==
  BaseText(entry) \o QualifierText(entry.rate, "h") \o QualifierText(entry.ptime, "i")
    \o QualifierText(entry.bitrate, "b") \o QualifierText(entry.channels, "c")

\* The symbols of a name or a module.
LEMMA NamePlain ==
  ASSUME NEW t \in Text, CheckNameGrammar(t)
  PROVE  /\ t \in Seq(Alphabet) /\ \A i \in 1 .. Len(t) : Plain(t[i])
         /\ ~Contains(t, "@") /\ ~Contains(t, ".") /\ ~Contains(t, "~")
<1>1. t \in Seq(STRING) /\ ~Contains(t, NUL)
  BY DEF Text
<1>2. DOMAIN t = 1 .. Len(t)
  BY <1>1
<1>3. t \in Seq(Alphabet)
  BY <1>1, AlphabetHas, SeqIncludes, Zenon
<1>4. ASSUME NEW i \in DOMAIN t
      PROVE  t[i] \notin {Comma, "@", "~", ".", Quote, BS, Space} /\ t[i] # NUL
  BY <1>1, Zenon DEF CheckNameGrammar, Contains
<1>5. \A i \in DOMAIN t : Plain(t[i])
  BY <1>4, Zenon DEF Plain, TakesABackslash
<1>6. ~Contains(t, "@") /\ ~Contains(t, ".") /\ ~Contains(t, "~")
  BY <1>4, Zenon DEF Contains
<1> QED
  BY <1>2, <1>3, <1>5, <1>6, Zenon

\* The module and its dot.
LEMMA PrefixPiece ==
  ASSUME NEW e \in Entry
  PROVE  /\ Piece(PrefixText(e), PrefixText(e)) /\ ~Contains(PrefixText(e), "@")
         /\ PrefixText(e) # <<>> => PrefixText(e)[1] # Space
<1>1. CASE e.modname = Nothing
  <2>1. PrefixText(e) = <<>>
    BY <1>1, Zenon DEF PrefixText
  <2> QED BY <2>1, EmptyPiece
<1>2. CASE e.modname # Nothing
  <2> DEFINE t == e.modname[1]
             p == Append(t, ".")
  <2>1. PrefixText(e) = p
    BY <1>2, Zenon DEF PrefixText
  <2>2. t \in Text /\ CheckNameGrammar(t)
    BY <1>2, EntryParts
  <2> HIDE DEF t
  <2>3. t \in Seq(Alphabet) /\ (\A i \in 1 .. Len(t) : Plain(t[i])) /\ ~Contains(t, "@") /\ DOMAIN t = 1 .. Len(t)
    BY <2>2, NamePlain
  <2> DEFINE dot == "."
  <2>4. dot \in Alphabet /\ Plain(dot) /\ dot # "@"
    BY AlphabetHas, PlainMarks, Zenon
  <2>5. p = Append(t, dot)
    BY Zenon
  <2> HIDE DEF p, dot
  <2>6. /\ p \in Seq(Alphabet) /\ Len(p) = Len(t) + 1 /\ DOMAIN p = 1 .. Len(t) + 1
        /\ p[Len(t) + 1] = dot /\ Len(t) \in Nat
        /\ \A i \in 1 .. Len(t) : p[i] = t[i]
    BY <2>3, <2>4, <2>5, SMTT(30)
  <2>7. ASSUME NEW i \in 1 .. Len(p) PROVE Plain(p[i]) /\ p[i] # "@"
    <3>1. CASE i \in 1 .. Len(t)
      BY <2>3, <2>6, <3>1, Zenon DEF Contains
    <3>2. CASE i = Len(t) + 1
      BY <2>4, <2>6, <3>2, Zenon
    <3> QED BY <2>6, <3>1, <3>2
  <2>8. Piece(p, p)
    BY <2>6, <2>7, PlainPiece
  <2>9. ~Contains(p, "@")
    BY <2>6, <2>7, Zenon DEF Contains
  <2>10. p[1] # Space
    <3>1. 1 \in 1 .. Len(p)
      BY <2>6
    <3> QED BY <2>7, <3>1, Zenon DEF Plain
  <2> QED BY <2>1, <2>8, <2>9, <2>10, Zenon
<1> QED BY <1>1, <1>2

\* The format parameters, as escape_inside_token() writes them.
LEMMA FmtpPiece ==
  ASSUME NEW e \in Entry
  PROVE  Piece(FmtpEscaped(e), FmtpText(e)) /\ ~Contains(FmtpText(e), "@")
<1>1. CASE e.fmtp = Nothing
  <2>1. FmtpText(e) = <<>> /\ FmtpEscaped(e) = <<>>
    BY <1>1, Zenon DEF FmtpText, FmtpEscaped
  <2> QED BY <2>1, EmptyPiece
<1>2. CASE e.fmtp # Nothing
  <2> DEFINE t == e.fmtp[1]
             x == EscapeInsideToken(t, Comma)
             tilde == "~"
             p == <<tilde>> \o t
  <2>1. FmtpText(e) = p /\ FmtpEscaped(e) = <<tilde>> \o x
    BY <1>2, Zenon DEF FmtpText, FmtpEscaped
  <2>2. t \in Text /\ ~Contains(t, "@") /\ NormalizeFmtpTrailingSpace(t) = t
    BY <1>2, EntryParts, Zenon
  <2>3. tilde \in Alphabet /\ Plain(tilde) /\ tilde # "@"
    BY AlphabetHas, PlainMarks, Zenon
  <2> HIDE DEF t, tilde
  <2>4. t \in Seq(STRING) /\ ~Contains(t, NUL)
    BY <2>2 DEF Text
  <2>5. t \in Seq(Alphabet)
    BY <2>4, AlphabetHas, SeqIncludes, Zenon
  <2>6. PICK last \in 0 .. Len(t) : t = SubSeq(t, 1, last) /\ (last # 0 => t[last] # Space)
    BY <2>2, LastKept
  <2>7. last = Len(t) /\ (t # <<>> => Len(t) # 0)
    <3>1. Len(SubSeq(t, 1, last)) = last /\ Len(t) \in Nat
      BY <2>5
    <3> QED BY <2>5, <2>6, <3>1
  <2>8. Piece(x, t)
    <3>1. x \in Seq(Alphabet) /\ Spells(x, t)
      BY <2>5, AlphabetHas, EscapeSpells
    <3> QED BY <2>4, <2>5, <2>6, <2>7, <3>1, Zenon DEF Piece
  <2> HIDE DEF x
  <2>9. Piece(<<tilde>>, <<tilde>>)
    <3>1. <<tilde>> \in Seq(Alphabet) /\ \A i \in 1 .. Len(<<tilde>>) : Plain(<<tilde>>[i])
      BY <2>3
    <3> QED BY <3>1, PlainPiece, Zenon
  <2>10. Piece(<<tilde>> \o x, p)
    BY <2>8, <2>9, PieceConcat
  <2>11. ~Contains(p, "@")
    <3>1. p \in Seq(Alphabet) /\ Len(p) = 1 + Len(t) /\ p[1] = tilde /\ \A j \in 1 .. Len(t) : p[1 + j] = t[j]
      BY <2>3, <2>5
    <3> HIDE DEF p
    <3>2. DOMAIN p = 1 .. 1 + Len(t) /\ DOMAIN t = 1 .. Len(t) /\ Len(t) \in Nat
      BY <2>5, <3>1
    <3>3. \A i \in 1 .. 1 + Len(t) : i = 1 \/ \E j \in 1 .. Len(t) : i = 1 + j
      <4> TAKE i \in 1 .. 1 + Len(t)
      <4>1. i = 1 \/ (i - 1 \in 1 .. Len(t) /\ i = 1 + (i - 1))
        BY <3>2
      <4> QED BY <4>1, Zenon
    <3>4. ASSUME NEW i \in DOMAIN p PROVE p[i] # "@"
      <4>1. CASE i = 1
        BY <2>3, <3>1, <4>1, Zenon
      <4>2. CASE \E j \in 1 .. Len(t) : i = 1 + j
        <5>1. PICK j \in 1 .. Len(t) : i = 1 + j
          BY <4>2
        <5>2. p[i] = t[j] /\ j \in DOMAIN t
          BY <3>1, <3>2, <5>1, Zenon
        <5> QED BY <2>2, <5>2, Zenon DEF Contains
      <4> QED BY <3>2, <3>3, <4>1, <4>2, Zenon
    <3> QED BY <3>4, Zenon DEF Contains
  <2> QED BY <2>1, <2>10, <2>11
<1> QED BY <1>1, <1>2

\* The letters fmt() writes after a number.
Letters == {"h", "i", "b", "c"}

\* A qualifier.
LEMMA QualifierPiece ==
  ASSUME NEW v \in Option(Numbers), NEW letter \in Letters
  PROVE  Piece(QualifierText(v, letter), QualifierText(v, letter))
<1>1. CASE v = Nothing
  <2>1. QualifierText(v, letter) = <<>>
    BY <1>1, Zenon DEF QualifierText
  <2> QED BY <2>1, EmptyPiece
<1>2. CASE v # Nothing
  <2> DEFINE at == "@"
             d == Digits(v[1])
             q == <<at, d, letter>>
  <2>1. QualifierText(v, letter) = q
    BY <1>2, Zenon DEF QualifierText
  <2>2. v[1] \in Numbers
    BY <1>2, OptionCases
  <2>3. Plain(at) /\ at \in Alphabet /\ Plain(letter) /\ letter \in Alphabet
    BY AlphabetHas, PlainMarks, Zenon DEF Letters
  <2>4. Plain(d) /\ d \in Alphabet
    BY <2>2, AlphabetHas, PlainDigits, Zenon
  <2> HIDE DEF at, d
  <2>5. q \in Seq(Alphabet) /\ Len(q) = 3 /\ q[1] = at /\ q[2] = d /\ q[3] = letter
    BY <2>3, <2>4
  <2> HIDE DEF q
  <2>6. \A i \in 1 .. Len(q) : i = 1 \/ i = 2 \/ i = 3
    BY <2>5
  <2>7. \A i \in 1 .. Len(q) : Plain(q[i])
    BY <2>3, <2>4, <2>5, <2>6, Zenon
  <2>8. Piece(q, q)
    BY <2>5, <2>7, PlainPiece
  <2> QED BY <2>1, <2>8
<1> QED BY <1>1, <1>2

\* A text that does not begin with a space.
Starts(t) == t \in Seq(Alphabet) /\ t # <<>> /\ t[1] # Space

\* A text that begins so goes on so.
LEMMA StartsConcat ==
  ASSUME NEW t, Starts(t), NEW t2 \in Seq(Alphabet)
  PROVE  Starts(t \o t2)
<1>1. t \in Seq(Alphabet) /\ t # <<>> /\ t[1] # Space
  BY DEF Starts
<1>2. t \o t2 \in Seq(Alphabet) /\ t \o t2 # <<>> /\ (t \o t2)[1] = t[1]
  BY <1>1
<1> QED BY <1>1, <1>2 DEF Starts

\* The text of an entry spells its parts.
LEMMA EntrySpelled ==
  ASSUME NEW e \in Entry
  PROVE  EntryText(e) \in Seq(Alphabet) /\ Spells(EntryText(e), PlainText(e)) /\ Whole(Alphabet, PlainText(e))
<1> DEFINE m == PrefixText(e)
           n == e.name
           f == FmtpText(e)
           x == FmtpEscaped(e)
           r == QualifierText(e.rate, "h")
           p == QualifierText(e.ptime, "i")
           b == QualifierText(e.bitrate, "b")
           c == QualifierText(e.channels, "c")
<1>1. Piece(m, m) /\ (m # <<>> => m[1] # Space) /\ Piece(x, f)
  BY PrefixPiece, FmtpPiece
<1>2. n \in Text /\ CheckNameGrammar(n) /\ n # <<>>
  BY EntryParts
<1>3. Piece(r, r) /\ Piece(p, p) /\ Piece(b, b) /\ Piece(c, c)
  <2>1. "h" \in Letters /\ "i" \in Letters /\ "b" \in Letters /\ "c" \in Letters
    BY Zenon DEF Letters
  <2>2. /\ e.rate \in Option(Numbers) /\ e.ptime \in Option(Numbers)
        /\ e.bitrate \in Option(Numbers) /\ e.channels \in Option(Numbers)
    BY EntryParts
  <2> QED BY <2>1, <2>2, QualifierPiece, Zenon
<1>4. EntryText(e) = m \o n \o x \o r \o p \o b \o c
  BY Zenon DEF EntryText, PrefixText, FmtpEscaped
<1>5. PlainText(e) = m \o n \o f \o r \o p \o b \o c
  BY Zenon DEF PlainText, BaseText
<1> HIDE DEF m, n, f, x, r, p, b, c
<1>6. Piece(n, n) /\ Starts(n)
  <2>1. n \in Seq(Alphabet) /\ \A i \in 1 .. Len(n) : Plain(n[i])
    BY <1>2, NamePlain
  <2>2. Piece(n, n)
    BY <2>1, PlainPiece
  <2>3. 1 \in 1 .. Len(n)
    BY <1>2, <2>1
  <2>4. n[1] # Space
    BY <2>1, <2>3, Zenon DEF Plain
  <2> QED BY <1>2, <2>1, <2>2, <2>4, SMTT(30) DEF Starts
<1>7. Piece(m \o n, m \o n)
  BY <1>1, <1>6, PieceConcat, SMTT(30)
<1>8. Piece(m \o n \o x, m \o n \o f)
  BY <1>1, <1>7, PieceConcat, SMTT(30)
<1>9. Piece(m \o n \o x \o r, m \o n \o f \o r)
  BY <1>3, <1>8, PieceConcat, SMTT(30)
<1>10. Piece(m \o n \o x \o r \o p, m \o n \o f \o r \o p)
  BY <1>3, <1>9, PieceConcat, SMTT(30)
<1>11. Piece(m \o n \o x \o r \o p \o b, m \o n \o f \o r \o p \o b)
  BY <1>3, <1>10, PieceConcat, SMTT(30)
<1>12. Piece(EntryText(e), PlainText(e))
  BY <1>3, <1>4, <1>5, <1>11, PieceConcat, SMTT(30)
<1>13. /\ m \in Seq(Alphabet) /\ f \in Seq(Alphabet) /\ r \in Seq(Alphabet)
       /\ p \in Seq(Alphabet) /\ b \in Seq(Alphabet) /\ c \in Seq(Alphabet)
  BY <1>1, <1>3, Zenon DEF Piece
<1>14. Starts(m \o n)
  <2>1. CASE m = <<>>
    <3>1. n \in Seq(Alphabet)
      BY <1>6 DEF Starts
    <3>2. m \o n = n
      BY <2>1, <3>1
    <3> QED BY <1>6, <3>2
  <2>2. CASE m # <<>>
    <3>1. Starts(m)
      BY <1>1, <1>13, <2>2, Zenon DEF Starts
    <3>2. n \in Seq(Alphabet)
      BY <1>6 DEF Starts
    <3> QED BY <3>1, <3>2, StartsConcat, SMTT(30)
  <2> QED BY <2>1, <2>2
<1>15. Starts(m \o n \o f)
  BY <1>13, <1>14, StartsConcat, SMTT(30)
<1>16. Starts(m \o n \o f \o r)
  BY <1>13, <1>15, StartsConcat, SMTT(30)
<1>17. Starts(m \o n \o f \o r \o p)
  BY <1>13, <1>16, StartsConcat, SMTT(30)
<1>18. Starts(m \o n \o f \o r \o p \o b)
  BY <1>13, <1>17, StartsConcat, SMTT(30)
<1>19. Starts(PlainText(e))
  BY <1>5, <1>13, <1>18, StartsConcat, SMTT(30)
<1> QED
  BY <1>12, <1>19, Zenon DEF Piece, Starts, Whole

-----------------------------------------------------------------------------
(***************************************************************************)
(* Reading an entry back: the name segment first, then each qualifier.     *)
(***************************************************************************)
\* Two texts with a character between them.
LEMMA DividedByOne ==
  ASSUME NEW A, NEW s \in Seq(A), NEW t \in Seq(A), NEW c \in A
  PROVE  s \o (<<c>> \o t) \in Seq(A) /\ Divided(s \o (<<c>> \o t), s, c, t)
<1> DEFINE u == <<c>> \o t
           w == s \o u
<1>1. u \in Seq(A) /\ Len(u) = 1 + Len(t) /\ u[1] = c /\ \A j \in 1 .. Len(t) : u[1 + j] = t[j]
  OBVIOUS
<1> HIDE DEF u
<1>2. /\ w \in Seq(A) /\ Len(w) = Len(s) + Len(u) /\ Len(s) \in Nat /\ Len(u) \in Nat
      /\ \A i \in 1 .. Len(s) : w[i] = s[i]
      /\ \A j \in 1 .. Len(u) : w[Len(s) + j] = u[j]
  <2>1. s \in Seq(A) /\ u \in Seq(A)
    BY <1>1
  <2> QED BY <2>1
<1> HIDE DEF w
<1> DEFINE a == Len(s)
           b == Len(u)
           l == Len(t)
<1>3. l \in Nat /\ b = 1 + l /\ a \in Nat
  BY <1>1, <1>2, SMTT(30)
<1>4. Len(w) = a + b /\ a + 1 + l = a + b /\ 1 \in 1 .. b
  <2>1. Len(w) = a + b
    BY <1>2
  <2> HIDE DEF a, b, l
  <2> QED BY <1>3, <2>1
<1>5. \A j \in 1 .. l : 1 + j \in 1 .. b /\ a + 1 + j = a + (1 + j)
  <2> HIDE DEF a, b, l
  <2> QED BY <1>3
<1>6. w[a + 1] = c
  BY <1>1, <1>2, <1>4, SMTT(30)
<1>7. ASSUME NEW j \in 1 .. l PROVE w[a + 1 + j] = t[j]
  <2>1. w[a + (1 + j)] = u[1 + j] /\ u[1 + j] = t[j]
    BY <1>1, <1>2, <1>5, SMTT(30)
  <2> QED BY <1>5, <2>1, SMTT(30)
<1> QED
  BY <1>2, <1>4, <1>6, <1>7, SMTT(30) DEF Divided, w, u

\* The name segment: its two splits.
LEMMA SegmentSplits ==
  ASSUME NEW e \in Entry
  PROVE  LET body == e.name \o FmtpText(e)
         IN  /\ SplitOnce(BaseText(e), ".") = IF e.modname = Nothing THEN <<body>> ELSE <<e.modname[1], body>>
             /\ SplitOnce(body, "~") = IF e.fmtp = Nothing THEN <<e.name>> ELSE <<e.name, e.fmtp[1]>>
             /\ BaseText(e) \in Seq(Alphabet) /\ ~Contains(BaseText(e), "@")
<1> DEFINE n == e.name
           f == FmtpText(e)
           m == PrefixText(e)
           body == n \o f
           dot == "."
           tilde == "~"
           at == "@"
<1>0. dot \in Alphabet /\ tilde \in Alphabet /\ at \in Alphabet /\ tilde # dot
  BY AlphabetHas, Zenon
<1>1. n \in Text /\ CheckNameGrammar(n)
  BY EntryParts
<1>2. n \in Seq(Alphabet) /\ ~Contains(n, at) /\ ~Contains(n, dot) /\ ~Contains(n, tilde)
  BY <1>1, NamePlain
<1>3. f \in Seq(Alphabet) /\ ~Contains(f, at) /\ m \in Seq(Alphabet) /\ ~Contains(m, at)
  BY FmtpPiece, PrefixPiece, Zenon DEF Piece
<1>4. BaseText(e) = (m \o n) \o f
  BY Zenon DEF BaseText
<1>5. (e.fmtp = Nothing => f = <<>>) /\ (e.fmtp # Nothing => f = <<tilde>> \o e.fmtp[1])
  BY Zenon DEF FmtpText
<1>6. (e.modname = Nothing => m = <<>>) /\ (e.modname # Nothing => m = Append(e.modname[1], dot))
  BY Zenon DEF PrefixText
<1>7. e.fmtp # Nothing => e.fmtp[1] \in Seq(Alphabet) /\ (Contains(e.fmtp[1], dot) => e.modname # Nothing)
  <2> SUFFICES ASSUME e.fmtp # Nothing
               PROVE  e.fmtp[1] \in Seq(Alphabet) /\ (Contains(e.fmtp[1], dot) => e.modname # Nothing)
    OBVIOUS
  <2>1. e.fmtp[1] \in Text /\ (Contains(e.fmtp[1], dot) => e.modname # Nothing)
    BY EntryParts
  <2>2. e.fmtp[1] \in Seq(STRING)
    BY <2>1 DEF Text
  <2> QED BY <2>1, <2>2, AlphabetHas, SeqIncludes, Zenon
<1>8. e.modname # Nothing => e.modname[1] \in Seq(Alphabet) /\ ~Contains(e.modname[1], dot)
  BY EntryParts, NamePlain
<1> HIDE DEF n, f, m, dot, tilde, at
<1>9. SplitOnce(body, tilde) = IF e.fmtp = Nothing THEN <<n>> ELSE <<n, e.fmtp[1]>>
  <2>1. CASE e.fmtp = Nothing
    <3>1. body = n
      BY <1>2, <1>5, <2>1, SMTT(30)
    <3>2. SplitOnce(n, tilde) = <<n>>
      BY <1>2, SplitOnceNone
    <3> QED BY <2>1, <3>1, <3>2, Zenon
  <2>2. CASE e.fmtp # Nothing
    <3> DEFINE t == e.fmtp[1]
    <3>1. t \in Seq(Alphabet) /\ body = n \o (<<tilde>> \o t)
      BY <1>5, <1>7, <2>2, Zenon
    <3> HIDE DEF t
    <3>2. body \in Seq(Alphabet) /\ Divided(body, n, tilde, t)
      BY <1>0, <1>2, <3>1, DividedByOne, SMTT(30)
    <3>3. SplitOnce(body, tilde) = <<n, t>>
      BY <1>2, <3>1, <3>2, SplitOnceAt, ZenonT(30)
    <3> QED BY <2>2, <3>3, Zenon DEF t
  <2> QED BY <2>1, <2>2
<1>10. body \in Seq(Alphabet)
  BY <1>2, <1>3
<1>11. m \o n \in Seq(Alphabet) /\ (m \o n) \o f \in Seq(Alphabet) /\ (m \o n) \o f = m \o body
  BY <1>2, <1>3, ConcatAssoc, SMTT(30)
<1>12. ~Contains(m \o n, at)
  BY <1>2, <1>3, NoneInConcat
<1>13. ~Contains((m \o n) \o f, at)
  BY <1>3, <1>11, <1>12, NoneInConcat, Zenon
<1>14. SplitOnce(m \o body, dot) = IF e.modname = Nothing THEN <<body>> ELSE <<e.modname[1], body>>
  <2>1. CASE e.modname = Nothing
    <3>1. ~Contains(f, dot)
      <4>1. CASE e.fmtp = Nothing
        <5>1. DOMAIN f = {}
          BY <1>5, <4>1
        <5> QED BY <5>1, Zenon DEF Contains
      <4>2. CASE e.fmtp # Nothing
        <5> DEFINE t == e.fmtp[1]
        <5>1. t \in Seq(Alphabet) /\ ~Contains(t, dot) /\ f = <<tilde>> \o t
          BY <1>5, <1>7, <2>1, <4>2, Zenon
        <5> HIDE DEF t
        <5>2. <<tilde>> \in Seq(Alphabet) /\ DOMAIN <<tilde>> = {1} /\ <<tilde>>[1] = tilde
          BY <1>0
        <5>3. ~Contains(<<tilde>>, dot)
          BY <1>0, <5>2, Zenon DEF Contains
        <5> QED BY <5>1, <5>2, <5>3, NoneInConcat, Zenon
      <4> QED BY <4>1, <4>2
    <3>2. ~Contains(body, dot)
      BY <1>2, <1>3, <3>1, NoneInConcat
    <3> HIDE DEF body
    <3>3. m \o body = body
      BY <1>6, <1>10, <2>1
    <3>4. SplitOnce(body, dot) = <<body>>
      BY <1>10, <3>2, SplitOnceNone, SMTT(30)
    <3> QED BY <2>1, <3>3, <3>4, Zenon
  <2>2. CASE e.modname # Nothing
    <3> DEFINE t == e.modname[1]
    <3>1. t \in Seq(Alphabet) /\ ~Contains(t, dot) /\ m = Append(t, dot)
      BY <1>6, <1>8, <2>2, Zenon
    <3> HIDE DEF t, body
    <3>2. m = t \o <<dot>> /\ <<dot>> \in Seq(Alphabet)
      BY <1>0, <3>1, SMTT(30)
    <3>3. m \o body = t \o (<<dot>> \o body)
      BY <1>10, <3>1, <3>2, ConcatAssoc, SMTT(30)
    <3>4. m \o body \in Seq(Alphabet) /\ Divided(m \o body, t, dot, body)
      BY <1>0, <1>10, <3>1, <3>3, DividedByOne, SMTT(30)
    <3>5. SplitOnce(m \o body, dot) = <<t, body>>
      BY <1>10, <3>1, <3>4, SplitOnceAt, ZenonT(30)
    <3> QED BY <2>2, <3>5, Zenon DEF t
  <2> QED BY <2>1, <2>2
<1> QED
  BY <1>4, <1>9, <1>11, <1>13, <1>14, SMTT(30) DEF n, f, dot, tilde, at

\* An entry without its numeric qualifiers.
Bare(e) ==
  [modname |-> e.modname, name |-> e.name, fmtp |-> e.fmtp, rate |-> Nothing, ptime |-> Nothing,
   bitrate |-> Nothing, channels |-> Nothing]

\* The name segment of an entry's token is read as the entry without its qualifiers.
LEMMA NameParsed ==
  ASSUME NEW e \in Entry
  PROVE  ParseName(BaseText(e)) = Some(Bare(e))
<1> DEFINE body == e.name \o FmtpText(e)
           dotted == SplitOnce(BaseText(e), ".")
           named == SplitOnce(body, "~")
           bare == [modname |-> Nothing, name |-> e.name, fmtp |-> Nothing, rate |-> Nothing,
                    ptime |-> Nothing, bitrate |-> Nothing, channels |-> Nothing]
           prefixed == [bare EXCEPT !.modname = e.modname]
<1>1. /\ dotted = IF e.modname = Nothing THEN <<body>> ELSE <<e.modname[1], body>>
      /\ named = IF e.fmtp = Nothing THEN <<e.name>> ELSE <<e.name, e.fmtp[1]>>
  BY SegmentSplits
<1> HIDE DEF dotted, named
<1>2. /\ dotted[Len(dotted)] = body
      /\ e.modname = Nothing => Len(dotted) = 1
      /\ e.modname # Nothing => Len(dotted) # 1 /\ dotted[1] = e.modname[1]
  <2> HIDE DEF body
  <2>1. CASE e.modname = Nothing
    <3>1. dotted = <<body>>
      BY <1>1, <2>1, Zenon
    <3> QED BY <2>1, <3>1
  <2>2. CASE e.modname # Nothing
    <3>1. dotted = <<e.modname[1], body>>
      BY <1>1, <2>2, Zenon
    <3> QED BY <2>2, <3>1
  <2> QED BY <2>1, <2>2
<1>3. /\ named[1] = e.name
      /\ e.fmtp = Nothing => Len(named) = 1
      /\ e.fmtp # Nothing => Len(named) # 1 /\ named[2] = e.fmtp[1]
  <2>1. CASE e.fmtp = Nothing
    <3>1. named = <<e.name>>
      BY <1>1, <2>1, Zenon
    <3> QED BY <2>1, <3>1
  <2>2. CASE e.fmtp # Nothing
    <3>1. named = <<e.name, e.fmtp[1]>>
      BY <1>1, <2>2, Zenon
    <3> QED BY <2>2, <3>1
  <2> QED BY <2>1, <2>2
<1>4. \A x : Some(x) # Nothing /\ Some(x)[1] = x
  BY DEF Some, Nothing
<1>5. NewEntry(e.name) = Some(bare)
  BY EntryParts, Zenon DEF NewEntry
<1>6. (IF Len(dotted) = 1 THEN Some(bare) ELSE SetModule(bare, dotted[1])) = Some(prefixed)
  <2>1. CASE e.modname = Nothing
    <3>1. prefixed = bare
      BY <2>1
    <3> QED BY <1>2, <2>1, <3>1, Zenon
  <2>2. CASE e.modname # Nothing
    <3> DEFINE t == e.modname[1]
    <3>1. CheckNameGrammar(t) /\ e.modname = Some(t)
      BY <2>2, EntryParts, OptionCases
    <3> HIDE DEF t
    <3>2. NewlineFree(t)
      BY <3>1, Zenon DEF CheckNameGrammar, NewlineFree
    <3>3. SetModule(bare, t) = Some([bare EXCEPT !.modname = Some(t)])
      BY <3>1, <3>2, Zenon DEF SetModule
    <3>4. prefixed = [bare EXCEPT !.modname = Some(t)]
      BY <3>1, Zenon
    <3> QED BY <1>2, <2>2, <3>3, <3>4, Zenon DEF t
  <2> QED BY <2>1, <2>2
<1>7. prefixed.modname = e.modname
  OBVIOUS
<1>8. (IF Len(named) = 1 THEN Some(prefixed) ELSE SetFmtp(prefixed, named[2])) = Some(Bare(e))
  <2>1. CASE e.fmtp = Nothing
    <3>1. prefixed = Bare(e)
      BY <2>1 DEF Bare
    <3> HIDE DEF prefixed
    <3> QED BY <1>3, <2>1, <3>1, Zenon
  <2>2. CASE e.fmtp # Nothing
    <3> DEFINE t == e.fmtp[1]
    <3>1. /\ NewlineFree(t) /\ ~Contains(t, "@") /\ NormalizeFmtpTrailingSpace(t) = t
          /\ Contains(t, ".") => e.modname # Nothing
      BY <2>2, EntryParts, Zenon
    <3>2. e.fmtp = Some(t)
      BY <2>2, EntryParts, OptionCases
    <3>5. [prefixed EXCEPT !.fmtp = e.fmtp] = Bare(e)
      <4>1. prefixed = [modname |-> e.modname, name |-> e.name, fmtp |-> Nothing, rate |-> Nothing,
                        ptime |-> Nothing, bitrate |-> Nothing, channels |-> Nothing]
        OBVIOUS
      <4> HIDE DEF prefixed
      <4> QED BY <4>1 DEF Bare
    <3> HIDE DEF t, prefixed
    <3>3. SetFmtp(prefixed, t) = Some([prefixed EXCEPT !.fmtp = Some(t)])
      BY <1>7, <3>1, Zenon DEF SetFmtp, With
    <3> QED BY <1>3, <2>2, <3>2, <3>3, <3>5, Zenon DEF t
  <2> QED BY <2>1, <2>2
<1> HIDE DEF bare, prefixed, body
<1> DEFINE Build(d, nm) ==
             Then(NewEntry(nm[1]), LAMBDA x :
             Then(IF Len(d) = 1 THEN Some(x) ELSE SetModule(x, d[1]), LAMBDA y :
                  IF Len(nm) = 1 THEN Some(y) ELSE SetFmtp(y, nm[2])))
<1>9. ParseName(BaseText(e)) = Build(dotted, SplitOnce(dotted[Len(dotted)], "~"))
  BY Zenon DEF ParseName, With, dotted
<1>10. SplitOnce(dotted[Len(dotted)], "~") = named
  BY <1>2, Zenon DEF named
<1>11. Build(dotted, named) = Some(Bare(e))
  <2> DEFINE Step(x) == IF Len(dotted) = 1 THEN Some(x) ELSE SetModule(x, dotted[1])
             Last(y) == IF Len(named) = 1 THEN Some(y) ELSE SetFmtp(y, named[2])
  <2>1. Build(dotted, named) =
          IF NewEntry(named[1]) = Nothing THEN Nothing
          ELSE IF Step(NewEntry(named[1])[1]) = Nothing THEN Nothing
          ELSE Last(Step(NewEntry(named[1])[1])[1])
    BY Zenon DEF Then
  <2>2. Step(bare) = Some(prefixed) /\ Last(prefixed) = Some(Bare(e))
    BY <1>6, <1>8, Zenon
  <2> HIDE DEF Step, Last, Build
  <2>3. NewEntry(named[1]) = Some(bare)
    BY <1>3, <1>5, Zenon
  <2>4. Build(dotted, named) = IF Step(bare) = Nothing THEN Nothing ELSE Last(Step(bare)[1])
    BY <1>4, <2>1, <2>3, SMTT(30)
  <2> QED BY <1>4, <2>2, <2>4
<1> HIDE DEF Build
<1> QED
  BY <1>9, <1>10, <1>11, Zenon

\* The letter of a numeric qualifier, and the field it is of.
FieldOf(letter) ==
  IF letter = "h" THEN "rate" ELSE IF letter = "i" THEN "ptime"
  ELSE IF letter = "b" THEN "bitrate" ELSE "channels"

\* A number and its letter are read as that number, in that letter's field.
LEMMA QualifierRead ==
  ASSUME NEW n \in Numbers, NEW letter \in Letters
  PROVE  /\ Classify(<<Digits(n), letter>>) = FieldOf(letter)
         /\ AtoiPrefix(<<Digits(n), letter>>).value = Some(n)
<1> DEFINE d == Digits(n)
           q == <<d, letter>>
<1>1. d \notin {"@", "h", "k", "i", "b", "c", Overflow}
  BY PlainDigits
<1>2. \A m \in Numbers : Digits(m) = d => m = n
  BY DigitsAssumption, Zenon
<1>3. \E m \in Numbers : Digits(m) = d
  OBVIOUS
<1>4. (CHOOSE m \in Numbers : Digits(m) = d) = n
  <2> HIDE DEF d
  <2> QED BY <1>2, <1>3, Zenon
<1> HIDE DEF d
<1>5. q # <<>> /\ q[1] = d /\ \A c : Contains(q, c) <=> (c = d \/ c = letter)
  <2>1. DOMAIN q = {1, 2} /\ q[1] = d /\ q[2] = letter /\ q # <<>>
    OBVIOUS
  <2> HIDE DEF q
  <2> QED BY <2>1, Zenon DEF Contains
<1> HIDE DEF q
<1>6. AtoiPrefix(q).value = Some(n)
  <2>1. d # Overflow
    BY <1>1, Zenon
  <2>2. StartsWithDigits(q)
    BY <1>3, <1>5, Zenon DEF StartsWithDigits
  <2>3. AtoiPrefix(q) = [value |-> Some(n), rest |-> Tail(q)]
    BY <1>4, <1>5, <2>1, <2>2, Zenon DEF AtoiPrefix
  <2> QED BY <2>3
<1>7. Classify(q) = FieldOf(letter)
  <2>1. \A c : c \in {"h", "k", "i", "b", "c"} => (Contains(q, c) <=> c = letter)
    BY <1>1, <1>5, Zenon
  <2>2. /\ "h" # "k" /\ "h" # "i" /\ "h" # "b" /\ "h" # "c" /\ "k" # "i" /\ "k" # "b" /\ "k" # "c"
        /\ "i" # "b" /\ "i" # "c" /\ "b" # "c"
    BY Zenon
  <2>3. CASE letter = "h"
    <3>1. Contains(q, "h") /\ ~Contains(q, "i")
      BY <2>1, <2>2, <2>3, Zenon
    <3> QED BY <2>2, <2>3, <3>1, Zenon DEF Classify, FieldOf
  <2>4. CASE letter = "i"
    <3>1. Contains(q, "i")
      BY <2>1, <2>4, Zenon
    <3> QED BY <2>2, <2>4, <3>1, Zenon DEF Classify, FieldOf
  <2>5. CASE letter = "b"
    <3>1. Contains(q, "b") /\ ~Contains(q, "h") /\ ~Contains(q, "i") /\ ~Contains(q, "k")
      BY <2>1, <2>2, <2>5, Zenon
    <3> QED BY <2>2, <2>5, <3>1, Zenon DEF Classify, FieldOf
  <2>6. CASE letter = "c"
    <3>1. Contains(q, "c") /\ ~Contains(q, "b") /\ ~Contains(q, "h") /\ ~Contains(q, "i") /\ ~Contains(q, "k")
      BY <2>1, <2>2, <2>6, Zenon
    <3> QED BY <2>2, <2>6, <3>1, Zenon DEF Classify, FieldOf
  <2> QED BY <2>3, <2>4, <2>5, <2>6, Zenon DEF Letters
<1> QED
  BY <1>6, <1>7 DEF q, d

\* An entry read without a warning.
Read(x) == [entry |-> Some(x), warnings |-> 0]

\* A qualifier is read into its field.
LEMMA QualifierParsed ==
  ASSUME NEW s \in Seq(Alphabet), NEW x, NEW lenient, ParseEntry(s, lenient) = Read(x),
         NEW v \in Option(Numbers), NEW letter \in Letters,
         NEW y, y = IF v = Nothing THEN x ELSE [x EXCEPT ![FieldOf(letter)] = v]
  PROVE  /\ s \o QualifierText(v, letter) \in Seq(Alphabet)
         /\ ParseEntry(s \o QualifierText(v, letter), lenient) = Read(y)
<1>1. CASE v = Nothing
  <2>1. QualifierText(v, letter) = <<>>
    BY <1>1, Zenon DEF QualifierText
  <2>2. s \o <<>> = s
    OBVIOUS
  <2>3. y = x
    BY <1>1, Zenon
  <2> QED BY <2>1, <2>2, <2>3
<1>2. CASE v # Nothing
  <2> DEFINE at == "@"
             n == v[1]
             d == Digits(n)
             t == <<d, letter>>
             w == s \o QualifierText(v, letter)
  <2>1. n \in Numbers /\ v = Some(n)
    BY <1>2, OptionCases
  <2>2. QualifierText(v, letter) = <<at, d, letter>>
    BY <1>2, Zenon DEF QualifierText
  <2>3. at \in Alphabet /\ d \in Alphabet /\ letter \in Alphabet /\ d # at /\ letter # at
    <3>1. d # at
      BY <2>1, PlainDigits, Zenon
    <3> QED BY <2>1, <3>1, AlphabetHas, Zenon DEF Letters
  <2>4. Classify(t) = FieldOf(letter) /\ AtoiPrefix(t).value = v
    BY <2>1, QualifierRead
  <2> HIDE DEF at, d, n
  <2>5. t \in Seq(Alphabet) /\ <<at, d, letter>> = <<at>> \o t
    BY <2>3
  <2>6. ~Contains(t, at)
    <3>1. DOMAIN t = {1, 2} /\ t[1] = d /\ t[2] = letter
      OBVIOUS
    <3> QED BY <2>3, <3>1, Zenon DEF Contains
  <2> HIDE DEF t
  <2>7. w = s \o (<<at>> \o t)
    BY <2>2, <2>5, Zenon
  <2>8. w \in Seq(Alphabet) /\ Divided(w, s, at, t)
    BY <2>3, <2>5, <2>7, DividedByOne, SMTT(30)
  <2> HIDE DEF w
  <2>9. ParseEntry(w, lenient) = ApplyQualifierPart(Read(x), t, lenient)
    BY <2>5, <2>6, <2>8, ParseMore, SMTT(30) DEF at
  <2>10. Some(x) # Nothing /\ Some(x)[1] = x /\ v # Nothing
    BY <1>2 DEF Some, Nothing
  <2>11. FieldOf(letter) # "none"
    BY Zenon DEF FieldOf
  <2> DEFINE field == FieldOf(letter)
  <2> HIDE DEF field
  <2>12. ApplyQualifierPart(Read(x), t, lenient) = [Read(x) EXCEPT !.entry = Some([@[1] EXCEPT ![field] = v])]
    <3>1. Read(x).entry = Some(x)
      BY DEF Read
    <3> QED BY <2>4, <2>10, <2>11, <3>1, Zenon DEF ApplyQualifierPart, field
  <2>13. [Read(x) EXCEPT !.entry = Some([@[1] EXCEPT ![field] = v])] = Read([x EXCEPT ![field] = v])
    <3> DEFINE z == [x EXCEPT ![field] = v]
    <3>1. Some([Read(x).entry[1] EXCEPT ![field] = v]) = Some(z)
      BY <2>10, Zenon DEF Read
    <3> HIDE DEF z
    <3>2. [Read(x) EXCEPT !.entry = Some(z)] = Read(z)
      BY DEF Read
    <3> QED BY <3>1, <3>2, Zenon DEF z
  <2>14. y = [x EXCEPT ![field] = v]
    BY <1>2, Zenon DEF field
  <2> QED BY <2>8, <2>9, <2>12, <2>13, <2>14, Zenon DEF w
<1> QED BY <1>1, <1>2

\* An entry is read back from its parts.
LEMMA EntryParsed ==
  ASSUME NEW e \in Entry, NEW lenient
  PROVE  ParseEntry(PlainText(e), lenient) = Read(e)
<1> DEFINE b0 == BaseText(e)
           b1 == b0 \o QualifierText(e.rate, "h")
           b2 == b1 \o QualifierText(e.ptime, "i")
           b3 == b2 \o QualifierText(e.bitrate, "b")
           b4 == b3 \o QualifierText(e.channels, "c")
           x0 == Bare(e)
           x1 == [modname |-> e.modname, name |-> e.name, fmtp |-> e.fmtp, rate |-> e.rate,
                  ptime |-> Nothing, bitrate |-> Nothing, channels |-> Nothing]
           x2 == [modname |-> e.modname, name |-> e.name, fmtp |-> e.fmtp, rate |-> e.rate,
                  ptime |-> e.ptime, bitrate |-> Nothing, channels |-> Nothing]
           x3 == [modname |-> e.modname, name |-> e.name, fmtp |-> e.fmtp, rate |-> e.rate,
                  ptime |-> e.ptime, bitrate |-> e.bitrate, channels |-> Nothing]
<1>1. /\ e.rate \in Option(Numbers) /\ e.ptime \in Option(Numbers)
      /\ e.bitrate \in Option(Numbers) /\ e.channels \in Option(Numbers)
  BY EntryParts
<1>2. /\ "h" \in Letters /\ "i" \in Letters /\ "b" \in Letters /\ "c" \in Letters
      /\ FieldOf("h") = "rate" /\ FieldOf("i") = "ptime" /\ FieldOf("b") = "bitrate" /\ FieldOf("c") = "channels"
  BY Zenon DEF Letters, FieldOf
<1>3. b0 \in Seq(Alphabet) /\ ParseEntry(b0, lenient) = Read(x0)
  <2>1. b0 \in Seq(Alphabet) /\ ~Contains(b0, "@")
    BY SegmentSplits, Zenon
  <2>2. ParseEntry(b0, lenient) = [entry |-> ParseName(b0), warnings |-> 0]
    BY <2>1, ParseBase
  <2> QED BY <2>1, <2>2, NameParsed DEF Read
<1>4. x1 = IF e.rate = Nothing THEN x0 ELSE [x0 EXCEPT !["rate"] = e.rate]
  BY DEF Bare
<1>5. x2 = IF e.ptime = Nothing THEN x1 ELSE [x1 EXCEPT !["ptime"] = e.ptime]
  OBVIOUS
<1>6. x3 = IF e.bitrate = Nothing THEN x2 ELSE [x2 EXCEPT !["bitrate"] = e.bitrate]
  OBVIOUS
<1>7. e = IF e.channels = Nothing THEN x3 ELSE [x3 EXCEPT !["channels"] = e.channels]
  <2>1. e = [modname |-> e.modname, name |-> e.name, fmtp |-> e.fmtp, rate |-> e.rate,
             ptime |-> e.ptime, bitrate |-> e.bitrate, channels |-> e.channels]
    BY DEF Entry
  <2> QED BY <2>1
<1>8. PlainText(e) = b4
  BY Zenon DEF PlainText
<1> HIDE DEF b0, b1, b2, b3, b4, x0, x1, x2, x3
<1>9. b1 \in Seq(Alphabet) /\ ParseEntry(b1, lenient) = Read(x1)
  BY <1>1, <1>2, <1>3, <1>4, QualifierParsed, SMTT(30) DEF b1
<1>10. b2 \in Seq(Alphabet) /\ ParseEntry(b2, lenient) = Read(x2)
  BY <1>1, <1>2, <1>5, <1>9, QualifierParsed, SMTT(30) DEF b2
<1>11. b3 \in Seq(Alphabet) /\ ParseEntry(b3, lenient) = Read(x3)
  BY <1>1, <1>2, <1>6, <1>10, QualifierParsed, SMTT(30) DEF b3
<1>12. ParseEntry(b4, lenient) = Read(e)
  BY <1>1, <1>2, <1>7, <1>11, QualifierParsed, SMTT(30) DEF b4
<1> QED
  BY <1>8, <1>12

-----------------------------------------------------------------------------
(***************************************************************************)
(* Reading a list back, and one entry.                                     *)
(***************************************************************************)
\* The text of a list splits into the parts of its entries.
LEMMA ListSplit ==
  ASSUME NEW l \in Seq(Entry)
  PROVE  SplitCodecString(CodecText(l)) = [k \in 1 .. Len(l) |-> PlainText(l[k])]
<1> DEFINE n == Len(l)
           es == [k \in 1 .. n |-> EntryText(l[k])]
           texts == [k \in 1 .. n |-> PlainText(l[k])]
<1>0. n \in Nat /\ \A k \in 1 .. n : l[k] \in Entry
  OBVIOUS
<1>1. \A k \in 1 .. n : /\ EntryText(l[k]) \in Seq(Alphabet) /\ Spells(EntryText(l[k]), PlainText(l[k]))
                        /\ Whole(Alphabet, PlainText(l[k])) /\ PlainText(l[k]) \in Seq(Alphabet)
  BY <1>0, EntrySpelled, Zenon DEF Whole
<1>2. \A m \in Nat : \A q \in [1 .. m -> Seq(Alphabet)] : q \in Seq(Seq(Alphabet)) /\ Len(q) = m
  OBVIOUS
<1>3. es \in [1 .. n -> Seq(Alphabet)] /\ texts \in [1 .. n -> Seq(Alphabet)]
  BY <1>1, Zenon
<1>4. \A k \in 1 .. n : es[k] = EntryText(l[k]) /\ texts[k] = PlainText(l[k])
  BY Zenon
<1> HIDE DEF es, texts
<1>5. es \in Seq(Seq(Alphabet)) /\ texts \in Seq(Seq(Alphabet)) /\ Len(es) = n /\ Len(texts) = n
  BY <1>0, <1>2, <1>3, Zenon
<1>6. Fits(Alphabet, es, texts)
  <2>1. \A k \in 1 .. Len(es) : Spells(es[k], texts[k]) /\ Whole(Alphabet, texts[k])
    BY <1>1, <1>4, <1>5, Zenon
  <2> QED BY <1>5, <2>1, Zenon DEF Fits
<1>7. SplitCodecString(Joined(es)) = texts
  BY <1>6, AlphabetHas, SplitJoined
<1>8. Joined(es) = CodecText(l)
  <2> DEFINE a == [k \in 1 .. n |-> Separated(k, es[k])]
             b == [k \in 1 .. n |-> (IF k = 1 THEN <<>> ELSE <<Comma>>) \o EntryText(l[k])]
  <2>1. Joined(es) = Flatten(SubSeq(a, 1, n))
    BY <1>5, Zenon DEF Joined, Listed
  <2>2. CodecText(l) = Flatten(SubSeq(b, 1, n))
    BY Zenon DEF CodecText, Listed
  <2>3. a = b
    BY <1>4, Zenon DEF Separated
  <2> QED BY <2>1, <2>2, <2>3, Zenon
<1> QED
  BY <1>7, <1>8, Zenon DEF texts

\* A list is read back from its text.
LEMMA ListParsed ==
  ASSUME NEW l \in Seq(Entry), NEW lenient
  PROVE  ParseCodecString(CodecText(l), lenient) =
           IF Len(l) > MaxSwitchEntries /\ ~lenient THEN [list |-> Nothing, warnings |-> 0]
           ELSE [list |-> Some(l), warnings |-> IF Len(l) > MaxSwitchEntries THEN 1 ELSE 0]
<1> DEFINE n == Len(l)
           s == CodecText(l)
           tokens == SplitCodecString(s)
           past == n > MaxSwitchEntries
           base == IF past THEN 1 ELSE 0
           init == [list |-> Some(<<>>), warnings |-> base]
<1>0. n \in Nat /\ \A k \in 1 .. n : l[k] \in Entry
  OBVIOUS
<1>1. Len(tokens) = n /\ \A k \in 1 .. n : tokens[k] = PlainText(l[k])
  <2>1. tokens = [k \in 1 .. n |-> PlainText(l[k])]
    BY ListSplit
  <2> HIDE DEF tokens, n
  <2> QED BY <1>0, <2>1
<1>2. \A k \in 1 .. n : tokens[k] # <<>>
  BY <1>0, <1>1, EntrySpelled, Zenon DEF Whole
<1>3. \A k \in 1 .. n : ParseEntry(tokens[k], lenient) = Read(l[k])
  BY <1>0, <1>1, EntryParsed, Zenon
<1>4. \E f : /\ Runs(f, "list", tokens, lenient, init, n)
             /\ ParseCodecString(s, lenient) = IF past /\ ~lenient THEN [list |-> Nothing, warnings |-> 0] ELSE f[n]
  <2>1. LET tokens_ == SplitCodecString(s)
            past_ == Len(tokens_) > MaxSwitchEntries
        IN  \E f : /\ Runs(f, "list", tokens_, lenient,
                           [list |-> Some(<<>>), warnings |-> IF past_ THEN 1 ELSE 0], Len(tokens_))
                   /\ ParseCodecString(s, lenient) = IF past_ /\ ~lenient
                        THEN [list |-> Nothing, warnings |-> 0] ELSE f[Len(tokens_)]
    BY <1>0, <1>1, ParseListRuns, Zenon
  <2> QED BY <1>1, <2>1, Zenon
<1>5. PICK f : /\ Runs(f, "list", tokens, lenient, init, n)
               /\ ParseCodecString(s, lenient) = IF past /\ ~lenient THEN [list |-> Nothing, warnings |-> 0] ELSE f[n]
  BY <1>4
<1>6. base \in Nat
  OBVIOUS
<1> HIDE DEF n, tokens, past, s, base
<1>7. f[0] = init /\ \A k \in 1 .. n : f[k] = ListTurn(tokens, lenient, f[k - 1], k)
  <2> HIDE DEF init
  <2> QED BY <1>5 DEF Runs, Turn
<1> DEFINE Good(k) == [list |-> Some(SubSeq(l, 1, k)), warnings |-> base]
           G == {k \in 0 .. n : f[k] = Good(k)}
<1>8. 0 \in G
  <2>1. SubSeq(l, 1, 0) = <<>>
    OBVIOUS
  <2>2. f[0] = Good(0)
    BY <1>7, <2>1, Zenon
  <2>3. 0 \in 0 .. n
    BY <1>0
  <2> HIDE DEF Good
  <2> QED BY <2>2, <2>3
<1>9. ASSUME NEW k \in 0 .. n - 1, k \in G PROVE k + 1 \in G
  <2>1. k + 1 \in 1 .. n /\ (k + 1) - 1 = k /\ k + 1 \in 0 .. n /\ k \in 0 .. n
    BY <1>0
  <2> DEFINE p == SubSeq(l, 1, k)
  <2>2. Append(p, l[k + 1]) = SubSeq(l, 1, k + 1)
    BY <1>0, <2>1, SMTT(30) DEF n
  <2>3. f[k] = [list |-> Some(p), warnings |-> base]
    BY <1>9
  <2> HIDE DEF p
  <2>4. f[k + 1] = ListTurn(tokens, lenient, f[k], k + 1)
    BY <1>7, <2>1, SMTT(30)
  <2>5. tokens[k + 1] # <<>> /\ ParseEntry(tokens[k + 1], lenient) = Read(l[k + 1])
    BY <1>2, <1>3, <2>1, SMTT(30)
  <2>6. Some(p) # Nothing /\ Some(p)[1] = p /\ Some(l[k + 1]) # Nothing /\ Some(l[k + 1])[1] = l[k + 1]
    BY DEF Some, Nothing
  <2>7. /\ f[k].list = Some(p) /\ f[k].warnings = base
        /\ Read(l[k + 1]).entry = Some(l[k + 1]) /\ Read(l[k + 1]).warnings = 0
    BY <2>3 DEF Read
  <2>8. f[k + 1] = [list |-> Some(Append(p, l[k + 1])), warnings |-> base + 0]
    BY <2>4, <2>5, <2>6, <2>7, Zenon DEF ListTurn, Then
  <2>9. base + 0 = base
    BY <1>6
  <2>10. f[k + 1] = Good(k + 1)
    BY <2>2, <2>8, <2>9, Zenon
  <2> HIDE DEF Good
  <2> QED
    BY <2>1, <2>10
<1> HIDE DEF G
<1>10. n \in G
  BY <1>0, <1>8, <1>9, Induction, SMTT(30)
<1>11. f[n] = [list |-> Some(l), warnings |-> base]
  <2>1. SubSeq(l, 1, n) = l
    BY DEF n
  <2> QED BY <1>10, <2>1, Zenon DEF G
<1> QED
  BY <1>5, <1>11, Zenon DEF s, past, base, n

\* A part on its own.
LEMMA OneSplit ==
  ASSUME NEW e \in Entry
  PROVE  SplitCodecString(EntryText(e)) = <<PlainText(e)>>
<1> DEFINE l == <<e>>
           x == EntryText(e)
<1>1. l \in Seq(Entry) /\ Len(l) = 1 /\ l[1] = e
  OBVIOUS
<1> HIDE DEF l
<1>2. SplitCodecString(CodecText(l)) = [k \in 1 .. 1 |-> PlainText(l[k])]
  BY <1>1, ListSplit
<1>3. [k \in 1 .. 1 |-> PlainText(l[k])] = <<PlainText(e)>>
  <2> DEFINE t == PlainText(e)
  <2>1. [k \in 1 .. 1 |-> PlainText(l[k])] = [k \in 1 .. 1 |-> t]
    <3>1. \A k \in 1 .. 1 : k = 1
      OBVIOUS
    <3> QED BY <1>1, <3>1, Zenon
  <2> HIDE DEF t
  <2>2. [k \in 1 .. 1 |-> t] = <<t>>
    OBVIOUS
  <2> QED BY <2>1, <2>2, Zenon DEF t
<1>4. x \in Seq(Alphabet)
  BY EntrySpelled
<1>5. CodecText(l) = x
  <2> DEFINE b == [k \in 1 .. 1 |-> (IF k = 1 THEN <<>> ELSE <<Comma>>) \o EntryText(l[k])]
             c == SubSeq(b, 1, 1)
  <2>1. CodecText(l) = Flatten(c)
    BY <1>1, Zenon DEF CodecText, Listed
  <2>2. b[1] = <<>> \o x
    <3>1. 1 \in 1 .. 1
      OBVIOUS
    <3> QED BY <1>1, <3>1, Zenon
  <2>3. <<>> \o x = x
    <3> HIDE DEF x
    <3> QED BY <1>4
  <2>4. b = [k \in 1 .. 1 |-> x]
    <3>1. \A k \in 1 .. 1 : k = 1
      OBVIOUS
    <3>2. \A k \in 1 .. 1 : b[k] = x
      BY <2>2, <2>3, <3>1, Zenon
    <3>3. b = [k \in 1 .. 1 |-> b[k]]
      BY Zenon
    <3> HIDE DEF b
    <3> QED BY <3>2, <3>3, Zenon
  <2> HIDE DEF b, x
  <2>5. Len(c) = 1 /\ c[1] = x
    BY <2>4
  <2> HIDE DEF c
  <2>6. PICK f : Runs(f, "flatten", c, 0, <<>>, 1) /\ Flatten(c) = f[1]
    <3>1. Len(c) \in Nat
      BY <2>5
    <3>2. \E f : Runs(f, "flatten", c, 0, <<>>, Len(c)) /\ Flatten(c) = f[Len(c)]
      BY <3>1, FlattenRuns, SMTT(30)
    <3> QED BY <2>5, <3>2, Zenon
  <2>7. f[1] = <<>> \o c[1]
    <3>1. 1 \in 1 .. 1 /\ 1 - 1 = 0
      OBVIOUS
    <3>2. f[0] = <<>> /\ f[1] = Turn("flatten", c, 0, f[0], 1)
      BY <2>6, <3>1 DEF Runs
    <3> QED BY <3>2 DEF Turn
  <2>8. Flatten(c) = x
    BY <2>3, <2>5, <2>6, <2>7, Zenon
  <2> QED BY <2>1, <2>8, Zenon
<1> QED
  BY <1>2, <1>3, <1>5

\* An entry is read back from its own text (FromStr for CodecEntry).
LEMMA OneParsed ==
  ASSUME NEW e \in Entry
  PROVE  ParseOneEntry(EntryText(e)) = Some(e)
<1> DEFINE t == PlainText(e)
           tokens == SplitCodecString(EntryText(e))
           kept == {k \in DOMAIN tokens : tokens[k] # <<>>}
<1>1. t # <<>>
  BY EntrySpelled DEF Whole
<1>2. tokens = <<t>>
  BY OneSplit
<1>3. ParseEntry(t, FALSE).entry = Some(e)
  <2>1. ParseEntry(t, FALSE) = Read(e)
    BY EntryParsed, Zenon
  <2>2. Read(e).entry = Some(e)
    BY DEF Read
  <2> QED BY <2>1, <2>2, Zenon
<1> HIDE DEF tokens, t
<1>4. DOMAIN tokens = {1} /\ tokens[1] = t
  BY <1>2
<1>5. kept = {1}
  BY <1>1, <1>4, Zenon
<1>6. ParseOneEntry(EntryText(e)) =
        IF \E k \in kept : kept = {k} THEN ParseEntry(tokens[CHOOSE k \in kept : TRUE], FALSE).entry ELSE Nothing
  BY Zenon DEF ParseOneEntry, With, tokens
<1> HIDE DEF kept
<1>7. (\E k \in kept : kept = {k}) /\ (CHOOSE k \in kept : TRUE) = 1
  BY <1>5, Zenon
<1> QED
  BY <1>3, <1>4, <1>6, <1>7, Zenon

\* A list of entries is read back from its own text exactly as it is, and so is
\* each of its entries.
LEMMA ListRoundTrips ==
  ASSUME list \in Seq(Entry)
  PROVE  ListArrives
<1> DEFINE strict == ParseCodecString(CodecText(list), FALSE)
           lenient == ParseCodecString(CodecText(list), TRUE)
           n == Len(list)
<1>0. n \in Nat /\ MaxSwitchEntries \in Nat /\ DOMAIN list = 1 .. n /\ \A k \in 1 .. n : list[k] \in Entry
  BY CapAssumption, SMTT(30)
<1>1. /\ strict = IF n > MaxSwitchEntries THEN [list |-> Nothing, warnings |-> 0]
                  ELSE [list |-> Some(list), warnings |-> 0]
      /\ lenient = [list |-> Some(list), warnings |-> IF n > MaxSwitchEntries THEN 1 ELSE 0]
  BY ListParsed, Zenon
<1>2. \A k \in DOMAIN list : ParseOneEntry(EntryText(list[k])) = Some(list[k])
  BY <1>0, OneParsed
<1>3. Some(list) # Nothing
  BY DEF Some, Nothing
<1> HIDE DEF strict, lenient, n
<1>4. CASE n <= MaxSwitchEntries
  <2>1. ~(n > MaxSwitchEntries)
    BY <1>0, <1>4
  <2>2. strict.list = Some(list) /\ lenient.list = Some(list) /\ lenient.warnings = 0
    BY <1>1, <2>1
  <2> QED
    BY <1>2, <1>3, <1>4, <2>2, Zenon DEF ListArrives, With, strict, lenient, n
<1>5. CASE ~(n <= MaxSwitchEntries)
  <2>1. n > MaxSwitchEntries
    BY <1>0, <1>5
  <2>2. strict.list = Nothing /\ lenient.list = Some(list) /\ lenient.warnings # 0
    BY <1>1, <2>1
  <2> QED
    BY <1>2, <1>3, <1>5, <2>2, Zenon DEF ListArrives, With, strict, lenient, n
<1> QED
  BY <1>4, <1>5

-----------------------------------------------------------------------------
(***************************************************************************)
(* The edits keep entries.                                                 *)
(***************************************************************************)
\* The records that entries are, well-formed or not.
EntryRecord ==
  [modname : Option(Text), name : Text, fmtp : Option(Text), rate : Option(Numbers),
   ptime : Option(Numbers), bitrate : Option(Numbers), channels : Option(Numbers)]

\* The format parameters an entry of a given module can have.
FmtpFits(fmtp, modname) ==
  fmtp # Nothing =>
    /\ NewlineFree(fmtp[1]) /\ ~Contains(fmtp[1], "@")
    /\ NormalizeFmtpTrailingSpace(fmtp[1]) = fmtp[1]
    /\ Contains(fmtp[1], ".") => modname # Nothing

\* An entry is a record with a valid name, a valid module and fitting parameters.
LEMMA EntryIs ==
  ASSUME NEW e
  PROVE  e \in Entry <=> /\ e \in EntryRecord /\ ValidateName(e.name)
                         /\ e.modname # Nothing => CheckNameGrammar(e.modname[1])
                         /\ FmtpFits(e.fmtp, e.modname)
BY Zenon DEF Entry, EntryRecord, WellFormed, FmtpFits

\* A setter that succeeds leaves an entry.
LEMMA SettersKeepEntries ==
  ASSUME NEW entry \in Entry
  PROVE  /\ \A name \in Text : SetName(entry, name) # Nothing => SetName(entry, name)[1] \in Entry
         /\ \A name \in Text : SetModule(entry, name) # Nothing => SetModule(entry, name)[1] \in Entry
         /\ \A fmtp \in Text : SetFmtp(entry, fmtp) # Nothing => SetFmtp(entry, fmtp)[1] \in Entry
         /\ \A field \in Fields, n \in Numbers : [entry EXCEPT ![field] = Some(n)] \in Entry
         /\ \A field \in Fields : [entry EXCEPT ![field] = Nothing] \in Entry
<1>0. /\ entry \in EntryRecord /\ ValidateName(entry.name)
      /\ entry.modname # Nothing => CheckNameGrammar(entry.modname[1])
      /\ FmtpFits(entry.fmtp, entry.modname)
  BY EntryIs
<1>1. ASSUME NEW name \in Text, SetName(entry, name) # Nothing PROVE SetName(entry, name)[1] \in Entry
  <2> DEFINE r == [entry EXCEPT !.name = name]
  <2>1. ValidateName(name) /\ SetName(entry, name)[1] = r
    BY <1>1 DEF SetName, Some
  <2>2. r \in EntryRecord /\ r.name = name /\ r.modname = entry.modname /\ r.fmtp = entry.fmtp
    BY <1>0 DEF EntryRecord
  <2> HIDE DEF r
  <2> QED
    BY <1>0, <2>1, <2>2, EntryIs
<1>2. ASSUME NEW name \in Text, SetModule(entry, name) # Nothing PROVE SetModule(entry, name)[1] \in Entry
  <2> DEFINE r == [entry EXCEPT !.modname = Some(name)]
  <2>1. CheckNameGrammar(name) /\ SetModule(entry, name)[1] = r
    BY <1>2 DEF SetModule, Some
  <2>2. r \in EntryRecord /\ r.name = entry.name /\ r.modname = Some(name) /\ r.fmtp = entry.fmtp
    BY <1>0, OptionOf DEF EntryRecord
  <2>3. Some(name)[1] = name /\ Some(name) # Nothing
    BY DEF Some, Nothing
  <2> HIDE DEF r
  <2>4. FmtpFits(r.fmtp, r.modname)
    BY <1>0, <2>2, <2>3, Zenon DEF FmtpFits
  <2> QED
    BY <1>0, <2>1, <2>2, <2>3, <2>4, EntryIs, SMTT(30)
<1>3. ASSUME NEW fmtp \in Text, SetFmtp(entry, fmtp) # Nothing PROVE SetFmtp(entry, fmtp)[1] \in Entry
  <2> DEFINE kept == NormalizeFmtpTrailingSpace(fmtp)
             r == [entry EXCEPT !.fmtp = Some(kept)]
  <2>1. kept \in Text /\ NormalizeFmtpTrailingSpace(kept) = kept
    BY NormalizedIsText
  <2>2. Some(r) # Nothing /\ Some(r)[1] = r /\ Some(kept)[1] = kept
    BY DEF Some, Nothing
  <2>3. /\ SetFmtp(entry, fmtp) = Some(r)
        /\ NewlineFree(kept) /\ ~Contains(kept, "@") /\ (Contains(kept, ".") => entry.modname # Nothing)
    BY <1>3, Zenon DEF SetFmtp, With
  <2> HIDE DEF kept
  <2>4. r \in EntryRecord /\ r.name = entry.name /\ r.modname = entry.modname /\ r.fmtp = Some(kept)
    BY <1>0, <2>1, OptionOf, SMTT(30) DEF EntryRecord
  <2> HIDE DEF r
  <2>5. FmtpFits(r.fmtp, r.modname)
    BY <2>1, <2>2, <2>3, <2>4, Zenon DEF FmtpFits
  <2> QED
    BY <1>0, <2>2, <2>3, <2>4, <2>5, EntryIs, SMTT(30)
<1>4. ASSUME NEW field \in Fields, NEW v \in Option(Numbers) PROVE [entry EXCEPT ![field] = v] \in Entry
  <2> DEFINE r == [entry EXCEPT ![field] = v]
  <2>1. r \in EntryRecord /\ r.name = entry.name /\ r.modname = entry.modname /\ r.fmtp = entry.fmtp
    <3>1. CASE field = "rate"
      BY <1>0, <3>1, SMTT(30) DEF EntryRecord
    <3>2. CASE field = "ptime"
      BY <1>0, <3>2 DEF EntryRecord
    <3>3. CASE field = "bitrate"
      BY <1>0, <3>3 DEF EntryRecord
    <3>4. CASE field = "channels"
      BY <1>0, <3>4 DEF EntryRecord
    <3> QED
      BY <3>1, <3>2, <3>3, <3>4, SMTT(30) DEF Fields
  <2> HIDE DEF r
  <2>2. r \in Entry
    BY <1>0, <2>1, EntryIs
  <2> QED
    BY <2>2 DEF r
<1> QED
  BY <1>1, <1>2, <1>3, <1>4, OptionOf, Zenon

-----------------------------------------------------------------------------
(***************************************************************************)
(* What only takes away.                                                   *)
(***************************************************************************)
\* Two entries of one name, of which the second asks no more of an implementation.
Weaker(entry, after) ==
  /\ after \in Entry /\ after.name = entry.name
  /\ after.modname \in {entry.modname, Nothing}
  /\ after.rate \in {entry.rate, Nothing}
  /\ after.ptime \in {entry.ptime, Nothing}
  /\ after.bitrate \in {entry.bitrate, Nothing}
  /\ UnwrapOr(after.channels, 1) = UnwrapOr(entry.channels, 1)

\* A weaker entry matches every implementation the other one does.
LEMMA WeakerMatches ==
  ASSUME NEW entry \in Entry, NEW after, Weaker(entry, after), NEW imps, Available(entry, imps)
  PROVE  Available(after, imps)
<1>1. PICK imp \in imps : MatchesImplementation(entry, imp)
  BY DEF Available
<1>2. /\ after.name = entry.name /\ after.modname \in {entry.modname, Nothing}
      /\ UnwrapOr(after.channels, 1) = UnwrapOr(entry.channels, 1)
  BY DEF Weaker
<1>3. ASSUME NEW v, NEW w \in {v, Nothing}, NEW loaded, ~Disagree(Nonzero(v), loaded)
      PROVE  ~Disagree(Nonzero(w), loaded)
  <2>1. Nonzero(Nothing) = Nothing
    BY SMTT(30) DEF Nonzero, Nothing, Some
  <2> QED
    BY <1>3, <2>1, Zenon DEF Disagree
<1>4. ASSUME ~Disagree(Nonzero(entry.rate), imp.rate) PROVE ~Disagree(Nonzero(after.rate), imp.rate)
  BY <1>3, <1>4, SMTT(30) DEF Weaker
<1>5. ASSUME ~Disagree(Nonzero(entry.ptime), imp.ptime) PROVE ~Disagree(Nonzero(after.ptime), imp.ptime)
  BY <1>3, <1>5, SMTT(30) DEF Weaker
<1>6. ASSUME ~Disagree(Nonzero(entry.bitrate), imp.bitrate) PROVE ~Disagree(Nonzero(after.bitrate), imp.bitrate)
  BY <1>3, <1>6 DEF Weaker
<1>7. MatchesImplementation(after, imp)
  BY <1>1, <1>2, <1>4, <1>5, <1>6, Zenon DEF MatchesImplementation
<1> QED
  BY <1>7 DEF Available

\* simplify() and the clears of rate, ptime, bitrate, fmtp and module weaken.
LEMMA ClearsWeaken ==
  ASSUME NEW entry \in Entry
  PROVE  /\ Weaker(entry, Simplify(entry))
         /\ Weaker(entry, ClearFmtp(entry))
         /\ ClearModule(entry) # Nothing => Weaker(entry, ClearModule(entry)[1])
         /\ \A field \in Fields \ {"channels"} : Weaker(entry, [entry EXCEPT ![field] = Nothing])
<1>0. /\ Nothing \in Option(Numbers) /\ Nothing \in Option(Text)
      /\ entry \in EntryRecord /\ ValidateName(entry.name)
      /\ entry.modname # Nothing => CheckNameGrammar(entry.modname[1])
      /\ FmtpFits(entry.fmtp, entry.modname)
  BY EntryIs, OptionOf
<1>1. Weaker(entry, Simplify(entry))
  <2>1. CASE LowerText(entry.name) = <<"g722">>
    BY <2>1 DEF Simplify, Weaker
  <2>2. CASE LowerText(entry.name) # <<"g722">>
    <3> DEFINE rate == IF entry.rate = Some(DefaultRate(entry.name)) THEN Nothing ELSE entry.rate
               ptime == IF entry.ptime = Some(DefaultPtime(entry.name)) THEN Nothing ELSE entry.ptime
               channels == IF entry.channels = Some(1) THEN Nothing ELSE entry.channels
               r == [entry EXCEPT !.rate = rate, !.ptime = ptime, !.channels = channels]
    <3>1. Simplify(entry) = r
      BY <1>0, <2>2, SMTT(30) DEF Simplify, EntryRecord
    <3>2. /\ rate \in Option(Numbers) /\ ptime \in Option(Numbers) /\ channels \in Option(Numbers)
          /\ rate \in {entry.rate, Nothing} /\ ptime \in {entry.ptime, Nothing}
      BY <1>0 DEF EntryRecord
    <3>3. UnwrapOr(channels, 1) = UnwrapOr(entry.channels, 1)
      BY DEF UnwrapOr, Some, Nothing
    <3> HIDE DEF rate, ptime, channels
    <3>4. /\ r \in EntryRecord /\ r.name = entry.name /\ r.modname = entry.modname /\ r.fmtp = entry.fmtp
          /\ r.rate = rate /\ r.ptime = ptime /\ r.channels = channels /\ r.bitrate = entry.bitrate
      BY <1>0, <3>2, Zenon DEF EntryRecord
    <3> HIDE DEF r
    <3>5. r \in Entry
      BY <1>0, <3>4, EntryIs
    <3> QED
      BY <3>1, <3>2, <3>3, <3>4, <3>5, Zenon DEF Weaker
  <2> QED
    BY <2>1, <2>2
<1>2. Weaker(entry, ClearFmtp(entry))
  <2> DEFINE r == [entry EXCEPT !.fmtp = Nothing]
  <2>1. /\ r \in EntryRecord /\ r.name = entry.name /\ r.modname = entry.modname /\ r.fmtp = Nothing
        /\ r.rate = entry.rate /\ r.ptime = entry.ptime /\ r.channels = entry.channels /\ r.bitrate = entry.bitrate
    BY <1>0 DEF EntryRecord
  <2> HIDE DEF r
  <2>2. FmtpFits(r.fmtp, r.modname)
    BY <2>1, Zenon DEF FmtpFits
  <2>3. r \in Entry
    BY <1>0, <2>1, <2>2, EntryIs
  <2> QED
    BY <2>1, <2>3 DEF ClearFmtp, Weaker, r
<1>3. ASSUME ClearModule(entry) # Nothing PROVE Weaker(entry, ClearModule(entry)[1])
  <2> DEFINE r == [entry EXCEPT !.modname = Nothing]
  <2>1. ClearModule(entry)[1] = r /\ ~Contains(UnwrapOr(entry.fmtp, <<>>), ".")
    BY <1>3 DEF ClearModule, Some
  <2>2. /\ r \in EntryRecord /\ r.name = entry.name /\ r.modname = Nothing /\ r.fmtp = entry.fmtp
        /\ r.rate = entry.rate /\ r.ptime = entry.ptime /\ r.channels = entry.channels /\ r.bitrate = entry.bitrate
    BY <1>0 DEF EntryRecord
  <2> HIDE DEF r
  <2>3. FmtpFits(r.fmtp, r.modname)
    BY <1>0, <2>1, <2>2, Zenon DEF FmtpFits, UnwrapOr
  <2>4. r \in Entry
    BY <1>0, <2>2, <2>3, EntryIs, SMTT(30)
  <2> QED
    BY <2>1, <2>2, <2>4 DEF Weaker
<1>4. ASSUME NEW field \in Fields \ {"channels"} PROVE Weaker(entry, [entry EXCEPT ![field] = Nothing])
  <2>0. [entry EXCEPT ![field] = Nothing] \in Entry
    BY SettersKeepEntries, SMTT(30)
  <2>1. CASE field = "rate"
    BY <1>0, <2>0, <2>1, SMTT(30) DEF Weaker, EntryRecord
  <2>2. CASE field = "ptime"
    BY <1>0, <2>0, <2>2, SMTT(30) DEF Weaker, EntryRecord
  <2>3. CASE field = "bitrate"
    BY <1>0, <2>0, <2>3, SMTT(30) DEF Weaker, EntryRecord
  <2> QED
    BY <2>1, <2>2, <2>3, SMTT(30) DEF Fields
<1> QED
  BY <1>1, <1>2, <1>3, <1>4, SMTT(30)

\* dedup() adds no entry, and leaves one of every key.
LEMMA DedupKeepsKeys ==
  ASSUME NEW s \in Seq(Entry)
  PROVE  /\ Dedup(s) \in Seq(Entry) /\ Range(Dedup(s)) \subseteq Range(s)
         /\ \A e \in Range(s) : \E d \in Range(Dedup(s)) : DedupKey(d) = DedupKey(e)
<1> DEFINE P == {x \in DOMAIN s : \A y \in 1 .. (x - 1) : DedupKey(s[y]) # DedupKey(s[x])}
<1>1. Dedup(s) \in Seq(Entry) /\ Range(Dedup(s)) = {s[i] : i \in DOMAIN s \cap P}
  BY ChosenRange, Zenon DEF Dedup
<1>2. Range(Dedup(s)) \subseteq Range(s)
  BY <1>1, Zenon DEF Range
<1>3. ASSUME NEW k \in DOMAIN s PROVE \E d \in Range(Dedup(s)) : DedupKey(d) = DedupKey(s[k])
  <2> DEFINE same == {i \in DOMAIN s : DedupKey(s[i]) = DedupKey(s[k])}
  <2>0. DOMAIN s = 1 .. Len(s) /\ Len(s) \in Nat
    OBVIOUS
  <2>1. same \in SUBSET Nat /\ same # {}
    BY <2>0
  <2>2. PICK m \in same : \A n \in same : m <= n
    <3> HIDE DEF same
    <3> QED BY <2>1, LeastOf, SMTT(30)
  <2>3. m \in DOMAIN s /\ DedupKey(s[m]) = DedupKey(s[k])
    OBVIOUS
  <2>4. ASSUME NEW y \in 1 .. (m - 1) PROVE DedupKey(s[y]) # DedupKey(s[m])
    <3>1. y \in DOMAIN s /\ ~(m <= y)
      BY <2>0, <2>3, SMTT(30)
    <3>2. y \notin same
      <4> HIDE DEF same
      <4> QED BY <2>2, <3>1, SMTT(30)
    <3> QED
      BY <2>3, <3>1, <3>2, SMTT(30)
  <2>5. m \in DOMAIN s \cap P
    BY <2>3, <2>4, SMTT(30)
  <2> HIDE DEF P
  <2>6. s[m] \in Range(Dedup(s))
    BY <1>1, <2>5, SMTT(30)
  <2> QED
    BY <2>3, <2>6
<1> QED
  BY <1>1, <1>2, <1>3, Zenon DEF Range

-----------------------------------------------------------------------------
(***************************************************************************)
(* The steps.                                                              *)
(***************************************************************************)
\* An edit ends what retain_available() found; all it has to leave is a list.
LEMMA EditKeeps ==
  ASSUME NEW after \in Seq(Entry), Edit(after), policy' \in Seq(Entry)
  PROVE  VInv'
BY DEF Edit, VInv, ListsType, VettedStays

\* The edits of the list as a whole.
LEMMA ListEdits ==
  ASSUME VInv,
         PushEntry \/ InsertEntry \/ RemoveEntry \/ ClearList \/ Retain \/ ExtendFrom \/ AppendList
  PROVE  VInv'
<1> USE EntriesAssumption
<1>0. list \in Seq(Entry) /\ policy \in Seq(Entry) /\ <<>> \in Seq(Entry)
  BY DEF VInv, ListsType
<1>1. CASE PushEntry
  <2>1. PICK entry \in NewEntries : Push(list, entry) # Nothing /\ Edit(Push(list, entry)[1])
    BY <1>1 DEF PushEntry
  <2>2. Push(list, entry)[1] = Append(list, entry)
    BY <2>1 DEF Push, Some
  <2>3. Append(list, entry) \in Seq(Entry)
    BY <1>0
  <2> QED
    BY <1>0, <1>1, <2>1, <2>2, <2>3, EditKeeps, Zenon DEF PushEntry
<1>2. CASE InsertEntry
  <2>1. PICK entry \in NewEntries, index \in 0 .. Len(list) : Edit(InsertAt(list, index, entry))
    BY <1>2 DEF InsertEntry
  <2>2. /\ SubSeq(list, 1, index) \in Seq(Entry) /\ SubSeq(list, index + 1, Len(list)) \in Seq(Entry)
        /\ <<entry>> \in Seq(Entry)
    BY <1>0
  <2>3. InsertAt(list, index, entry) \in Seq(Entry)
    BY <2>2, SMTT(30) DEF InsertAt
  <2> QED
    BY <1>0, <1>2, <2>1, <2>3, EditKeeps, SMTT(30) DEF InsertEntry
<1>3. CASE RemoveEntry
  <2>1. PICK index \in DOMAIN list : Edit(Chosen(list, DOMAIN list \ {index}))
    BY <1>3, Zenon DEF RemoveEntry
  <2>2. Chosen(list, DOMAIN list \ {index}) \in Seq(Entry)
    BY <1>0, ChosenRange
  <2> QED
    BY <1>0, <1>3, <2>1, <2>2, EditKeeps, SMTT(30) DEF RemoveEntry
<1>4. CASE ClearList
  BY <1>0, <1>4, EditKeeps, Zenon DEF ClearList
<1>5. CASE Retain
  <2>1. PICK kept \in SUBSET DOMAIN list : Edit(Chosen(list, kept))
    BY <1>5 DEF Retain
  <2>2. Chosen(list, kept) \in Seq(Entry)
    BY <1>0, ChosenRange
  <2> QED
    BY <1>0, <1>5, <2>1, <2>2, EditKeeps, SMTT(30) DEF Retain
<1>6. list \o policy \in Seq(Entry)
  BY <1>0
<1>7. CASE ExtendFrom
  BY <1>0, <1>6, <1>7, EditKeeps, Zenon DEF ExtendFrom
<1>8. CASE AppendList
  BY <1>0, <1>6, <1>8, EditKeeps, Zenon DEF AppendList
<1> QED
  BY <1>1, <1>2, <1>3, <1>4, <1>5, <1>7, <1>8, SMTT(30)

\* The setters of one entry.
LEMMA EntryEdits ==
  ASSUME VInv, SetEntryName \/ SetEntryModule \/ SetEntryFmtp \/ SetQualifier \/ ClearChannels
  PROVE  VInv'
<1> USE EntriesAssumption
<1>0. list \in Seq(Entry) /\ policy \in Seq(Entry) /\ \A k \in DOMAIN list : list[k] \in Entry
  BY DEF VInv, ListsType
<1>1. ASSUME NEW k \in DOMAIN list, NEW result, Becomes(k, result), result[1] \in Entry PROVE VInv'
  <2>1. [list EXCEPT ![k] = result[1]] \in Seq(Entry)
    BY <1>0, <1>1, SMTT(30)
  <2> QED
    BY <1>0, <1>1, <2>1, EditKeeps, SMTT(30) DEF Becomes
<1>2. CASE SetEntryName
  <2>1. PICK k \in DOMAIN list, name \in NewNames : Becomes(k, SetName(list[k], name))
    BY <1>2, SMTT(30) DEF SetEntryName
  <2>2. SetName(list[k], name)[1] \in Entry
    BY <1>0, <2>1, SettersKeepEntries, SMTT(30) DEF Becomes
  <2> QED
    BY <1>1, <2>1, <2>2, SMTT(30)
<1>3. CASE SetEntryModule
  <2>1. PICK k \in DOMAIN list, name \in NewModules : Becomes(k, SetModule(list[k], name))
    BY <1>3, SMTT(30) DEF SetEntryModule
  <2>2. SetModule(list[k], name)[1] \in Entry
    BY <1>0, <2>1, SettersKeepEntries, SMTT(30) DEF Becomes
  <2> QED
    BY <1>1, <2>1, <2>2, SMTT(30)
<1>4. CASE SetEntryFmtp
  <2>1. PICK k \in DOMAIN list, fmtp \in NewFmtps : Becomes(k, SetFmtp(list[k], fmtp))
    BY <1>4, SMTT(30) DEF SetEntryFmtp
  <2>2. SetFmtp(list[k], fmtp)[1] \in Entry
    BY <1>0, <2>1, SettersKeepEntries, SMTT(30) DEF Becomes
  <2> QED
    BY <1>1, <2>1, <2>2, SMTT(30)
<1>5. CASE SetQualifier
  <2>1. PICK k \in DOMAIN list, q \in Qualifiers : Becomes(k, Some([list[k] EXCEPT ![q[1]] = Some(q[2])]))
    BY <1>5, Zenon DEF SetQualifier
  <2>2. q[1] \in Fields /\ q[2] \in Numbers
    OBVIOUS
  <2>3. [list[k] EXCEPT ![q[1]] = Some(q[2])] \in Entry
    BY <1>0, <2>2, SettersKeepEntries, Zenon
  <2> QED
    BY <1>1, <2>1, <2>3, SMTT(30) DEF Some
<1>6. CASE ClearChannels
  <2>1. PICK k \in DOMAIN list : Becomes(k, Some([list[k] EXCEPT !.channels = Nothing]))
    BY <1>6 DEF ClearChannels
  <2>2. [list[k] EXCEPT !.channels = Nothing] \in Entry
    <3>1. "channels" \in Fields
      BY DEF Fields
    <3> QED
      BY <1>0, <3>1, SettersKeepEntries, Zenon
  <2> QED
    BY <1>1, <2>1, <2>2, SMTT(30) DEF Some
<1> QED
  BY <1>2, <1>3, <1>4, <1>5, <1>6, SMTT(30)

\* An entry is replaced by a weaker one.
LEMMA NarrowKeeps ==
  ASSUME VInv, NEW k \in DOMAIN list, NEW after, Weaker(list[k], after),
         Narrow([list EXCEPT ![k] = after])
  PROVE  VInv'
<1>0. /\ list \in Seq(Entry) /\ policy \in Seq(Entry) /\ after \in Entry /\ after.name = list[k].name
      /\ \A j \in DOMAIN list : list[j] \in Entry
  BY DEF VInv, ListsType, Weaker
<1>1. list' = [list EXCEPT ![k] = after] /\ policy' = policy /\ vetted' = vetted
  BY DEF Narrow
<1>2. list' \in Seq(Entry) /\ DOMAIN list' = DOMAIN list
  BY <1>0, <1>1, SMTT(30)
<1>3. list'[k] = after /\ \A j \in DOMAIN list : j # k => list'[j] = list[j]
  BY <1>0, <1>1
<1>4. Names(list') = Names(list)
  <2>1. \A j \in DOMAIN list : list'[j].name = list[j].name
    BY <1>0, <1>3, SMTT(30)
  <2> QED
    BY <1>2, <2>1, Zenon DEF Names
<1>5. ASSUME vetted # Nothing PROVE \A j \in DOMAIN list' : Available(list'[j], vetted[1].imps)
  <2>1. \A j \in DOMAIN list : Available(list[j], vetted[1].imps)
    BY <1>5 DEF VInv, VettedStays
  <2>2. Available(after, vetted[1].imps)
    <3>1. list[k] \in Entry /\ Available(list[k], vetted[1].imps) /\ Weaker(list[k], after)
      BY <1>0, <2>1, SMTT(30)
    <3> QED
      BY <3>1, WeakerMatches, SMTT(30)
  <2> QED
    BY <1>2, <1>3, <2>1, <2>2, Zenon
<1>6. VettedStays'
  BY <1>1, <1>4, <1>5, SMTT(30) DEF VInv, VettedStays
<1> QED
  BY <1>0, <1>1, <1>2, <1>6, SMTT(30) DEF VInv, ListsType

\* dedup() drops no entry that was the last of its name, and keeps the others as they are.
LEMMA DedupKeeps ==
  ASSUME VInv, DedupList
  PROVE  VInv'
<1>0. list \in Seq(Entry) /\ policy \in Seq(Entry)
  BY DEF VInv, ListsType
<1>1. list' = Dedup(list) /\ policy' = policy /\ vetted' = vetted
  BY DEF DedupList, Narrow
<1>2. /\ list' \in Seq(Entry) /\ Range(list') \subseteq Range(list)
      /\ \A e \in Range(list) : \E d \in Range(list') : DedupKey(d) = DedupKey(e)
  BY <1>0, <1>1, DedupKeepsKeys, SMTT(30)
<1>3. \A d, e : DedupKey(d) = DedupKey(e) => LowerText(d.name) = LowerText(e.name)
  BY DEF DedupKey
<1>4. Names(list') = Names(list)
  <2>1. \A s : Names(s) = {LowerText(e.name) : e \in Range(s)}
    BY Zenon DEF Names, Range
  <2>2. {LowerText(d.name) : d \in Range(list')} = {LowerText(e.name) : e \in Range(list)}
    <3>1. ASSUME NEW e \in Range(list) PROVE \E d \in Range(list') : LowerText(d.name) = LowerText(e.name)
      <4>1. PICK d \in Range(list') : DedupKey(d) = DedupKey(e)
        BY <1>2
      <4> QED
        BY <1>3, <4>1, SMTT(30)
    <3> QED
      BY <1>2, <3>1, SMTT(30)
  <2> QED
    BY <2>1, <2>2, Zenon
<1>5. ASSUME vetted # Nothing PROVE \A j \in DOMAIN list' : Available(list'[j], vetted[1].imps)
  <2>1. \A j \in DOMAIN list : Available(list[j], vetted[1].imps)
    BY <1>5 DEF VInv, VettedStays
  <2>2. \A e \in Range(list) : Available(e, vetted[1].imps)
    BY <2>1, Zenon DEF Range
  <2>3. \A j \in DOMAIN list' : list'[j] \in Range(list)
    BY <1>2, Zenon DEF Range
  <2> QED
    BY <2>2, <2>3, Zenon
<1>6. VettedStays'
  BY <1>1, <1>4, <1>5, SMTT(30) DEF VInv, VettedStays
<1> QED
  BY <1>0, <1>1, <1>2, <1>6, SMTT(30) DEF VInv, ListsType

\* The steps that only take away from one entry, or drop duplicates.
LEMMA Narrowings ==
  ASSUME VInv,
         DedupList \/ SimplifyEntry \/ ClearQualifier \/ ClearEntryFmtp \/ ClearEntryModule
  PROVE  VInv'
<1>0. \A k \in DOMAIN list : list[k] \in Entry
  BY DEF VInv, ListsType
<1>1. CASE SimplifyEntry
  <2>1. PICK k \in DOMAIN list : Narrow([list EXCEPT ![k] = Simplify(list[k])])
    BY <1>1, SMTT(30) DEF SimplifyEntry
  <2>2. Weaker(list[k], Simplify(list[k]))
    BY <1>0, ClearsWeaken
  <2> QED
    BY <2>1, <2>2, NarrowKeeps, SMTT(30)
<1>2. CASE ClearQualifier
  <2>1. PICK k \in DOMAIN list, field \in Fields \ {"channels"} :
               Narrow([list EXCEPT ![k] = [list[k] EXCEPT ![field] = Nothing]])
    BY <1>2, Zenon DEF ClearQualifier
  <2>2. Weaker(list[k], [list[k] EXCEPT ![field] = Nothing])
    BY <1>0, ClearsWeaken, Zenon
  <2> QED
    BY <2>1, <2>2, NarrowKeeps, Zenon
<1>3. CASE ClearEntryFmtp
  <2>1. PICK k \in DOMAIN list : Narrow([list EXCEPT ![k] = ClearFmtp(list[k])])
    BY <1>3, SMTT(30) DEF ClearEntryFmtp
  <2>2. Weaker(list[k], ClearFmtp(list[k]))
    BY <1>0, ClearsWeaken, SMTT(30)
  <2> QED
    BY <2>1, <2>2, NarrowKeeps
<1>4. CASE ClearEntryModule
  <2>1. PICK k \in DOMAIN list :
               ClearModule(list[k]) # Nothing /\ Narrow([list EXCEPT ![k] = ClearModule(list[k])[1]])
    BY <1>4 DEF ClearEntryModule
  <2>2. Weaker(list[k], ClearModule(list[k])[1])
    BY <1>0, <2>1, ClearsWeaken, SMTT(30)
  <2> QED
    BY <2>1, <2>2, NarrowKeeps, SMTT(30)
<1> QED
  BY <1>1, <1>2, <1>3, <1>4, DedupKeeps, SMTT(30)

\* retain_available() leaves what matches the table, whatever the list was.
LEMMA Vets ==
  ASSUME VInv, RetainAvailableEntries
  PROVE  VInv'
<1>0. list \in Seq(Entry) /\ policy \in Seq(Entry)
  BY DEF VInv, ListsType
<1>1. PICK imps \in Tables :
        /\ list' = RetainAvailable(list, imps)
        /\ vetted' = Some([imps |-> imps, names |-> Names(RetainAvailable(list, imps))])
  BY DEF RetainAvailableEntries
<1>2. vetted'[1].imps = imps /\ vetted'[1].names = Names(list')
  BY <1>1 DEF Some
<1> DEFINE P == {k \in DOMAIN list : Available(list[k], imps)}
<1>3. list' \in Seq(Entry) /\ Range(list') = {list[i] : i \in DOMAIN list \cap P}
  BY <1>0, <1>1, ChosenRange, Zenon DEF RetainAvailable
<1>4. \A e \in Range(list') : Available(e, imps)
  BY <1>3, Zenon
<1>5. \A k \in DOMAIN list' : Available(list'[k], imps)
  BY <1>4, Zenon DEF Range
<1>6. VettedStays'
  BY <1>2, <1>5, SMTT(30) DEF VettedStays
<1>7. policy' = policy
  BY DEF RetainAvailableEntries
<1> QED
  BY <1>0, <1>3, <1>6, <1>7, SMTT(30) DEF VInv, ListsType

\* The inductive invariant: the lists hold entries, and what the last
\* retain_available() left still matches.
THEOREM CodecEditsInvariant == EditSpec => []VInv
<1>1. EditInit => VInv
  <2> SUFFICES ASSUME EditInit PROVE VInv
    OBVIOUS
  <2>1. list = <<>> /\ policy \in Seq(Entry) /\ vetted = Nothing
    BY EntriesAssumption DEF EditInit
  <2> QED
    BY <2>1 DEF VInv, ListsType, VettedStays
<1>2. VInv /\ [EditNext]_editVars => VInv'
  <2> SUFFICES ASSUME VInv, [EditNext]_editVars PROVE VInv'
    OBVIOUS
  <2>1. CASE EditStep
    BY <2>1, ListEdits, EntryEdits, Narrowings, Vets, SMTT(30) DEF EditStep
  <2>2. ASSUME NEW after \in Seq(Entry), Load(after) PROVE VInv'
    BY <2>2, SMTT(30) DEF Load, VInv, ListsType, VettedStays
  <2>3. CASE UNCHANGED editVars
    BY <2>3 DEF editVars, VInv, ListsType, VettedStays, Names, Available
  <2> QED
    BY <2>1, <2>2, <2>3, SMTT(30) DEF EditNext
<1> QED
  BY <1>1, <1>2, PTL DEF EditSpec

\* After retain_available(), whatever dedup(), simplify() and the clears do, every
\* entry matches an implementation of that table and no name is lost.
THEOREM WhatWasVettedStays == EditSpec => []VettedStays
BY CodecEditsInvariant, PTL DEF VInv

\* Whatever list is loaded and whatever edits it has had, a list the switch has
\* room for is read back from its own text as it is, strictly and leniently; a
\* longer one is refused strictly and warned about leniently; each entry is read
\* back from its own text (Display and FromStr of CodecString and CodecEntry).
THEOREM EveryListArrives == EditSpec => []ListArrives
<1>1. VInv => ListArrives
  BY ListRoundTrips DEF VInv, ListsType
<1> QED
  BY <1>1, CodecEditsInvariant, PTL

=============================================================================
