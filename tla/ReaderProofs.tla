----------------------------- MODULE ReaderProofs -----------------------------
(***************************************************************************)
(* Proofs about the reader task: what it makes of the stream, how it hands *)
(* the stream over, and its liveness timer.                                *)
(*                                                                         *)
(* Framing is exact for every stream, every way of cutting it into reads   *)
(* and every hand-over.  The invariant ties the buffer to the layout of    *)
(* the stream: `lo` is at the next message or at its body, what lies       *)
(* before the watermark holds no terminator, and a reader that goes back   *)
(* to the socket is short of the next header block or body.                *)
(*                                                                         *)
(* The timer is exact for every tick, budget and timeout and for every     *)
(* interleaving of arrivals, stalls and changes of the timeout (the last   *)
(* section).                                                               *)
(***************************************************************************)
EXTENDS Reexec, Liveness, TLAPS

M == Len(out)
EndOfHeaders(k) == Start[k] + HdrLen[k]

\* Where the next byte to be consumed is in the layout.
Position ==
  /\ state = "WaitingForHeaders" => lo = Start[M + 1]
  /\ state = "WaitingForBody" =>
       /\ M < N /\ ~Rejected(M + 1)
       /\ lo = EndOfHeaders(M + 1) + 2
       /\ body_length = BodyLen[M + 1]
       /\ headers = <<Start[M + 1], EndOfHeaders(M + 1)>>
       /\ scan_offset = 0

\* No terminator lies wholly before the watermark.
Scanned ==
  state = "WaitingForHeaders" => \A p \in Nat : lo <= p /\ p + 1 < lo + scan_offset => ~Terminator(p)

\* What the reader waits for when it goes back to the socket.
Short ==
  pc = "read" =>
    /\ state = "WaitingForHeaders" => M = N \/ hi < EndOfHeaders(M + 1) + 2
    /\ state = "WaitingForBody" => hi - lo < body_length

IInv ==
  /\ TypeOK /\ FramesExact /\ NoSpuriousFailure
  /\ pc # "failed" => Position /\ Scanned /\ Short

\* The layout around one message.
LEMMA LayoutOf ==
  ASSUME NEW i \in 1 .. N
  PROVE  /\ N \in Nat /\ i \in Nat /\ i + 1 \in 1 .. N + 1
         /\ Start[i] \in Nat /\ HdrLen[i] \in Nat /\ BodyLen[i] \in Nat
         /\ Start[i + 1] \in Nat /\ Start[i + 1] <= Total /\ Total \in Nat
         /\ EndOfHeaders(i) = Start[i] + HdrLen[i]
         /\ Start[i + 1] = EndOfHeaders(i) + 2 + BodyLen[i]
         /\ Terminator(EndOfHeaders(i))
         /\ \A q \in Start[i] .. EndOfHeaders(i) - 1 : ~Terminator(q)
<1>1. N \in Nat /\ i \in Nat /\ i + 1 \in 1 .. N + 1 /\ N + 1 \in 1 .. N + 1 /\ i \in 1 .. N + 1
  BY LayoutAssumption
<1>2. Start[i] \in Nat /\ HdrLen[i] \in Nat /\ BodyLen[i] \in Nat /\ Start[i + 1] \in Nat /\ Total \in Nat
  BY <1>1, LayoutAssumption, SMTT(30) DEF Total
<1>3. Start[i + 1] <= Total
  BY <1>1, LayoutAssumption DEF Total
<1>4. Start[i + 1] = Start[i] + HdrLen[i] + 2 + BodyLen[i]
  BY LayoutAssumption
<1>5. /\ Terminator(Start[i] + HdrLen[i])
      /\ \A q \in Start[i] .. Start[i] + HdrLen[i] - 1 : ~Terminator(q)
  BY LayoutAssumption, Zenon
<1> QED
  BY <1>1, <1>2, <1>3, <1>4, <1>5 DEF EndOfHeaders

\* Messages start at different places.
LEMMA StartsDiffer ==
  ASSUME NEW i \in 1 .. N, NEW j \in 1 .. N, i < j
  PROVE  Start[i] < Start[j]
<1>1. i + 1 <= j /\ i + 1 \in 1 .. N + 1 /\ j \in 1 .. N + 1
  BY LayoutAssumption
<1>2. Start[i + 1] <= Start[j]
  BY <1>1, LayoutAssumption
<1>3. Start[i] < Start[i + 1]
  BY LayoutOf
<1> QED
  BY <1>1, <1>2, <1>3, LayoutOf

\* Init satisfies the invariant.
LEMMA InitIInv == Init => IInv
  BY LayoutAssumption DEF Init, IInv, TypeOK, FramesExact, NoSpuriousFailure, Position, Scanned, Short, M, Total, BufferLen

\* The first terminator the search finds is the one that ends the header block
\* of the next message.
LEMMA SearchExact ==
  ASSUME IInv, pc = "parse", state = "WaitingForHeaders",
         NEW p \in Matches, \A q \in Matches : p <= q
  PROVE  M < N /\ p = EndOfHeaders(M + 1) /\ lo = Start[M + 1] /\ p + 2 <= hi /\ p \in Nat
<1> USE DEF Matches, SearchFrom
<1>0. /\ lo \in Nat /\ hi \in Nat /\ lo <= hi /\ hi <= Total /\ scan_offset \in 0 .. (hi - lo)
      /\ lo = Start[M + 1] /\ M \in 0 .. N
  BY DEF IInv, TypeOK, FramesExact, Position, M, BufferLen
<1>1. p \in Nat /\ lo <= p /\ p + 2 <= hi /\ Terminator(p)
  BY <1>0
<1>2. M < N
  BY <1>0, <1>1, LayoutAssumption, SMTT(30) DEF Total
<1>3. M + 1 \in 1 .. N
  BY <1>0, <1>2, LayoutAssumption
<1>4. /\ EndOfHeaders(M + 1) \in Nat /\ Terminator(EndOfHeaders(M + 1))
      /\ \A q \in Start[M + 1] .. EndOfHeaders(M + 1) - 1 : ~Terminator(q)
      /\ EndOfHeaders(M + 1) >= lo
  BY <1>0, <1>3, LayoutOf
<1>5. p >= EndOfHeaders(M + 1)
  BY <1>0, <1>1, <1>4
<1>6. EndOfHeaders(M + 1) >= SearchFrom
  BY <1>0, <1>4 DEF IInv, Scanned
<1>7. EndOfHeaders(M + 1) \in Matches
  BY <1>0, <1>1, <1>4, <1>5, <1>6
<1> QED
  BY <1>0, <1>1, <1>2, <1>4, <1>5, <1>7

\* The number of messages handed out.
LEMMA Handed == IInv => N \in Nat /\ M \in Nat /\ M <= N
<1>1. N \in Nat
  BY LayoutAssumption
<1>2. out \in Seq([headers : Nat \X Nat, body : Nat \X Nat]) => Len(out) \in Nat
  OBVIOUS
<1> QED
  BY <1>1, <1>2 DEF IInv, TypeOK, FramesExact, M

\* A header block is that of one message only.
LEMMA BlockOf ==
  ASSUME NEW i \in 1 .. N
  PROVE  HeaderBlock(Start[i], EndOfHeaders(i)) = {i}
<1>1. ASSUME NEW j \in 1 .. N, Start[j] = Start[i] PROVE j = i
  <2>1. i \in Nat /\ j \in Nat /\ Start[i] \in Nat
    BY LayoutOf
  <2> QED
    BY <1>1, <2>1, StartsDiffer
<1> QED
  BY <1>1 DEF HeaderBlock, EndOfHeaders

\* Handing out the next message whole, with nothing left before the watermark,
\* preserves the invariant.
LEMMA Delivers ==
  ASSUME IInv, NEW hdr \in Nat \X Nat, NEW from \in Nat,
         M < N, hdr = <<Start[M + 1], EndOfHeaders(M + 1)>>, from = EndOfHeaders(M + 1) + 2,
         lo' = Start[M + 2], lo' <= hi, hi' = hi, scan_offset' = 0, strict' = strict, Decode(hdr, from)
  PROVE  IInv'
<1> DEFINE f == [headers |-> hdr, body |-> <<from, lo'>>]
<1>1. M \in Nat /\ M + 1 \in 1 .. N /\ M + 1 + 1 = M + 2 /\ N \in Nat
  BY Handed
<1>2. lo' \in Nat
  BY <1>1, LayoutOf
<1>3. f \in [headers : Nat \X Nat, body : Nat \X Nat]
  BY <1>2
<1>4. f = Frame(M + 1)
  BY <1>1 DEF Frame, EndOfHeaders
<1>a. HeaderBlock(hdr[1], hdr[2]) = {M + 1}
  BY <1>1, BlockOf
<1>b. CASE Undecodable(M + 1) /\ Fail
  <2>1. /\ pc' = "failed" /\ state' = "WaitingForHeaders" /\ out' = out
        /\ headers' = <<0, 0>> /\ body_length' = 0
    BY <1>b DEF Fail
  <2>2. TypeOK'
    BY <1>2, <2>1, SMTT(30) DEF IInv, TypeOK, BufferLen
  <2>3. FramesExact' /\ NoSpuriousFailure'
    BY <1>b, <2>1 DEF IInv, FramesExact, NoSpuriousFailure, M, Undecodable
  <2> QED
    BY <2>1, <2>2, <2>3 DEF IInv
<1> SUFFICES ASSUME Deliver(hdr, from, lo') PROVE IInv'
  BY <1>a, <1>b DEF Decode
<1>5. /\ out' = Append(out, f) /\ pc' = "parse" /\ state' = "WaitingForHeaders"
      /\ headers' = <<0, 0>> /\ body_length' = 0
  BY DEF Deliver
<1> HIDE DEF f
<1>6. out' \in Seq([headers : Nat \X Nat, body : Nat \X Nat]) /\ Len(out') = M + 1
  BY <1>3, <1>5 DEF IInv, TypeOK, M
<1>7. \A k \in 1 .. Len(out') : out'[k] = Frame(k)
  <2> SUFFICES ASSUME NEW k \in 1 .. Len(out') PROVE out'[k] = Frame(k)
    OBVIOUS
  <2>1. CASE k = M + 1
    BY <1>1, <1>4, <1>5, <2>1 DEF IInv, TypeOK, M
  <2>2. CASE k \in 1 .. M
    <3>1. out'[k] = out[k]
      BY <1>5, <2>2 DEF IInv, TypeOK, M
    <3> QED
      BY <2>2, <3>1 DEF IInv, FramesExact, M
  <2> QED
    BY <1>1, <1>6, <2>1, <2>2
<1>8. TypeOK'
  <2>1. /\ lo' \in Nat /\ hi' \in Nat /\ lo' <= hi' /\ hi' <= Total
        /\ scan_offset' \in 0 .. BufferLen'
    BY <1>2 DEF IInv, TypeOK, BufferLen
  <2>2. strict' \in BOOLEAN
    BY <1>2 DEF IInv, TypeOK
  <2>3. /\ state' \in {"WaitingForHeaders", "WaitingForBody"} /\ pc' \in {"parse", "read", "failed"}
        /\ headers' \in Nat \X Nat /\ body_length' \in Nat
    BY <1>5
  <2> QED
    BY <1>6, <2>1, <2>2, <2>3, SMTT(30) DEF TypeOK
<1>9. FramesExact' /\ M' = M + 1
  BY <1>1, <1>6, <1>7 DEF FramesExact, M
<1>10. NoSpuriousFailure' /\ Short'
  BY <1>5 DEF NoSpuriousFailure, Short
<1>11. Position'
  BY <1>1, <1>5, <1>9 DEF Position
<1>12. Scanned'
  BY <1>2 DEF Scanned
<1> QED
  BY <1>8, <1>9, <1>10, <1>11, <1>12 DEF IInv

\* Every step preserves the invariant: one case per action.
LEMMA NextIInv == IInv /\ [Next]_vars => IInv'
<1> SUFFICES ASSUME IInv, [Next]_vars PROVE IInv'
  OBVIOUS
<1>0. /\ N \in Nat /\ M \in 0 .. N /\ Total \in Nat
      /\ M < N => M + 1 \in 1 .. N
  <2>1. N \in Nat /\ N + 1 \in 1 .. N + 1
    BY LayoutAssumption
  <2>2. M \in 0 .. N
    BY <2>1 DEF IInv, FramesExact, TypeOK, M
  <2>3. Total \in Nat
    BY <2>1, LayoutAssumption DEF Total
  <2> QED
    BY <2>1, <2>2, <2>3
<1>1. CASE NoHeaders
  <2> USE <1>1 DEF NoHeaders
  <2>1. TypeOK' /\ FramesExact' /\ NoSpuriousFailure' /\ Position'
    BY DEF IInv, TypeOK, FramesExact, NoSpuriousFailure, Position, MarkAfterMiss, BufferLen, M
  <2>2. Scanned'
    <3> SUFFICES ASSUME NEW q \in Nat, lo <= q, q + 1 < lo + MarkAfterMiss PROVE ~Terminator(q)
      BY DEF Scanned
    <3>1. CASE q + 1 < lo + scan_offset
      BY <3>1 DEF IInv, Scanned
    <3>2. CASE q + 1 >= lo + scan_offset
      <4>1. q <= hi - 2 /\ q >= SearchFrom /\ SearchFrom \in Nat
        BY <3>2 DEF IInv, TypeOK, MarkAfterMiss, SearchFrom, BufferLen
      <4>2. q \in SearchFrom .. hi - 2
        BY <4>1 DEF IInv, TypeOK
      <4> QED
        BY <4>2 DEF Matches
    <3> QED
      BY <3>1, <3>2 DEF IInv, TypeOK, BufferLen
  <2>3. Short'
    <3>1. CASE M = N
      BY <3>1 DEF Short, M
    <3>2. CASE M < N
      <4> DEFINE e == EndOfHeaders(M + 1)
      <4>1. e \in Nat /\ e >= lo /\ Terminator(e)
        <5>1. M + 1 \in 1 .. N /\ lo = Start[M + 1]
          BY <1>0, <3>2 DEF IInv, Position
        <5> QED
          BY <5>1, LayoutOf
      <4>2. e >= SearchFrom
        BY <4>1 DEF IInv, TypeOK, Scanned, SearchFrom, BufferLen
      <4>3. hi < e + 2
        BY <4>1, <4>2 DEF Matches, IInv, TypeOK
      <4> QED
        BY <4>3 DEF Short, M, EndOfHeaders
    <3> QED
      BY <1>0, <3>1, <3>2
  <2> QED
    BY <2>1, <2>2, <2>3 DEF IInv
<1>2. CASE \E p \in lo .. hi : ParseHeaders(p)
  <2> PICK p \in lo .. hi : ParseHeaders(p)
    BY <1>2
  <2> DEFINE i == M + 1
  <2>1. /\ M < N /\ p = EndOfHeaders(i) /\ lo = Start[i] /\ p + 2 <= hi /\ p \in Nat
    BY SearchExact DEF ParseHeaders
  <2>2. i \in 1 .. N
    BY <1>0, <2>1
  <2>3. HeaderBlock(lo, p) = {i}
    BY <2>1, <2>2, BlockOf, Zenon
  <2>4. /\ EndOfHeaders(i) \in Nat /\ BodyLen[i] \in Nat /\ Start[i] \in Nat /\ HdrLen[i] \in Nat
        /\ Start[i + 1] = p + 2 + BodyLen[i] /\ p = Start[i] + HdrLen[i]
    BY <2>1, <2>2, LayoutOf
  <2>5. scan_offset' = 0 /\ hi' = hi /\ strict' = strict
    BY DEF ParseHeaders
  <2>6. \/ Rejected(i) /\ lo' = p + 2 /\ Fail
        \/ /\ ~Rejected(i)
           /\ \/ BodyLen[i] <= hi - (p + 2) /\ lo' = p + 2 + BodyLen[i] /\ Decode(<<lo, p>>, p + 2)
              \/ BodyLen[i] > hi - (p + 2) /\ lo' = p + 2 /\ Park(<<lo, p>>, BodyLen[i])
    BY <2>3 DEF ParseHeaders
  <2>7. CASE Rejected(i) /\ lo' = p + 2 /\ Fail
    <3>1. /\ pc' = "failed" /\ state' = "WaitingForHeaders" /\ out' = out
          /\ headers' = <<0, 0>> /\ body_length' = 0
      BY <2>7 DEF Fail
    <3>2. TypeOK'
      <4>1. /\ lo' \in Nat /\ hi' \in Nat /\ lo' <= hi' /\ hi' <= Total
            /\ scan_offset' \in 0 .. BufferLen'
        <5>1. lo' = p + 2
          BY <2>7
        <5>2. hi \in Nat /\ hi <= Total
          BY DEF IInv, TypeOK
        <5> QED
          BY <2>1, <2>5, <5>1, <5>2 DEF BufferLen
      <4>2. strict' \in BOOLEAN /\ out' \in Seq([headers : Nat \X Nat, body : Nat \X Nat])
        BY <2>5, <3>1 DEF IInv, TypeOK
      <4>3. /\ state' \in {"WaitingForHeaders", "WaitingForBody"} /\ pc' \in {"parse", "read", "failed"}
            /\ headers' \in Nat \X Nat /\ body_length' \in Nat
        BY <3>1
      <4> QED
        BY <4>1, <4>2, <4>3 DEF TypeOK
    <3>3. FramesExact' /\ NoSpuriousFailure'
      BY <2>1, <2>7, <3>1 DEF IInv, FramesExact, NoSpuriousFailure, M, Rejected, Undecodable
    <3> QED
      BY <3>1, <3>2, <3>3 DEF IInv
  <2>8. CASE BodyLen[i] <= hi - (p + 2) /\ lo' = p + 2 + BodyLen[i] /\ Decode(<<lo, p>>, p + 2)
    <3>1. lo' = Start[M + 2] /\ lo' <= hi /\ p + 2 \in Nat
      <4>1. M + 2 = i + 1 /\ hi \in Nat
        BY <1>0 DEF IInv, TypeOK
      <4>2. Start[M + 2] = Start[i + 1]
        BY <4>1
      <4> QED
        BY <2>1, <2>4, <2>8, <4>1, <4>2
    <3>2. <<lo, p>> = <<Start[i], EndOfHeaders(i)>>
      BY <2>1
    <3>3. <<lo, p>> \in Nat \X Nat
      BY <2>1 DEF IInv, TypeOK
    <3> QED
      BY <2>1, <2>5, <2>8, <3>1, <3>2, <3>3, Delivers
  <2>9. CASE ~Rejected(i) /\ BodyLen[i] > hi - (p + 2) /\ lo' = p + 2 /\ Park(<<lo, p>>, BodyLen[i])
    <3>1. /\ out' = out /\ state' = "WaitingForBody"
          /\ headers' = <<lo, p>> /\ body_length' = BodyLen[i] /\ pc' = "read"
      BY <2>9 DEF Park
    <3>2. TypeOK'
      <4>1. <<lo, p>> \in Nat \X Nat /\ p + 2 \in Nat
        BY <2>1, SMTT(30) DEF IInv, TypeOK
      <4>2. /\ lo' \in Nat /\ hi' \in Nat /\ lo' <= hi' /\ hi' <= Total
            /\ scan_offset' \in 0 .. BufferLen'
        <5>1. lo' = p + 2
          BY <2>9
        <5>2. hi \in Nat /\ hi <= Total
          BY DEF IInv, TypeOK
        <5> QED
          BY <2>1, <2>5, <5>1, <5>2 DEF BufferLen
      <4>3. strict' \in BOOLEAN /\ out' \in Seq([headers : Nat \X Nat, body : Nat \X Nat])
        BY <2>5, <3>1 DEF IInv, TypeOK
      <4>4. /\ state' \in {"WaitingForHeaders", "WaitingForBody"} /\ pc' \in {"parse", "read", "failed"}
            /\ headers' \in Nat \X Nat /\ body_length' \in Nat
        BY <2>4, <4>1, <3>1
      <4> QED
        BY <4>2, <4>3, <4>4 DEF TypeOK
    <3>3. FramesExact' /\ NoSpuriousFailure' /\ Scanned' /\ M' = M
      BY <3>1, SMTT(30) DEF IInv, FramesExact, NoSpuriousFailure, Scanned, M
    <3>4. Position' /\ Short'
      BY <2>1, <2>4, <2>5, <2>9, <3>1, <3>3 DEF Position, Short, Rejected, EndOfHeaders, IInv, TypeOK
    <3> QED
      BY <3>1, <3>2, <3>3, <3>4 DEF IInv
  <2> QED
    BY <2>6, <2>7, <2>8, <2>9
<1>3. CASE ParseBody
  <2> DEFINE i == M + 1
  <2>1. /\ M < N /\ ~Rejected(i) /\ lo = EndOfHeaders(i) + 2 /\ body_length = BodyLen[i]
        /\ headers = <<Start[i], EndOfHeaders(i)>> /\ scan_offset = 0
    BY <1>3 DEF ParseBody, IInv, Position
  <2>2. i \in 1 .. N
    BY <1>0, <2>1
  <2>3. CASE body_length <= BufferLen
    <3>1. /\ EndOfHeaders(i) \in Nat /\ BodyLen[i] \in Nat /\ Start[i] \in Nat
          /\ Start[i + 1] = EndOfHeaders(i) + 2 + BodyLen[i]
      BY <2>2, LayoutOf DEF EndOfHeaders
    <3>2. ~(body_length > BufferLen)
      BY <2>1, <2>3, <3>1 DEF BufferLen, IInv, TypeOK
    <3>3. lo' = lo + body_length /\ hi' = hi /\ scan_offset' = MarkAfterBody /\ strict' = strict /\ Decode(headers, lo)
      BY <1>3, <3>2 DEF ParseBody
    <3>4. scan_offset' = 0
      BY <2>1, <3>1, <3>3 DEF MarkAfterBody
    <3>5. lo' = Start[M + 2] /\ lo' <= hi /\ lo \in Nat /\ headers \in Nat \X Nat
      BY <1>0, <2>1, <2>3, <3>1, <3>3, SMTT(30) DEF BufferLen, IInv, TypeOK
    <3> QED
      BY <2>1, <3>3, <3>4, <3>5, Delivers
  <2>4. CASE body_length > BufferLen
    <3>1. pc' = "read" /\ UNCHANGED <<lo, hi, scan_offset, strict, state, headers, body_length, out>>
      BY <1>3, <2>4 DEF ParseBody, BufferLen, IInv, TypeOK
    <3>2. TypeOK' /\ FramesExact' /\ NoSpuriousFailure' /\ Position'
      BY <1>3, <3>1 DEF ParseBody, IInv, TypeOK, FramesExact, NoSpuriousFailure, Position, BufferLen, M
    <3>3. Scanned' /\ Short'
      BY <1>3, <2>4, <3>1 DEF ParseBody, IInv, TypeOK, Scanned, Short, BufferLen
    <3> QED
      BY <3>2, <3>3 DEF IInv
  <2> QED
    BY <2>3, <2>4 DEF IInv, TypeOK, BufferLen
<1>4. CASE \E k \in 1 .. ReadSize : Read(k)
  <2> PICK k \in 1 .. ReadSize : Read(k)
    BY <1>4
  <2> USE DEF Read
  <2>1. hi + k - lo <= BufLimit
    <3>1. CASE state = "WaitingForHeaders" /\ M = N
      BY <3>1, LayoutAssumption DEF IInv, TypeOK, Position, Total
    <3>2. CASE state = "WaitingForHeaders" /\ M < N
      <4>1. M + 1 \in 1 .. N
        BY <1>0, <3>2
      <4>2. pc = "read" /\ M # N
        BY <1>0, <3>2
      <4>3. lo = Start[M + 1] /\ hi < EndOfHeaders(M + 1) + 2
        BY <3>2, <4>2 DEF IInv, Position, Short
      <4>4. /\ EndOfHeaders(M + 1) = Start[M + 1] + HdrLen[M + 1]
            /\ Start[M + 1] \in Nat /\ HdrLen[M + 1] \in Nat
        BY <4>1, LayoutOf
      <4>5. hi \in Nat /\ k \in Nat
        BY LimitsAssumption DEF IInv, TypeOK
      <4>6. hi - lo < HdrLen[M + 1] + 2
        BY <4>3, <4>4, <4>5
      <4> QED
        BY <4>1, <4>3, <4>4, <4>5, <4>6, LimitsAssumption
    <3>3. CASE state = "WaitingForBody"
      <4>1. M + 1 \in 1 .. N /\ ~Rejected(M + 1) /\ body_length = BodyLen[M + 1] /\ hi - lo < body_length
        BY <1>0, <3>3 DEF IInv, Position, Short
      <4>2. BodyLen[M + 1] <= MsgLimit
        BY <4>1, LayoutOf, LimitsAssumption, SMTT(30) DEF Rejected
      <4> QED
        BY <4>1, <4>2, LimitsAssumption, SMTT(30) DEF IInv, TypeOK
    <3> QED
      BY <1>0, <3>1, <3>2, <3>3 DEF IInv, TypeOK
  <2>2. TypeOK' /\ FramesExact' /\ Position'
    BY <1>0, <2>1, LimitsAssumption DEF IInv, TypeOK, FramesExact, Position, BufferLen, M, Total
  <2>3. NoSpuriousFailure' /\ Scanned' /\ Short'
    <3>1. pc' = "parse"
      BY <2>1, LimitsAssumption DEF IInv, TypeOK
    <3> QED
      BY <3>1 DEF IInv, NoSpuriousFailure, Scanned, Short
  <2> QED
    BY <2>2, <2>3 DEF IInv
<1>5. CASE HandOver
  <2> USE <1>5 DEF HandOver
  <2>1. TypeOK' /\ FramesExact' /\ NoSpuriousFailure' /\ Position'
    BY DEF IInv, TypeOK, FramesExact, NoSpuriousFailure, Position, BufferLen, M
  <2>2. Scanned' /\ Short'
    BY SMTT(30) DEF IInv, TypeOK, Scanned, Short
  <2> QED
    BY <2>1, <2>2, SMTT(30) DEF IInv
<1>6. CASE UNCHANGED vars
  BY <1>6 DEF vars, IInv, TypeOK, FramesExact, NoSpuriousFailure, Position, Scanned, Short, M, BufferLen, Undecodable
<1> QED
  BY <1>1, <1>2, <1>3, <1>4, <1>5, <1>6 DEF Next

\* The invariant holds throughout.
LEMMA Inductive == Spec => []IInv
  BY InitIInv, NextIInv, PTL DEF Spec

\* The buffer, its watermark and the parser's state keep their types: the
\* watermark of find_pattern() never leaves the buffer.
THEOREM TypeCorrect == Spec => []TypeOK
<1>1. IInv => TypeOK
  BY DEF IInv
<1> QED
  BY <1>1, Inductive, PTL

\* parse_message() returns the messages of the stream, byte for byte and in
\* order, for every stream, every cut into reads and every hand-over.
THEOREM MessagesExact == Spec => []FramesExact
<1>1. IInv => FramesExact
  BY DEF IInv
<1> QED
  BY <1>1, Inductive, PTL

\* read_into_parser() is only called when no complete message is buffered.
THEOREM NoMessageHeldBack == Spec => []NothingHeldBack
<1>1. IInv => NothingHeldBack
  <2> SUFFICES ASSUME IInv, pc = "read", NEW i \in 1 .. N, Start[i + 1] <= hi, i > M
               PROVE  FALSE
    BY Handed, LayoutAssumption DEF NothingHeldBack, M
  <2>1. M + 1 \in 1 .. N /\ M < N /\ M + 1 <= i /\ M \in Nat /\ N \in Nat
    BY Handed
  <2>2. Start[M + 1 + 1] <= Start[i + 1]
    <3>1. M + 1 + 1 \in 1 .. N + 1 /\ i + 1 \in 1 .. N + 1 /\ M + 1 + 1 <= i + 1
      BY <2>1
    <3> QED
      BY <3>1, LayoutAssumption, Zenon
  <2>3. Start[M + 1 + 1] <= hi
    <3>1. Start[M + 1 + 1] \in Nat /\ Start[i + 1] \in Nat /\ hi \in Nat
      BY <2>1, LayoutOf, Zenon DEF IInv, TypeOK
    <3> QED
      BY <2>2, <3>1
  <2>4. /\ Start[M + 1 + 1] = EndOfHeaders(M + 1) + 2 + BodyLen[M + 1]
        /\ EndOfHeaders(M + 1) \in Nat /\ BodyLen[M + 1] \in Nat
    BY <2>1, LayoutOf DEF EndOfHeaders
  <2>5. CASE state = "WaitingForHeaders"
    <3>1. hi < EndOfHeaders(M + 1) + 2 /\ hi \in Nat
      BY <2>1, <2>5, SMTT(30) DEF IInv, Short, TypeOK
    <3> QED
      BY <2>3, <2>4, <3>1
  <2>6. CASE state = "WaitingForBody"
    BY <2>1, <2>3, <2>4, <2>6, Handed, SMTT(30) DEF IInv, Short, Position, TypeOK
  <2> QED
    BY <2>5, <2>6 DEF IInv, TypeOK
<1> QED
  BY <1>1, Inductive, PTL

\* Whenever the reader may hand the connection over, the unconsumed bytes begin
\* at a message: adopt_stream()'s parser starts in step.
THEOREM ResidualIsAligned == Spec => []ResidualOnBoundary
<1>1. IInv => ResidualOnBoundary
  BY DEF IInv, Position, ResidualOnBoundary, M
<1> QED
  BY <1>1, Inductive, PTL

\* The parser and the size limits stop the connection only on a message that
\* must be rejected.
THEOREM FailsOnlyOnBadMessage == Spec => []NoSpuriousFailure
<1>1. IInv => NoSpuriousFailure
  BY DEF IInv
<1> QED
  BY <1>1, Inductive, PTL

-----------------------------------------------------------------------------
(***************************************************************************)
(* A hand-over is a step of Framing, for any number of callers, any stream *)
(* and any timers: the residual is only ever sent between messages, and    *)
(* from then on the parser stands still until the socket is adopted.       *)
(***************************************************************************)

\* The callers that got hold of the channel and have not failed since.
Past == {"disarming", "signalling", "awaiting", "locking", "ok"}

\* The parser keeps nothing of a message between messages.
Between == state = "WaitingForHeaders" => headers = <<0, 0>> /\ body_length = 0

\* Once the residual is sent, the reader has left the loop between messages.
Residual ==
  /\ answer = "residual" =>
       reader \in {"exiting", "dead"} /\ pc = "read" /\ state = "WaitingForHeaders"
  /\ answer \in DrainErrors \cup {"empty", "residual", "closed"}

\* One caller at most is past the slot; a successful one holds the residual.
Single ==
  /\ call = [c \in Callers |-> call[c]]
  /\ slot \in BOOLEAN
  /\ \A c \in Callers : call[c] \in Past => ~slot
  /\ \A c, d \in Callers : call[c] \in Past /\ call[d] \in Past => c = d
  /\ \A c \in Callers : call[c] \in {"locking", "ok"} => answer = "residual"

HInv == Between /\ Residual /\ Single

\* Init satisfies the invariant.
LEMMA InitHInv == ReexecInit => HInv
<1> SUFFICES ASSUME ReexecInit PROVE HInv
  OBVIOUS
<1>1. Between /\ Residual
  BY DEF ReexecInit, Init, Between, Residual
<1>2. call = [c \in Callers |-> call[c]] /\ \A c \in Callers : call[c] = "idle"
  BY DEF ReexecInit
<1>3. slot \in BOOLEAN
  BY DEF ReexecInit
<1> QED
  BY <1>1, <1>2, <1>3 DEF HInv, Single, Past

\* The parser's steps keep Between.
LEMMA ParserBetween ==
  ASSUME Between, NoHeaders \/ (\E p \in lo .. hi : ParseHeaders(p)) \/ ParseBody \/ (\E k \in 1 .. ReadSize : Read(k))
  PROVE  Between'
<1>1. CASE NoHeaders
  BY <1>1, SMTT(30) DEF NoHeaders, Between
<1>2. ASSUME NEW p \in lo .. hi, ParseHeaders(p) PROVE Between'
  BY <1>2, SMTT(30) DEF ParseHeaders, Fail, Decode, Deliver, Park, Between
<1>3. CASE ParseBody
  BY <1>3 DEF ParseBody, Decode, Deliver, Fail, Between
<1>4. ASSUME NEW k \in 1 .. ReadSize, Read(k) PROVE Between'
  BY <1>4 DEF Read, Between
<1> QED
  BY <1>1, <1>2, <1>3, <1>4

\* A step of one caller keeps Single if the others stand still, the answer does
\* not change and the caller gets past the slot only by taking the channel.
LEMMA CallerStep ==
  ASSUME Single, NEW c \in Callers, NEW w, Goes(c, w),
         UNCHANGED answer,
         \/ slot' = slot /\ (w \in Past => call[c] \in Past)
         \/ slot' = FALSE /\ (w \in Past => slot),
         w \in {"locking", "ok"} => answer = "residual"
  PROVE  Single'
<1>1. \A d \in Callers : call'[d] = IF d = c THEN w ELSE call[d]
  BY DEF Single, Goes
<1>2. call' = [d \in Callers |-> call'[d]] /\ slot' \in BOOLEAN
  BY Zenon DEF Single, Goes
<1>3. \A d \in Callers : call'[d] \in Past => ~slot'
  BY <1>1 DEF Single
<1>4. \A d, e \in Callers : call'[d] \in Past /\ call'[e] \in Past => d = e
  BY <1>1 DEF Single
<1>5. \A d \in Callers : call'[d] \in {"locking", "ok"} => answer' = "residual"
  BY <1>1 DEF Single
<1> QED
  BY <1>2, <1>3, <1>4, <1>5 DEF Single

\* Every step preserves the invariant.
LEMMA NextHInv == HInv /\ [ReexecNext]_allVars => HInv'
<1> SUFFICES ASSUME HInv, [ReexecNext]_allVars PROVE HInv'
  OBVIOUS
<1> USE DEF HInv
<1>1. ASSUME NEW c \in Callers, CallSteps(c) PROVE HInv'
  <2>0. UNCHANGED <<vars, answer, reader>>
    BY <1>1, Zenon DEF CallSteps, CheckPending, TakeChannel, DisableLiveness, SendStop, ReceiveResult,
                OuterTimeout, Finish, loopVars
  <2>1. Between' /\ Residual'
    BY <2>0 DEF Between, Residual, vars
  <2>2. CASE CheckPending(c)
    <3>1. slot' = slot /\ (Goes(c, "taking") \/ Goes(c, "command in flight"))
      BY <2>2, Zenon DEF CheckPending
    <3> QED
      BY <2>0, <2>1, <3>1, CallerStep, Zenon DEF Past
  <2>3. CASE TakeChannel(c)
    <3>1. slot' = FALSE /\ ((slot /\ Goes(c, "disarming")) \/ Goes(c, "already called"))
      BY <2>3, Zenon DEF TakeChannel
    <3> QED
      BY <2>0, <2>1, <3>1, CallerStep, Zenon DEF Past
  <2>4. CASE DisableLiveness(c)
    <3>1. slot' = slot /\ call[c] = "disarming" /\ Goes(c, "signalling")
      BY <2>4 DEF DisableLiveness
    <3> QED
      BY <2>0, <2>1, <3>1, CallerStep, Zenon DEF Past
  <2>5. CASE SendStop(c)
    <3>1. slot' = slot /\ call[c] = "signalling" /\ (Goes(c, "awaiting") \/ Goes(c, "reader gone"))
      BY <2>5, Zenon DEF SendStop
    <3> QED
      BY <2>0, <2>1, <3>1, CallerStep, Zenon DEF Past
  <2>6. CASE ReceiveResult(c)
    <3>1. slot' = slot /\ call[c] = "awaiting"
      BY <2>6, Zenon DEF ReceiveResult
    <3>2. answer = "residual" => Goes(c, "locking")
      BY <2>6 DEF ReceiveResult
    <3>3. answer # "residual" => Goes(c, "exited without result") \/ Goes(c, answer)
      BY <2>6, Zenon DEF ReceiveResult
    <3> QED
      BY <2>0, <2>1, <3>1, <3>2, <3>3, CallerStep, Zenon DEF Past, Residual, DrainErrors
  <2>7. CASE OuterTimeout(c)
    <3>1. slot' = slot /\ Goes(c, "timed out")
      BY <2>7, Zenon DEF OuterTimeout
    <3> QED
      BY <2>0, <2>1, <3>1, CallerStep, Zenon DEF Past
  <2>8. CASE Finish(c)
    <3>1. slot' = slot /\ call[c] = "locking" /\ answer = "residual" /\ Goes(c, "ok")
      BY <2>8 DEF Finish, Single
    <3> QED
      BY <2>0, <2>1, <3>1, CallerStep, Zenon DEF Past
  <2> QED
    BY <1>1, <2>1, <2>2, <2>3, <2>4, <2>5, <2>6, <2>7, <2>8 DEF CallSteps
<1>2. ASSUME UNCHANGED <<call, slot>>, answer # "empty" => answer' = answer PROVE Single'
  BY <1>2 DEF Single, Past
<1>3. CASE LoopSteps
  <2>0. UNCHANGED <<call, slot>> /\ (answer # "empty" => answer' = answer)
    BY <1>3, Zenon DEF LoopSteps, Parse, ParseFails, Dispatched, DispatchStopped, DispatchBreaks, SeeStop,
      ReadRunning, DrainRead, IdleExpires, ReadEnds, DrainComplete, DrainIdle, DrainEnds, Publish,
      Leaves, callVars
  <2>1. Single'
    BY <1>2, <2>0
  <2>2. CASE Parse
    BY <2>1, <2>2, ParserBetween, SMTT(30) DEF Parse, InLoop, Residual
  <2>3. CASE \E k \in 1 .. ReadSize : ReadRunning(k) \/ DrainRead(k)
    BY <2>1, <2>3, ParserBetween DEF ReadRunning, DrainRead, InDrainRead, Residual
  <2>4. CASE UNCHANGED vars
    <3>1. Between'
      BY <2>4 DEF Between, vars
    <3>2. Residual'
      BY <1>3, <2>4, Zenon DEF LoopSteps, Parse, ParseFails, Dispatched, DispatchStopped, DispatchBreaks, SeeStop,
        ReadRunning, DrainRead, IdleExpires, ReadEnds, DrainComplete, DrainIdle, DrainEnds, Publish,
        Leaves, InLoop, InDrainRead, Residual, DrainErrors, vars
    <3> QED
      BY <2>1, <3>1, <3>2
  <2> QED
    BY <1>3, <2>2, <2>3, <2>4, Zenon DEF LoopSteps, ParseFails, Dispatched, DispatchStopped, DispatchBreaks, SeeStop,
      IdleExpires, ReadEnds, DrainComplete, DrainIdle, DrainEnds, Publish
<1>4. CASE Tick
  BY <1>2, <1>4, SMTT(30) DEF Tick, Between, Residual, vars
<1>5. CASE SetLiveness
  BY <1>2, <1>5, SMTT(30) DEF SetLiveness, Between, Residual, vars, callVars, loopVars
<1>6. CASE Adopt
  <2>1. call' = [d \in Callers |-> call'[d]] /\ (\A c \in Callers : call'[c] = "idle") /\ slot' \in BOOLEAN
    BY <1>6 DEF Adopt
  <2>2. Single'
    BY <2>1, SMTT(30) DEF Single, Past
  <2> QED
    BY <1>6, <2>2 DEF Adopt, Between, Residual
<1>7. CASE UNCHANGED allVars
  BY <1>2, <1>7 DEF allVars, Between, Residual, vars, callVars, loopVars
<1> QED
  BY <1>1, <1>3, <1>4, <1>5, <1>6, <1>7 DEF ReexecNext

\* The invariant holds throughout.
LEMMA InductiveH == ReexecSpec => []HInv
  BY InitHInv, NextHInv, PTL DEF ReexecSpec

\* The old and the new process together behave as the one parser of Framing:
\* the initial states are Framing's and every step is one of its steps or
\* leaves its variables alone.  Everything proved of Framing holds across a
\* re-exec.
THEOREM HandOverRefines == ReexecSpec => ImplementsFraming
<1>1. ReexecInit => Init
  BY DEF ReexecInit
<1>2. HInv /\ [ReexecNext]_allVars => [Next]_vars
  <2> SUFFICES ASSUME HInv, [ReexecNext]_allVars PROVE [Next]_vars
    OBVIOUS
  <2>1. CASE Parse
    BY <2>1 DEF Parse, Next
  <2>2. CASE \E k \in 1 .. ReadSize : ReadRunning(k) \/ DrainRead(k)
    BY <2>2 DEF ReadRunning, DrainRead, Next
  <2>3. CASE Adopt
    <3>1. answer = "residual"
      BY <2>3 DEF Adopt, HInv, Single
    <3> QED
      BY <2>3, <3>1 DEF Adopt, HInv, Residual, Between, Next, HandOver
  <2>4. CASE UNCHANGED vars
    BY <2>4
  <2>5. ASSUME NEW c \in Callers, CallSteps(c) PROVE UNCHANGED vars
    BY <2>5, Zenon DEF CallSteps, CheckPending, TakeChannel, DisableLiveness, SendStop, ReceiveResult,
                OuterTimeout, Finish
  <2>6. CASE LoopSteps
    BY <2>1, <2>2, <2>4, <2>6, Zenon DEF LoopSteps, ParseFails, Dispatched, DispatchStopped, DispatchBreaks,
      SeeStop, IdleExpires, ReadEnds, DrainComplete, DrainIdle, DrainEnds, Publish
  <2> QED
    BY <2>3, <2>4, <2>5, <2>6 DEF ReexecNext, Tick, SetLiveness, allVars
<1> QED
  BY <1>1, <1>2, InductiveH, PTL DEF ReexecSpec, ImplementsFraming, Spec

\* At most one call of teardown_for_reexec() succeeds on a connection, however
\* many clones call it.
THEOREM AtMostOneTeardown == ReexecSpec => []OneTeardown
<1>1. HInv => OneTeardown
  BY DEF HInv, Single, Past, OneTeardown
<1> QED
  BY <1>1, InductiveH, PTL

\* From a successful teardown to the adoption nothing is read from the socket.
THEOREM SocketLeftAlone == ReexecSpec => HandsOffSocket
<1>1. HInv /\ [ReexecNext]_allVars =>
        [(\E c \in Callers : call[c] = "ok") /\ adoptions' = adoptions => hi' = hi]_allVars
  <2> SUFFICES ASSUME HInv, ReexecNext, \E c \in Callers : call[c] = "ok", adoptions' = adoptions
               PROVE  hi' = hi
    OBVIOUS
  <2>1. ~InLoop
    BY DEF HInv, Single, Residual, InLoop
  <2>2. ASSUME NEW c \in Callers, CallSteps(c) PROVE UNCHANGED vars
    BY <2>2, Zenon DEF CallSteps, CheckPending, TakeChannel, DisableLiveness, SendStop, ReceiveResult,
                OuterTimeout, Finish
  <2>3. CASE LoopSteps
    BY <2>1, <2>3, Zenon DEF LoopSteps, Parse, ParseFails, Dispatched, DispatchStopped, DispatchBreaks, SeeStop,
      ReadRunning, DrainRead, IdleExpires, ReadEnds, DrainComplete, DrainIdle, DrainEnds, Publish,
      InLoop, InDrainRead, vars
  <2>4. CASE Tick \/ SetLiveness \/ Adopt
    BY <2>4 DEF Tick, SetLiveness, Adopt, vars
  <2> QED
    BY <2>2, <2>3, <2>4 DEF ReexecNext, vars
<1> QED
  BY <1>1, InductiveH, PTL DEF ReexecSpec, HandsOffSocket

-----------------------------------------------------------------------------
(***************************************************************************)
(* What a teardown reports.  Two facts are added: the reader that sent the *)
(* residual publishes nothing but ReexecTeardown, and a caller that waits  *)
(* on a silent socket has not waited longer than the drain's one read.     *)
(***************************************************************************)
\* A published reason never hides the status a successful caller set.
Published ==
  /\ answer = "residual" => reason = "ReexecTeardown"
  /\ \A c \in Callers : call[c] = "ok" => status = "ReexecTeardown"

\* Time passes only in the drain's read.  Before the drain is fed it has one read,
\* which began after the caller's wait did.
OneSilentRead ==
  answer = "empty" /\ ~fed /\ Waiting =>
    wait_age = 0 \/ (reader = "draining" /\ pc = "read" /\ wait_age <= read_age)

Clock ==
  /\ read_age \in Nat /\ read_age <= DrainTimeout
  /\ wait_age \in Nat

TimedOutFed == \A c \in Callers : call[c] = "timed out" => fed

TInv == Clock /\ Published /\ OneSilentRead /\ TimedOutFed

\* Init satisfies it.
LEMMA InitTInv == ReexecInit => TInv
<1> SUFFICES ASSUME ReexecInit PROVE TInv
  OBVIOUS
<1>1. \A c \in Callers : call[c] = "idle"
  BY DEF ReexecInit
<1>2. Clock
  BY TimersAssumption DEF ReexecInit, Clock
<1>3. Published
  BY <1>1 DEF ReexecInit, Published
<1>4. OneSilentRead /\ TimedOutFed
  BY <1>1 DEF ReexecInit, OneSilentRead, TimedOutFed
<1> QED
  BY <1>2, <1>3, <1>4 DEF TInv

\* A caller's step: where it goes, and what it does to the status and the wait.
LEMMA CallerReports ==
  ASSUME HInv, TInv, NEW c \in Callers, CallSteps(c)
  PROVE  TInv'
<1> USE DEF HInv, TInv
<1>0. UNCHANGED <<vars, answer, reader, reason, fed, read_age, pc>>
  BY Zenon DEF CallSteps, CheckPending, TakeChannel, DisableLiveness, SendStop, ReceiveResult,
         OuterTimeout, Finish, loopVars, vars
<1>1. PICK w : Goes(c, w)
  BY Zenon DEF CallSteps, CheckPending, TakeChannel, DisableLiveness, SendStop, ReceiveResult,
         OuterTimeout, Finish
<1>2. \A d \in Callers : call'[d] = IF d = c THEN w ELSE call[d]
  BY <1>1 DEF Single, Goes
<1>3. CASE SendStop(c)
  <2>1. call'[c] \in {"awaiting", "reader gone"} /\ wait_age' = 0 /\ status' = status
    BY <1>3, Zenon DEF SendStop, Goes, Single, sharedVars
  <2> QED
    BY <1>0, <1>2, <2>1, Zenon DEF Clock, Published, OneSilentRead, TimedOutFed, Waiting
<1>4. CASE Finish(c)
  <2>1. call'[c] = "ok" /\ wait_age' = wait_age /\ status' = "ReexecTeardown"
    BY <1>4 DEF Finish, Goes, Single
  <2> QED
    BY <1>0, <1>2, <2>1, Zenon DEF Clock, Published, OneSilentRead, TimedOutFed, Waiting
<1>5. CASE OuterTimeout(c)
  <2>1. /\ call[c] = "awaiting" /\ answer = "empty" /\ wait_age = DrainTimeout + Margin
        /\ call'[c] = "timed out" /\ wait_age' = wait_age /\ status' = status
    BY <1>5, Zenon DEF OuterTimeout, Goes, Single, sharedVars
  <2>2. wait_age # 0 /\ ~(wait_age <= read_age)
    <3>1. Clock /\ wait_age = DrainTimeout + Margin
      BY <2>1, Zenon
    <3> HIDE DEF TInv, HInv
    <3> QED
      BY <3>1, TimersAssumption DEF Clock
  <2>3. fed
    BY <2>1, <2>2, Zenon DEF OneSilentRead, Waiting
  <2> QED
    BY <1>0, <1>2, <2>1, <2>3, Zenon DEF Clock, Published, OneSilentRead, TimedOutFed, Waiting
<1>6. CASE CheckPending(c) \/ TakeChannel(c) \/ DisableLiveness(c) \/ ReceiveResult(c)
  <2>1. call'[c] \notin {"awaiting", "ok", "timed out"}
    BY <1>6, Zenon DEF CheckPending, TakeChannel, DisableLiveness, ReceiveResult, Goes, Single, Residual,
                DrainErrors
  <2>2. wait_age' = wait_age /\ status' = status
    BY <1>6, Zenon DEF CheckPending, TakeChannel, DisableLiveness, ReceiveResult, sharedVars
  <2> QED
    BY <1>0, <1>2, <2>1, <2>2, Zenon DEF Clock, Published, OneSilentRead, TimedOutFed, Waiting
<1> QED
  BY <1>3, <1>4, <1>5, <1>6 DEF CallSteps

\* A step of the reader: it answers, it is fed, or the caller has not waited yet.
LEMMA ReaderReports ==
  ASSUME HInv, TInv, LoopSteps
  PROVE  TInv'
<1> USE DEF HInv, TInv
<1>1. UNCHANGED <<call, wait_age>>
  BY Zenon DEF LoopSteps, Parse, ParseFails, Dispatched, DispatchStopped, DispatchBreaks, SeeStop,
    ReadRunning, DrainRead, IdleExpires, ReadEnds, DrainComplete, DrainIdle, DrainEnds, Publish, callVars
<1>2. CASE Parse
  <2>1. /\ read_age' = 0 /\ UNCHANGED <<answer, reason, status, fed, reader>>
        /\ pc = "parse"
    BY <1>2 DEF Parse, sharedVars
  <2>2. Clock'
    BY <1>1, <2>1, TimersAssumption DEF Clock
  <2>3. Published' /\ TimedOutFed'
    BY <1>1, <2>1, Zenon DEF Published, TimedOutFed
  <2>4. OneSilentRead'
    BY <1>1, <2>1 DEF OneSilentRead, Waiting
  <2> QED
    BY <2>2, <2>3, <2>4
<1>3. ASSUME NEW why, NEW result, Leaves(why, result), result # "empty",
             result = "residual" => why = "ReexecTeardown",
             InLoop, UNCHANGED <<fed, read_age, status>>
      PROVE  TInv'
  <2>1. answer' # "empty" /\ (answer' = "residual" => reason' = "ReexecTeardown")
    BY <1>3 DEF Leaves, Residual, InLoop
  <2> QED
    BY <1>1, <1>3, <2>1, Zenon DEF Clock, Published, OneSilentRead, TimedOutFed, Waiting
<1>4. CASE \/ ParseFails \/ (\E why \in {"ServerNotice", "none"} : DispatchBreaks(why)) \/ IdleExpires
           \/ (\E why \in {"ConnectionClosed", "IoError"} : ReadEnds(why))
  BY <1>3, <1>4, Zenon DEF ParseFails, DispatchBreaks, IdleExpires, ReadEnds, InLoop, sharedVars
<1>5. CASE DrainComplete \/ DrainIdle \/ (\E error \in {"closed during drain", "drain read failed"} : DrainEnds(error))
  BY <1>3, <1>5, Zenon DEF DrainComplete, DrainIdle, DrainEnds, InDrainRead, InLoop, sharedVars
<1>6. CASE Dispatched \/ DispatchStopped \/ SeeStop
  <2>1. /\ UNCHANGED <<answer, reason, status, fed, pc>>
        /\ UNCHANGED <<reader, read_age>> \/ (reader = "running" /\ read_age' \in {0, read_age})
    BY <1>6 DEF Dispatched, DispatchStopped, SeeStop, sharedVars, vars
  <2>2. Clock'
    BY <1>1, <2>1, TimersAssumption DEF Clock
  <2>3. Published' /\ TimedOutFed'
    BY <1>1, <2>1, Zenon DEF Published, TimedOutFed
  <2>4. OneSilentRead'
    BY <1>1, <2>1 DEF OneSilentRead, Waiting
  <2> QED
    BY <2>2, <2>3, <2>4
<1>7. CASE \E k \in 1 .. ReadSize : ReadRunning(k)
  <2>1. UNCHANGED <<answer, reason, status, fed, read_age, reader>> /\ reader = "running"
    BY <1>7 DEF ReadRunning, sharedVars
  <2> QED
    BY <1>1, <2>1, Zenon DEF Clock, Published, OneSilentRead, TimedOutFed, Waiting
<1>8. CASE \E k \in 1 .. ReadSize : DrainRead(k)
  <2>1. UNCHANGED <<answer, reason, status>> /\ fed' = TRUE /\ read_age' = 0
    BY <1>8 DEF DrainRead, sharedVars
  <2>2. Clock'
    BY <1>1, <2>1, TimersAssumption DEF Clock
  <2>3. Published' /\ TimedOutFed'
    BY <1>1, <2>1, Zenon DEF Published, TimedOutFed
  <2>4. OneSilentRead'
    BY <1>1, <2>1 DEF OneSilentRead, Waiting
  <2> QED
    BY <2>2, <2>3, <2>4
<1>9. CASE Publish
  <2>1. /\ UNCHANGED <<answer, reason, fed, read_age>> /\ reader = "exiting"
        /\ status' = IF reason = "none" THEN status ELSE reason
    BY <1>9 DEF Publish
  <2>2. Published'
    BY <1>1, <2>1 DEF Published, Single
  <2> QED
    BY <1>1, <2>1, <2>2, Zenon DEF Clock, OneSilentRead, TimedOutFed, Waiting
<1> QED
  BY <1>2, <1>4, <1>5, <1>6, <1>7, <1>8, <1>9, Zenon DEF LoopSteps

\* Every step preserves it.
LEMMA NextTInv == HInv /\ TInv /\ [ReexecNext]_allVars => TInv'
<1> SUFFICES ASSUME HInv, TInv, [ReexecNext]_allVars PROVE TInv'
  OBVIOUS
<1>1. CASE Tick
  <2>1. /\ reader = "draining" /\ pc = "read" /\ read_age < DrainTimeout /\ read_age' = read_age + 1
        /\ UNCHANGED <<call, answer, reason, status, fed, reader, pc>>
        /\ wait_age' = wait_age \/ wait_age' = wait_age + 1
    BY <1>1 DEF Tick, InDrainRead, sharedVars, vars
  <2>2. Clock' /\ (wait_age = 0 \/ wait_age <= read_age => wait_age' = 0 \/ wait_age' <= read_age')
    BY <2>1, TimersAssumption DEF TInv, Clock
  <2>3. Published' /\ TimedOutFed'
    BY <2>1, Zenon DEF TInv, Published, TimedOutFed
  <2>4. OneSilentRead'
    BY <2>1, <2>2 DEF TInv, OneSilentRead, Waiting
  <2> QED
    BY <2>2, <2>3, <2>4 DEF TInv
<1>2. CASE SetLiveness
  BY <1>2, Zenon DEF SetLiveness, TInv, Clock, Published, OneSilentRead, TimedOutFed, Waiting, vars, callVars, loopVars
<1>3. CASE Adopt
  <2>1. \A c \in Callers : call'[c] = "idle"
    BY <1>3 DEF Adopt
  <2>2. Clock'
    BY <1>3, TimersAssumption DEF Adopt, Clock
  <2>3. Published' /\ TimedOutFed' /\ OneSilentRead'
    BY <1>3, <2>1 DEF Adopt, Published, TimedOutFed, OneSilentRead, Waiting
  <2> QED
    BY <2>2, <2>3 DEF TInv
<1>4. CASE UNCHANGED allVars
  BY <1>4, Zenon DEF allVars, TInv, Clock, Published, OneSilentRead, TimedOutFed, Waiting, vars, callVars, loopVars, sharedVars
<1> QED
  BY <1>1, <1>2, <1>3, <1>4, CallerReports, ReaderReports DEF ReexecNext

\* After a successful teardown every clone sees ReexecTeardown, and a caller whose
\* own timeout fires had a drain that was fed: on a silent socket the drain's
\* timeout answers first, for any pair of timers and any number of callers.
THEOREM TeardownIsReported == ReexecSpec => []TeardownReported
<1>1. TInv => TeardownReported
  BY Zenon DEF TInv, Published, TimedOutFed, TeardownReported
<1> QED
  BY <1>1, InitTInv, NextTInv, InductiveH, PTL DEF ReexecSpec

\* Whoever calls teardown_for_reexec(), whenever the drain stops and however often
\* the socket is adopted: the messages parsed on both sides of the hand-over are
\* those of the stream, and what a reader hands over begins at a message.
THEOREM HandOverExact == ReexecSpec => [](FramesExact /\ ResidualOnBoundary /\ NoSpuriousFailure)
BY HandOverRefines, MessagesExact, ResidualIsAligned, FailsOnlyOnBadMessage, PTL DEF ImplementsFraming

-----------------------------------------------------------------------------
(***************************************************************************)
(* The liveness timer.                                                     *)
(***************************************************************************)
\* The timeout had not run out when the loop last looked, or it was set since then
\* or the loop was stalled until now.
Checked ==
  liveness_timeout_ms # 0 =>
    /\ loop = "parse" => now <= last_recv + Threshold \/ now <= free_since
    /\ loop = "stalled" => entered <= last_recv + Threshold \/ now <= free_since
    /\ loop = "read" => entered <= last_recv + Threshold \/ entered <= free_since

\* A wait is not overstayed, one for capacity starts after the last read, and bytes
\* stay unread only as long as the loop is stalled.
Waits ==
  /\ unread /\ Running => now = arrived_at + stalled
  /\ loop = "read" => now <= entered + ReaderTick
  /\ loop = "stalled" => last_recv <= entered

TimerInv == TimerTypeOK /\ ClockExact /\ NoFalseExpiry /\ Checked /\ Waits

\* The threshold is a number.
LEMMA ThresholdType == TimerTypeOK => Threshold \in Nat
  BY LivenessAssumption DEF TimerTypeOK, Threshold

\* as_millis() of a duration is a number.
LEMMA MillisType == ASSUME NEW d \in Durations PROVE d \div PerMs \in Nat
  BY LivenessAssumption

\* The loop starts with a fresh clock and no timeout.
LEMMA TimerInvInit == TimerInit => TimerInv
  BY LivenessAssumption, SMTT(30) DEF TimerInit, TimerInv, TimerTypeOK, ClockExact, NoFalseExpiry, Checked, Waits, Running

\* Every step of the loop, of the peer, of the application and of time preserves
\* the invariant.
LEMMA TimerInvNext == TimerInv /\ [TimerNext]_timerVars => TimerInv'
<1> SUFFICES ASSUME TimerInv, [TimerNext]_timerVars PROVE TimerInv'
  OBVIOUS
<1>0. Threshold \in Nat
  BY ThresholdType DEF TimerInv
<1>s. liveness_timeout_ms' = liveness_timeout_ms => Threshold' = Threshold
  BY DEF Threshold
<1> USE DEF TimerInv, TimerTypeOK, history
<1>1. CASE Dispatch
  <2>1. TimerTypeOK'
    BY <1>1, SMTT(30) DEF Dispatch
  <2>2. ClockExact' /\ NoFalseExpiry' /\ Waits'
    BY <1>1 DEF Dispatch, ClockExact, NoFalseExpiry, Waits, Running
  <2>3. Checked'
    BY <1>0, <1>s, <1>1 DEF Dispatch, Checked
  <2> QED
    BY <2>1, <2>2, <2>3
<1>2. CASE StallEnds
  <2>1. TimerTypeOK' /\ Waits'
    BY <1>2 DEF StallEnds, Waits, Running
  <2>2. ClockExact' /\ NoFalseExpiry'
    BY <1>2 DEF StallEnds, ClockExact, NoFalseExpiry, Running
  <2>3. Checked'
    BY <1>0, <1>s, <1>2, SMTT(30) DEF StallEnds, Checked
  <2> QED
    BY <2>1, <2>2, <2>3, SMTT(30)
<1>3. CASE StartRead
  <2>1. TimerTypeOK' /\ Waits'
    BY <1>3, LivenessAssumption, SMTT(30) DEF StartRead, Waits, Running
  <2>2. ClockExact' /\ NoFalseExpiry'
    BY <1>3 DEF StartRead, ClockExact, NoFalseExpiry, Running
  <2>3. Checked'
    BY <1>0, <1>s, <1>3, SMTT(30) DEF StartRead, Checked
  <2> QED
    BY <2>1, <2>2, <2>3
<1>4. CASE Fed
  <2>1. buffered' \in Nat
    BY <1>4, LivenessAssumption DEF Fed
  <2>2. TimerTypeOK'
    <3>1. unread' \in BOOLEAN
      BY <1>4, Zenon DEF Fed
    <3>2. loop' = "parse" /\ now' = now /\ entered' = entered /\ last_recv' = now
      BY <1>4 DEF Fed
    <3>3. /\ liveness_timeout_ms' = liveness_timeout_ms /\ arrived_at' = arrived_at
          /\ stalled' = stalled /\ free_since' = free_since
      BY <1>4, SMTT(30) DEF Fed
    <3> QED
      BY <2>1, <3>1, <3>2, <3>3
  <2>3. ClockExact' /\ Waits' /\ NoFalseExpiry'
    BY <1>4, SMTT(30) DEF Fed, ClockExact, Waits, NoFalseExpiry, Running
  <2>4. Checked'
    BY <1>0, <1>s, <1>4, SMTT(30) DEF Fed, Checked
  <2> QED
    BY <2>2, <2>3, <2>4
<1>5. CASE Idle
  <2>1. TimerTypeOK' /\ Waits'
    BY <1>5, SMTT(30) DEF Idle, Waits, Running
  <2>2. ClockExact'
    BY <1>5, SMTT(30) DEF Idle, ClockExact, Running
  <2>3. NoFalseExpiry' /\ Checked'
    BY <1>0, <1>s, <1>5, SMTT(30) DEF Idle, liveness_expired, NoFalseExpiry, Checked, ClockExact, Running
  <2> QED
    BY <2>1, <2>2, <2>3, SMTT(30)
<1>6. CASE Ends
  BY <1>6, SMTT(30) DEF Ends, ClockExact, NoFalseExpiry, Checked, Waits, Running
<1>7. CASE SetLivenessTimeout
  <2>1. TimerTypeOK'
    BY <1>7, MillisType, SMTT(30) DEF SetLivenessTimeout
  <2>2. ClockExact' /\ NoFalseExpiry' /\ Waits'
    BY <1>7, SMTT(30) DEF SetLivenessTimeout, ClockExact, NoFalseExpiry, Waits, Running
  <2>3. Checked'
    BY <1>7, SMTT(30) DEF SetLivenessTimeout, Checked
  <2> QED
    BY <2>1, <2>2, <2>3
<1>8. CASE Arrive
  <2>1. TimerTypeOK' /\ Waits' /\ ClockExact' /\ NoFalseExpiry'
    BY <1>8, SMTT(30) DEF Arrive, Waits, ClockExact, NoFalseExpiry, Running
  <2>2. Checked'
    BY <1>0, <1>s, <1>8, SMTT(30) DEF Arrive, Checked
  <2> QED
    BY <2>1, <2>2, SMTT(30)
<1>9. CASE TimePasses
  <2>1. TimerTypeOK' /\ Waits'
    BY <1>9, LivenessAssumption, SMTT(30) DEF TimePasses, Waits, Running
  <2>2. ClockExact' /\ NoFalseExpiry'
    BY <1>9, SMTT(30) DEF TimePasses, ClockExact, NoFalseExpiry, Running
  <2>3. Checked'
    BY <1>0, <1>s, <1>9, SMTT(30) DEF TimePasses, Checked
  <2> QED
    BY <2>1, <2>2, <2>3
<1>10. CASE UNCHANGED timerVars
  BY <1>10, <1>s DEF timerVars, ClockExact, NoFalseExpiry, Checked, Waits, Running
<1> QED
  BY <1>1, <1>2, <1>3, <1>4, <1>5, <1>6, <1>7, <1>8, <1>9, <1>10, Zenon DEF TimerNext

\* The invariant bounds how late the loop can be.
LEMMA TimerDetects == TimerInv => DetectedInTime
<1> SUFFICES ASSUME TimerInv, loop = "read", ~unread, liveness_timeout_ms # 0
             PROVE  \/ now <= arrived_at + stalled + Threshold + ReaderTick
                    \/ now <= free_since + ReaderTick
  BY DEF DetectedInTime
<1>1. Threshold \in Nat
  BY ThresholdType DEF TimerInv
<1>2. last_recv = arrived_at + stalled
  BY DEF TimerInv, TimerTypeOK, ClockExact, Running
<1>3. now <= entered + ReaderTick /\ (entered <= last_recv + Threshold \/ entered <= free_since)
  BY DEF TimerInv, Checked, Waits
<1> QED
  BY <1>1, <1>2, <1>3, LivenessAssumption DEF TimerInv, TimerTypeOK

\* Every reachable state satisfies the invariant.
THEOREM TimerInvariant == TimerSpec => []TimerInv
  BY TimerInvInit, TimerInvNext, PTL DEF TimerSpec

\* Type correctness; last_recv never lies in the future, stalls credited included.
THEOREM TimerTypeCorrect == TimerSpec => []TimerTypeOK
<1>1. TimerInv => TimerTypeOK
  BY DEF TimerInv
<1> QED
  BY <1>1, TimerInvariant, PTL

\* HeartbeatExpired is never reported of a peer that was silent no longer than the
\* timeout while the loop was listening.
THEOREM ExpiryIsTrue == TimerSpec => []NoFalseExpiry
<1>1. TimerInv => NoFalseExpiry
  BY DEF TimerInv
<1> QED
  BY <1>1, TimerInvariant, PTL

\* A silent peer is noticed within a tick of the end of the timeout.
THEOREM SilenceIsNoticed == TimerSpec => []DetectedInTime
  BY TimerDetects, TimerInvariant, PTL

\* last_recv is the last arrival moved by the stalls since.
THEOREM ClockIsExact == TimerSpec => []ClockExact
<1>1. TimerInv => ClockExact
  BY DEF TimerInv
<1> QED
  BY <1>1, TimerInvariant, PTL
=============================================================================
