------------------------------ MODULE Framing -------------------------------
(***************************************************************************)
(* EslBuffer and EslParser: from the bytes of a connection to messages.    *)
(*                                                                         *)
(* The server's stream is N messages, each a header block, "\n\n" and a    *)
(* body of Content-Length bytes that may hold anything.  A byte is its     *)
(* position in the stream; all that matters about it is whether it is a    *)
(* newline.  The socket delivers the stream in chunks cut anywhere.  The   *)
(* buffer is the interval of positions from `lo` up to, not including,     *)
(* `hi`.                                                                   *)
(***************************************************************************)
EXTENDS Integers, Sequences

CONSTANTS N,          \* number of messages the server sends
          HdrLen,     \* bytes of each header block, without its terminator
          BodyLen,    \* the Content-Length of each message
          Start,      \* where each message starts; Start[N + 1] is the end
          Newlines,   \* the positions of newline bytes
          Corrupt,    \* messages whose header block is not one the parser accepts
          NotUtf8,    \* messages whose body is not valid UTF-8
          ReadSize,   \* SOCKET_BUF_SIZE
          MsgLimit,   \* MAX_MESSAGE_SIZE
          BufLimit    \* MAX_BUFFER_SIZE

\* "\n\n", HEADER_TERMINATOR, at position p.
Terminator(p) == p \in Newlines /\ p + 1 \in Newlines

ASSUME LayoutAssumption ==
  /\ N \in Nat
  /\ HdrLen \in [1 .. N -> Nat] /\ BodyLen \in [1 .. N -> Nat]
  /\ Start \in [1 .. N + 1 -> Nat] /\ Start[1] = 0
  /\ \A i \in 1 .. N : Start[i + 1] = Start[i] + HdrLen[i] + 2 + BodyLen[i]
  /\ \A i, j \in 1 .. N + 1 : i <= j => Start[i] <= Start[j]
  /\ \A i \in 1 .. N :
       /\ Terminator(Start[i] + HdrLen[i])
       /\ \A p \in Start[i] .. Start[i] + HdrLen[i] - 1 : ~Terminator(p)

\* The limits of constants.rs: one message and one read fit into the buffer.
ASSUME LimitsAssumption ==
  /\ ReadSize \in Nat \ {0} /\ MsgLimit \in Nat /\ BufLimit \in Nat
  /\ MsgLimit + ReadSize <= BufLimit
  /\ \A i \in 1 .. N : HdrLen[i] + 2 + ReadSize <= BufLimit

VARIABLES
  lo, hi,       \* EslBuffer.buffer: consumed up to lo, received up to hi
  scan_offset,  \* EslBuffer.scan_offset, relative to lo
  strict,       \* EslParser.strict_header_utf8, fixed when a parser is made
  state,        \* EslParser.state
  headers,      \* PendingBody.headers while waiting for a body
  body_length,  \* PendingBody.body_length
  out,          \* the messages parse_message() returned
  pc            \* the reader parses until None, then reads; or it has failed

vars == <<lo, hi, scan_offset, strict, state, headers, body_length, out, pc>>

\* The end of the stream, and what the k-th message is made of.
Total == Start[N + 1]
Frame(k) ==
  [headers |-> <<Start[k], Start[k] + HdrLen[k]>>,
   body    |-> <<Start[k] + HdrLen[k] + 2, Start[k + 1]>>]

BufferLen == hi - lo

TypeOK ==
  /\ lo \in Nat /\ hi \in Nat /\ lo <= hi /\ hi <= Total
  /\ scan_offset \in 0 .. BufferLen
  /\ strict \in BOOLEAN
  /\ state \in {"WaitingForHeaders", "WaitingForBody"}
  /\ headers \in Nat \X Nat /\ body_length \in Nat
  /\ out \in Seq([headers : Nat \X Nat, body : Nat \X Nat])
  /\ pc \in {"parse", "read", "failed"}

Init ==
  /\ lo = 0 /\ hi = 0
  /\ scan_offset = 0
  /\ strict \in BOOLEAN
  /\ state = "WaitingForHeaders"
  /\ headers = <<0, 0>> /\ body_length = 0
  /\ out = <<>>
  /\ pc = "parse"

-----------------------------------------------------------------------------
(***************************************************************************)
(* EslBuffer.                                                              *)
(***************************************************************************)
\* Faulty variant: the search resumes at the watermark itself.
SearchFromMark == lo + scan_offset

\* find_pattern() resumes one byte, pattern.len() - 1, before the watermark.
SearchFrom == lo + (IF scan_offset > 0 THEN scan_offset - 1 ELSE 0)

Matches == {p \in SearchFrom .. hi - 2 : Terminator(p)}

\* The watermark after a search that found nothing; a buffer shorter than the
\* pattern is not searched at all.
MarkAfterMiss == IF BufferLen < 2 THEN scan_offset ELSE BufferLen

\* extract_bytes(): usize::saturating_sub.
MarkAfterBody == IF scan_offset > body_length THEN scan_offset - body_length ELSE 0

(***************************************************************************)
(* EslParser.parse_message().                                              *)
(***************************************************************************)
\* The message whose header block this slice of the stream is, if any.
HeaderBlock(from, to) == {i \in 1 .. N : from = Start[i] /\ to = Start[i] + HdrLen[i]}

\* Header blocks that stop the parser: invalid UTF-8, a line without a colon, no
\* or an unknown Content-Type, a Content-Length that is no number or too large.
Rejected(i) == i \in Corrupt \/ BodyLen[i] > MsgLimit

Deliver(hdr, from, to) ==
  /\ out' = Append(out, [headers |-> hdr, body |-> <<from, to>>])
  /\ state' = "WaitingForHeaders"
  /\ headers' = <<0, 0>> /\ body_length' = 0
  /\ pc' = "parse"

Park(hdr, k) ==
  /\ state' = "WaitingForBody"
  /\ headers' = hdr /\ body_length' = k
  /\ pc' = "read"
  /\ UNCHANGED out

Fail ==
  /\ pc' = "failed"
  /\ state' = "WaitingForHeaders"
  /\ headers' = <<0, 0>> /\ body_length' = 0
  /\ UNCHANGED out

\* A body that is not UTF-8 stops a strict parser; otherwise it is decoded
\* lossily and its bytes are kept in raw_body.
Undecodable(i) == strict /\ i \in NotUtf8

\* The body is complete: it is decoded after its bytes were consumed.
Decode(hdr, from) ==
  \/ /\ \E i \in HeaderBlock(hdr[1], hdr[2]) : Undecodable(i)
     /\ Fail
  \/ /\ \A i \in HeaderBlock(hdr[1], hdr[2]) : ~Undecodable(i)
     /\ Deliver(hdr, from, lo')

\* parse_header_frame() with no terminator in the buffer.
NoHeaders ==
  /\ pc = "parse"
  /\ state = "WaitingForHeaders"
  /\ Matches = {}
  /\ scan_offset' = MarkAfterMiss
  /\ pc' = "read"
  /\ UNCHANGED <<lo, hi, strict, state, headers, body_length, out>>

\* parse_header_frame() at the first terminator, p; the body is tried at once.
ParseHeaders(p) ==
  /\ pc = "parse"
  /\ state = "WaitingForHeaders"
  /\ p \in Matches
  /\ \A q \in Matches : p <= q
  /\ scan_offset' = 0
  /\ \/ /\ \A i \in HeaderBlock(lo, p) : Rejected(i)
        /\ lo' = p + 2
        /\ Fail
     \/ \E i \in HeaderBlock(lo, p) :
          /\ ~Rejected(i)
          /\ \/ /\ BodyLen[i] <= hi - (p + 2)
                /\ lo' = p + 2 + BodyLen[i]
                /\ Decode(<<lo, p>>, p + 2)
             \/ /\ BodyLen[i] > hi - (p + 2)
                /\ lo' = p + 2
                /\ Park(<<lo, p>>, BodyLen[i])
  /\ UNCHANGED <<hi, strict>>

\* Faulty variant: the body is handed out one byte short.
ParseBodyShort ==
  /\ pc = "parse"
  /\ state = "WaitingForBody"
  /\ \/ /\ body_length <= BufferLen + 1
        /\ lo' = lo + body_length - 1
        /\ scan_offset' = 0
        /\ Decode(headers, lo)
     \/ /\ body_length > BufferLen + 1
        /\ pc' = "read"
        /\ UNCHANGED <<lo, scan_offset, state, headers, body_length, out>>
  /\ UNCHANGED <<hi, strict>>

\* parse_body_frame(): complete, or parked back.
ParseBody ==
  /\ pc = "parse"
  /\ state = "WaitingForBody"
  /\ \/ /\ body_length <= BufferLen
        /\ lo' = lo + body_length
        /\ scan_offset' = MarkAfterBody
        /\ Decode(headers, lo)
     \/ /\ body_length > BufferLen
        /\ pc' = "read"
        /\ UNCHANGED <<lo, scan_offset, state, headers, body_length, out>>
  /\ UNCHANGED <<hi, strict>>

(***************************************************************************)
(* read_into_parser(): one read of at most ReadSize bytes, add_data() and  *)
(* its size check.                                                         *)
(***************************************************************************)
\* Faulty variant: the check counts the bytes already consumed.
ReadCountsAll(k) ==
  /\ pc = "read"
  /\ k <= ReadSize
  /\ hi + k <= Total
  /\ hi' = hi + k
  /\ pc' = IF hi + k > BufLimit THEN "failed" ELSE "parse"
  /\ UNCHANGED <<lo, scan_offset, strict, state, headers, body_length, out>>

Read(k) ==
  /\ pc = "read"
  /\ k <= ReadSize
  /\ hi + k <= Total
  /\ hi' = hi + k
  /\ pc' = IF hi + k - lo > BufLimit THEN "failed" ELSE "parse"
  /\ UNCHANGED <<lo, scan_offset, strict, state, headers, body_length, out>>

(***************************************************************************)
(* Re-exec: between messages, the unconsumed bytes of the buffer are given *)
(* to the fresh parser of adopt_stream(), which has options of its own.    *)
(***************************************************************************)
HandOver ==
  /\ pc = "read"
  /\ state = "WaitingForHeaders"
  /\ scan_offset' = 0
  /\ strict' \in BOOLEAN
  /\ pc' = "parse"
  /\ UNCHANGED <<lo, hi, state, headers, body_length, out>>

-----------------------------------------------------------------------------
Next ==
  \/ NoHeaders
  \/ \E p \in lo .. hi : ParseHeaders(p)
  \/ ParseBody
  \/ \E k \in 1 .. ReadSize : Read(k)
  \/ HandOver

Spec == Init /\ [][Next]_vars

-----------------------------------------------------------------------------
\* Every message handed out is a message of the stream, byte for byte and in
\* order, however the stream was cut into reads and handed over.
FramesExact == Len(out) <= N /\ \A k \in 1 .. Len(out) : out[k] = Frame(k)

\* The reader never goes back to the socket with a complete message in its
\* buffer: a terminator cut in two by a read is not skipped by the watermark.
NothingHeldBack ==
  pc = "read" => \A i \in 1 .. N : Start[i + 1] <= hi => i <= Len(out)

\* Between messages the unconsumed bytes start at a message: the residual that
\* teardown_for_reexec() hands over can be parsed by somebody else.
ResidualOnBoundary ==
  pc = "read" /\ state = "WaitingForHeaders" => lo = Start[Len(out) + 1]

\* Only a message that has to be rejected stops the parser: no slice of a body
\* is ever taken for a header block, and the buffer limit never stops it.
NoSpuriousFailure ==
  pc = "failed" => Len(out) < N /\ (Rejected(Len(out) + 1) \/ Undecodable(Len(out) + 1))

=============================================================================
