----------------------------- MODULE Handshake ------------------------------
(***************************************************************************)
(* connect_with_auth(): from the TCP connect to the point where the reader *)
(* task takes over the socket and the parser.                              *)
(*                                                                         *)
(* The server's bytes are abstracted to tokens: a header name, the colon,  *)
(* the parts of a value that the code tells apart, a newline, a body.  They *)
(* arrive in pieces of any size, with a pause of any length between two    *)
(* pieces.                                                                 *)
(***************************************************************************)
EXTENDS Integers, Sequences, FiniteSetsExt

CONSTANTS
  Greetings,    \* the messages a new connection may be greeted with
  Acceptances,  \* the replies that let the client in
  Refusals,     \* the replies that do not
  Notices       \* what the server may write of its own accord

VARIABLES
  pc,         \* where connect_with_auth() is
  method,     \* the AuthMethod
  stream,     \* what the server has written
  ends,       \* the positions of the stream where one of its messages ends
  arrived,    \* how much of it has reached this host
  read,       \* how much of it the parser was fed
  pos,        \* how much of it the parser has consumed
  pending,    \* ParseState: the message whose body is awaited
  closed,     \* the server has closed its side
  greeting,   \* what the server greeted with
  accepted,   \* whether the server let the client in
  text,       \* the Reply-Text the client found in the reply
  salvaged,   \* the reply was salvaged from a truncated one
  result      \* what connect_with_auth() returned

serverVars == <<stream, ends, closed, greeting, accepted>>
vars == <<pc, method, stream, ends, arrived, read, pos, pending, closed, greeting,
          accepted, text, salvaged, result>>

(***************************************************************************)
(* Header blocks: a sequence of tokens b, cut into lines by newlines and   *)
(* ended by an empty line.                                                 *)
(***************************************************************************)
nl == "\n"
CT == "Content-Type"
CL == "Content-Length"
RT == "Reply-Text"

Newlines(b) == {i \in DOMAIN b : b[i] = nl}
Starts(b) == {i \in DOMAIN b : b[i] # nl /\ (i = 1 \/ b[i - 1] = nl)}
LineEnd(b, i) == Min({j \in Newlines(b) : i <= j} \cup {Len(b) + 1}) - 1

\* Where EslBuffer finds the empty line that ends a header block.
Terminators(b) == {i \in 1 .. Len(b) - 1 : b[i] = nl /\ b[i + 1] = nl}
HeaderEnd(b) == Min(Terminators(b))
Block(b) == SubSeq(b, 1, HeaderEnd(b) - 1)

\* InvalidHeader: a line without a colon.
Malformed(b) == \E i \in Starts(b) : \A j \in i .. LineEnd(b, i) : b[j] # ":"

Lines(b, name) == {i \in Starts(b) : b[i] = name /\ i < Len(b) /\ b[i + 1] = ":"}

Absent == <<"absent">>

\* The last line of that name counts, as in the header map.
Header(b, name) ==
  LET line == Max(Lines(b, name))
  IN  IF Lines(b, name) = {} THEN Absent ELSE SubSeq(b, line + 2, LineEnd(b, line))

MessageTypes == {"auth/request", "command/reply", "text/rude-rejection", "text/disconnect-notice"}

\* The type of a header block, or "error" where the parser gives up on it.
TypeOf(b) ==
  LET type == Header(b, CT)
  IN  IF Malformed(b) \/ Len(type) # 1 \/ type[1] \notin MessageTypes THEN "error" ELSE type[1]

BodyLength(b) == IF Lines(b, CL) = {} THEN 0 ELSE 1

\* Faulty variant: only an explicit -ERR is a failure.
is_success_lenient(reply) == reply # <<"-", "ERR">>

\* EslResponse: the reply is good if Reply-Text is absent, empty or +OK.
is_success(reply) == reply \in {Absent, <<>>} \/ (Len(reply) >= 2 /\ SubSeq(reply, 1, 2) = <<"+", "OK">>)

(***************************************************************************)
(* What the server writes: messages, and acceptances that the switch's     *)
(* reply[512] cut short, terminator included.                              *)
(***************************************************************************)
Framed(m) == Terminators(m) # {} /\ Len(m) = HeaderEnd(m) + 1 + BodyLength(Block(m))

Truncated == UNION {{SubSeq(a, 1, n) : n \in 1 .. HeaderEnd(a)} : a \in Acceptances}

Replies == Acceptances \cup Refusals \cup Notices \cup Truncated

\* Every message is framed as its headers say.
ASSUME MessagesFramed ==
  \A m \in Greetings \cup Acceptances \cup Refusals \cup Notices : m \in Seq(STRING) /\ Framed(m)

\* The reply to auth is a header block alone.
ASSUME AcceptancesBare == \A a \in Acceptances : BodyLength(Block(a)) = 0

\* A message that the server writes of its own accord starts with its type.
ASSUME NoticesTyped == \A m \in Notices : m[1] = CT

\* Only an acceptance has a Reply-Text that starts with a plus sign.
ASSUME OthersRefuse ==
  \A m \in Refusals \cup Notices : \A i \in 1 .. HeaderEnd(m) - 2 :
    m[i] = RT /\ m[i + 1] = ":" => m[i + 2] # "+"

-----------------------------------------------------------------------------
\* Nothing is awaited in WaitingForHeaders.
NoBody == [type |-> "none", reply |-> Absent, body |-> 0]

\* The parser's buffer: what was read and not consumed.
Buffer == SubSeq(stream, pos + 1, read)

HeadersComplete == pending = NoBody /\ Terminators(Buffer) # {}
BodyComplete == pending # NoBody /\ read - pos >= pending.body

Results == {"none", "ok", "AuthFailed", "AccessDenied", "ProtocolError", "ConnectionClosed",
            "Timeout", "Io"}

TypeOK ==
  /\ pc \in {"start", "greeting", "writing", "reply", "done"}
  /\ method \in {"password", "user@domain", "user"}
  /\ ends \subseteq 0 .. Len(stream)
  /\ pos \in 0 .. read /\ read \in 0 .. arrived /\ arrived \in 0 .. Len(stream)
  /\ pending.body \in 0 .. 1
  /\ closed \in BOOLEAN /\ accepted \in BOOLEAN /\ salvaged \in BOOLEAN
  /\ result \in Results
  /\ result # "none" <=> pc = "done"

Init ==
  /\ pc = "start"
  /\ method \in {"password", "user@domain", "user"}
  /\ greeting \in Greetings
  /\ stream = greeting
  /\ ends = {Len(greeting)}
  /\ arrived = 0 /\ read = 0 /\ pos = 0
  /\ pending = NoBody
  /\ closed = FALSE
  /\ accepted = FALSE
  /\ text = Absent
  /\ salvaged = FALSE
  /\ result = "none"

Return(r) == pc' = "done" /\ result' = r

\* The name check comes before the socket; then connect or fail.
Connect ==
  /\ pc = "start"
  /\ \/ method = "user" /\ Return("AuthFailed")
     \/ method # "user" /\ pc' = "greeting" /\ UNCHANGED result
     \/ method # "user" /\ \E r \in {"Io", "Timeout"} : Return(r)
  /\ UNCHANGED <<method, serverVars, arrived, read, pos, pending, text, salvaged>>

(***************************************************************************)
(* What authenticate() does with a message.                                *)
(***************************************************************************)
Greet(type) ==
  /\ pc = "greeting"
  /\ CASE type = "text/rude-rejection" -> Return("AccessDenied")
       [] type = "auth/request" -> pc' = "writing" /\ UNCHANGED result
       [] OTHER -> Return("ProtocolError")
  /\ UNCHANGED text

\* The type of the reply is not looked at.
Classify(reply) ==
  /\ pc = "reply"
  /\ text' = reply
  /\ Return(IF is_success(reply) THEN "ok" ELSE "AuthFailed")

Message(type, reply) == Greet(type) \/ Classify(reply)

Receiving == pc \in {"greeting", "reply"}

(***************************************************************************)
(* recv_message(): parse what is buffered, read when it is not enough.     *)
(***************************************************************************)
\* Faulty variant: the whole buffer is taken.
AfterBlockDrains == read

\* Where the header block and its terminator end.
AfterBlock == pos + HeaderEnd(Buffer) + 1

ParseHeaderFrame ==
  /\ Receiving
  /\ HeadersComplete
  /\ pos' = AfterBlock
  /\ \E block \in {Block(Buffer)} :
       \/ /\ TypeOf(block) = "error"
          /\ Return("ProtocolError")
          /\ UNCHANGED <<pending, text>>
       \/ /\ TypeOf(block) # "error" /\ BodyLength(block) = 0
          /\ Message(TypeOf(block), Header(block, RT))
          /\ UNCHANGED pending
       \/ /\ TypeOf(block) # "error" /\ BodyLength(block) > 0
          /\ pending' = [type |-> TypeOf(block), reply |-> Header(block, RT), body |-> BodyLength(block)]
          /\ UNCHANGED <<pc, text, result>>
  /\ UNCHANGED <<method, serverVars, arrived, read, salvaged>>

ParseBodyFrame ==
  /\ Receiving
  /\ BodyComplete
  /\ pos' = pos + pending.body
  /\ pending' = NoBody
  /\ Message(pending.type, pending.reply)
  /\ UNCHANGED <<method, serverVars, arrived, read, salvaged>>

NeedsData == Receiving /\ ~HeadersComplete /\ ~BodyComplete

Read ==
  /\ NeedsData
  /\ \/ /\ read < arrived
        /\ read' = arrived
        /\ UNCHANGED <<pc, result>>
     \/ /\ read = arrived /\ closed /\ arrived = Len(stream)
        /\ Return("ConnectionClosed")
        /\ UNCHANGED read
  /\ UNCHANGED <<method, serverVars, arrived, pos, pending, text, salvaged>>

ReadFails ==
  /\ NeedsData
  /\ Return("Io")
  /\ UNCHANGED <<method, serverVars, arrived, read, pos, pending, text, salvaged>>

(***************************************************************************)
(* A read that waits connect_timeout in vain.  In the second wait, what is *)
(* buffered may be the reply without its terminator.                       *)
(***************************************************************************)
LastNewline(b) == Max(Newlines(b))

\* All complete lines, and the last one too if its name is complete.
SalvageBlock(b) ==
  IF LastNewline(b) = Len(b) \/ \E i \in LastNewline(b) + 1 .. Len(b) : b[i] = ":" THEN b
  ELSE SubSeq(b, 1, LastNewline(b) - 1)

Salvageable == pending = NoBody /\ Newlines(Buffer) # {}

\* Faulty variant: a truncated reply is waited for again.
IdleWaits ==
  /\ NeedsData
  /\ read = arrived
  /\ pc = "greeting" \/ ~Salvageable
  /\ Return("Timeout")
  /\ UNCHANGED <<method, serverVars, arrived, read, pos, pending, text, salvaged>>

Idle ==
  /\ NeedsData
  /\ read = arrived
  /\ \/ /\ pc = "greeting" \/ ~Salvageable
        /\ Return("Timeout")
        /\ UNCHANGED <<pos, text, salvaged>>
     \/ /\ pc = "reply" /\ Salvageable
        /\ \E block \in {SalvageBlock(Buffer)} :
             \/ /\ TypeOf(block) # "command/reply"
                /\ Return("ProtocolError")
                /\ UNCHANGED <<pos, text, salvaged>>
             \/ /\ TypeOf(block) = "command/reply"
                /\ Classify(Header(block, RT))
                /\ pos' = read
                /\ salvaged' = TRUE
  /\ UNCHANGED <<method, serverVars, arrived, read, pending>>

\* write_all() of auth or userauth, and what the server makes of it; one that has
\* closed its side answers nothing.
WriteAuth ==
  /\ pc = "writing"
  /\ \/ /\ Return("Io")
        /\ UNCHANGED serverVars
     \/ /\ closed
        /\ pc' = "reply"
        /\ UNCHANGED <<result, serverVars>>
     \/ /\ ~closed
        /\ pc' = "reply"
        /\ \E r \in Replies, more \in {<<>>} \cup Notices :
             /\ stream' = stream \o r \o more
             /\ ends' = ends \cup {Len(stream) + Len(r), Len(stream')}
             /\ accepted' = (r \in Acceptances \cup Truncated)
        /\ UNCHANGED <<result, closed, greeting>>
  /\ UNCHANGED <<method, arrived, read, pos, pending, text, salvaged>>

(***************************************************************************)
(* The network and the server's close.                                     *)
(***************************************************************************)
Arrive ==
  /\ pc \notin {"start", "done"}
  /\ \E n \in arrived + 1 .. Len(stream) : arrived' = n
  /\ UNCHANGED <<pc, method, serverVars, read, pos, pending, text, salvaged, result>>

ServerCloses ==
  /\ Receiving
  /\ ~closed
  /\ closed' = TRUE
  /\ UNCHANGED <<pc, method, stream, ends, arrived, read, pos, pending, greeting, accepted,
                 text, salvaged, result>>

Client ==
  \/ Connect
  \/ ParseHeaderFrame \/ ParseBodyFrame
  \/ Read \/ ReadFails \/ Idle
  \/ WriteAuth

Next == Client \/ Arrive \/ ServerCloses

Spec == Init /\ [][Next]_vars

\* The task is polled and its timers fire; the server owes nothing.
FairSpec == Spec /\ WF_vars(Connect) /\ WF_vars(ParseHeaderFrame) /\ WF_vars(ParseBodyFrame)
                 /\ WF_vars(Read) /\ WF_vars(Idle) /\ WF_vars(WriteAuth)

-----------------------------------------------------------------------------
\* The reader task takes over a parser that stands on a message boundary: what
\* was read past the reply is kept for it and nothing of the reply is left, in
\* whatever pieces greeting and reply arrived.  (A salvaged reply is its own case.)
StartsOnBoundary == result = "ok" /\ ~salvaged => pos \in ends

\* A reply with text is believed for what it says, salvaged or not: no cut of a
\* refusal reads as an acceptance and no later header of the block changes it.
OkMeansAccepted == result = "ok" /\ text \notin {Absent, <<>>} => accepted

\* connect_with_auth() succeeds only if the server let the client in: an auth
\* reply without Reply-Text is an error of its own in authenticate().
AuthenticatedMeansAccepted == result = "ok" => accepted

\* connect_with_auth() returns, whatever the server sends or keeps to itself.
HandshakeEnds == <>(pc = "done")

=============================================================================
