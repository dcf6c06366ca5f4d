------------------------------- MODULE Framing -------------------------------
(* One connection between a TcpConnection and the EpollServer: a stream of   *)
(* bytes each way, cut into messages by a prefix with their length. A byte   *)
(* is known by its message and its place in it, prefix first; what the four  *)
(* bytes of a prefix say is the length of that message, and four bytes that  *)
(* are not a prefix may say anything.                                        *)
EXTENDS Naturals, Sequences

CONSTANTS
  Request,     \* the lengths of the messages the client sends, in this order
  Answer,      \* the length of the answer to each
  Stray,       \* the length of an answer to another client, sent here by mistake
  PrefixSize,  \* sizeof(uint32_t)
  MaxLength,   \* 1 MiB: what receive() takes for a message
  Room,        \* bytes the socket buffers hold towards the client
  ConnectionTimeout  \* connection_timeout in seconds; 0, as for a TcpClient, is none

ASSUME LengthAssumption ==
  /\ Request \in Seq(Nat) /\ Answer \in Seq(Nat) /\ Len(Answer) = Len(Request)
  /\ {Stray, MaxLength, Room, ConnectionTimeout} \subseteq Nat /\ PrefixSize \in Nat \ {0}

VARIABLES
  client,     \* [connected: connected_, fd: is fd_ open, closed: close() was called]
  server,     \* is the server's descriptor open
  up, down,   \* bytes on their way, in each direction
  sent,       \* requests the client has sent
  buffer,     \* receive_buffer
  extracted,  \* the messages handleClientData has given to the workers
  waiting,    \* of those, the ones no worker has answered yet
  reading,    \* what receive() waits for: nothing, a prefix, or so many bytes of a body
  received,   \* what receive() has returned
  strays,     \* stray answers so far
  cut,        \* history: an answer was not written to its end
  overlap,    \* history: the client had two requests under way
  expired     \* history: a send() or receive() failed although the server was there

vars == <<client, server, up, down, sent, buffer, extracted, waiting, reading, received, strays, cut, overlap, expired>>

Nothing   == [stage |-> "nothing", length |-> 0]
Prefix    == [stage |-> "prefix", length |-> PrefixSize]
BodyOf(n) == [stage |-> "body", length |-> n]

StrayId == Len(Request) + 1
Replies == Append(Answer, Stray)
Message(id, length) == [i \in 1..(PrefixSize + length) |-> [of |-> id, at |-> i]]
Body(id, length) == SubSeq(Message(id, length), PrefixSize + 1, PrefixSize + length)

\* what the first bytes of b may say
Lengths(b, lengths) ==
  IF \A i \in 1..PrefixSize : b[i] = [of |-> b[1].of, at |-> i]
  THEN {lengths[b[1].of]} ELSE 0..(MaxLength + 1)

From(b, n) == SubSeq(b, n, Len(b))
Least(m, n) == IF m < n THEN m ELSE n

Init ==
  /\ client = [connected |-> TRUE, fd |-> TRUE, closed |-> FALSE] /\ server = TRUE
  /\ up = << >> /\ down = << >> /\ sent = 0
  /\ buffer = << >> /\ extracted = << >> /\ waiting = {}
  /\ reading = Nothing /\ received = << >> /\ strays = 0 
  /\ cut = FALSE /\ overlap = FALSE /\ expired = FALSE

-----------------------------------------------------------------------------
\* TcpConnection, used by one thread at a time

\* SO_RCVTIMEO and SO_SNDTIMEO: a wait may be over before what it is for has come
Expires_never == FALSE  \* mutant: the socket options are not set
Expires == ConnectionTimeout > 0

\* ::send() is repeated until all is written; that the server has gone shows later
Send ==
  /\ client.connected /\ reading = Nothing
  /\ sent < Len(Request)
  /\ sent' = sent + 1
  /\ up' = IF server THEN up \o Message(sent + 1, Request[sent + 1]) ELSE up
  /\ overlap' = (overlap \/ Len(received) < sent)
  /\ UNCHANGED <<client, server, down, buffer, extracted, waiting, reading, received, strays, cut, expired>>

\* or it fails, with a part of the message on its way
SendFails ==
  /\ client.connected /\ reading = Nothing
  /\ sent < Len(Request)
  /\ IF server THEN /\ Expires
                    /\ \E n \in 0..(PrefixSize + Request[sent + 1] - 1) :
                         up' = up \o SubSeq(Message(sent + 1, Request[sent + 1]), 1, n)
     ELSE UNCHANGED up
  /\ client' = [client EXCEPT !.connected = FALSE]
  /\ expired' = (expired \/ server)
  /\ UNCHANGED <<server, down, sent, buffer, extracted, waiting, reading, received, strays, cut, overlap>>

Receive ==
  /\ client.connected /\ reading = Nothing /\ Len(received) < sent
  /\ reading' = Prefix
  /\ UNCHANGED <<client, server, up, down, sent, buffer, extracted, waiting, received, strays, cut, overlap, expired>>

Refused(length) == length = 0 \/ length > MaxLength

ReceivePrefix ==
  /\ reading = Prefix /\ Len(down) >= PrefixSize
  /\ \E length \in Lengths(down, Replies) :
       IF Refused(length)
       THEN reading' = Nothing /\ client' = [client EXCEPT !.connected = FALSE]
       ELSE reading' = BodyOf(length) /\ UNCHANGED client
  /\ down' = From(down, PrefixSize + 1)
  /\ UNCHANGED <<server, up, sent, buffer, extracted, waiting, received, strays, cut, overlap, expired>>

Portion_any(length) == 1..Least(length, Len(down))  \* mutant: without MSG_WAITALL
Portion(length) == {n \in {length} : n <= Len(down)}

ReceiveBody ==
  /\ reading.stage = "body"
  /\ \E n \in Portion(reading.length) :
       received' = Append(received, SubSeq(down, 1, n)) /\ down' = From(down, n + 1)
  /\ reading' = Nothing
  /\ UNCHANGED <<client, server, up, sent, buffer, extracted, waiting, strays, cut, overlap, expired>>

\* recv(MSG_WAITALL) comes back with less than it was asked for, which is lost
ReceiveFails ==
  /\ reading # Nothing /\ (~server \/ Expires)
  /\ Len(down) < reading.length
  /\ reading' = Nothing /\ client' = [client EXCEPT !.connected = FALSE] /\ down' = << >>
  /\ expired' = (expired \/ server)
  /\ UNCHANGED <<server, up, sent, buffer, extracted, waiting, received, strays, cut, overlap>>

ClosedFd_never == client.fd  \* mutant: only connected_ is cleared
ClosedFd == client.fd /\ ~client.connected

Close ==
  /\ ~client.closed /\ reading = Nothing
  /\ client' = [connected |-> FALSE, fd |-> ClosedFd, closed |-> TRUE]
  /\ UNCHANGED <<server, up, down, sent, buffer, extracted, waiting, reading, received, strays, cut, overlap, expired>>

\* the client's process dies, maybe in the middle of send()
Die ==
  /\ client.fd
  /\ \/ UNCHANGED up
     \/ /\ client.connected /\ reading = Nothing /\ server /\ sent < Len(Request)
        /\ \E n \in 1..(PrefixSize + Request[sent + 1] - 1) :
             up' = up \o SubSeq(Message(sent + 1, Request[sent + 1]), 1, n)
  /\ client' = [connected |-> FALSE, fd |-> FALSE, closed |-> TRUE] /\ reading' = Nothing
  /\ UNCHANGED <<server, down, sent, buffer, extracted, waiting, received, strays, cut, overlap, expired>>

-----------------------------------------------------------------------------
\* EpollServer

\* extractMessages: the complete messages at the front of b, and the rest
Complete(b) ==
  /\ Len(b) >= PrefixSize
  /\ Len(b) >= PrefixSize + CHOOSE n \in Lengths(b, Request) : TRUE

Rest_cleared(b, n) == IF n = 1 THEN b ELSE << >>       \* mutant: clear(), not erase()
Rest(b, n) == From(b, n)

ExtractMessages(b) ==
  LET cuts[n \in 0..Len(b)] ==  \* where the n-th message begins, as far as it is complete
        IF n = 0 THEN 1
        ELSE LET rest == From(b, cuts[n - 1])
             IN  IF Complete(rest)
                 THEN cuts[n - 1] + PrefixSize + CHOOSE k \in Lengths(rest, Request) : TRUE
                 ELSE cuts[n - 1]
      found == {n \in 1..Len(b) : cuts[n] > cuts[n - 1]}
  IN  [messages |-> [n \in found |-> SubSeq(b, cuts[n - 1] + PrefixSize, cuts[n] - 1)],
       rest     |-> Rest(b, cuts[Len(b)])]

\* one recv() of handleClientData returns any part of what has come
HandleClientData ==
  /\ server
  /\ \E n \in 1..Len(up) :
       LET found == ExtractMessages(buffer \o SubSeq(up, 1, n))
       IN  /\ up' = From(up, n + 1)
           /\ buffer' = found.rest
           /\ extracted' = extracted \o found.messages
           /\ waiting' = waiting \union (Len(extracted) + 1)..Len(extracted')
  /\ UNCHANGED <<client, server, down, sent, reading, received, strays, cut, overlap, expired>>

EndRead_buffered == up = << >> /\ buffer = << >>  \* mutant: waits for the rest of a message
EndRead == up = << >>

\* recv() returns 0
CloseConnection ==
  /\ server /\ ~client.fd /\ EndRead
  /\ server' = FALSE
  /\ UNCHANGED <<client, up, down, sent, buffer, extracted, waiting, reading, received, strays, cut, overlap, expired>>

\* stop()
Stop ==
  /\ server
  /\ server' = FALSE
  /\ UNCHANGED <<client, up, down, sent, buffer, extracted, waiting, reading, received, strays, cut, overlap, expired>>

\* one send(), which takes what there is room for
Written(m) == SubSeq(m, 1, Least(Len(m), Room - Len(down)))

SendResponse(m) ==
  IF server /\ client.fd
  THEN down' = down \o Written(m) /\ cut' = (cut \/ Len(Written(m)) < Len(m))
  ELSE UNCHANGED <<down, cut>>

HandleRequest(r) ==
  /\ r \in waiting
  /\ waiting' = waiting \ {r}
  /\ SendResponse(Message(r, Answer[r]))
  /\ UNCHANGED <<client, server, up, sent, buffer, extracted, reading, received, strays, overlap, expired>>

\* another connection had this descriptor when its request came
AnswerAstray ==
  /\ strays = 0
  /\ strays' = 1
  /\ SendResponse(Message(StrayId, Stray))
  /\ UNCHANGED <<client, server, up, sent, buffer, extracted, waiting, reading, received, overlap, expired>>

ClientStep == Receive \/ ReceivePrefix \/ ReceiveBody \/ ReceiveFails
ServerStep == HandleClientData \/ CloseConnection \/ \E r \in waiting : HandleRequest(r)
Next == ClientStep \/ ServerStep \/ Send \/ SendFails \/ Close \/ Die \/ Stop \/ AnswerAstray

Spec == Init /\ [][Next]_vars

\* recv() and send() return when they can, or when their time is over; events are reported; workers work
FairSpec == Spec /\ WF_vars(ClientStep) /\ WF_vars(ServerStep)

-----------------------------------------------------------------------------
Bytes(lengths) == [of : 1..Len(lengths), at : Nat \ {0}]

TypeOK ==
  /\ client \in [connected : BOOLEAN, fd : BOOLEAN, closed : BOOLEAN] /\ server \in BOOLEAN
  /\ up \in Seq(Bytes(Request)) /\ buffer \in Seq(Bytes(Request))
  /\ down \in Seq(Bytes(Replies)) /\ Len(down) <= Room
  /\ sent \in 0..Len(Request) /\ waiting \subseteq 1..Len(Request)
  /\ reading \in {Nothing, Prefix} \union {BodyOf(n) : n \in 1..MaxLength}
  /\ extracted \in Seq(Seq(Bytes(Request))) /\ received \in Seq(Seq(Bytes(Replies)))
  /\ strays \in 0..1 /\ {cut, overlap, expired} \subseteq BOOLEAN

\* The workers get the client's requests, each once, whole and in order,
\* however TCP cuts the stream and wherever the client dies; extractMessages
\* leaves no complete one behind, since there may be no further event to take
\* it out.
RequestsWhole ==
  /\ TypeOK
  /\ Len(extracted) <= sent
  /\ \A r \in DOMAIN extracted : extracted[r] = Body(r, Request[r])
  /\ ~Complete(buffer)

\* receive() returns whole messages that the server has sent, no two the same,
\* unless an answer did not fit into the socket buffer; from then on it may
\* return anything.  A client that has one request under way gets its answer,
\* unless a stray one has come: nothing checks what an answer belongs to.
AnswersWhole ==
  ~cut => /\ \A k \in DOMAIN received : \E r \in 1..StrayId : received[k] = Body(r, Replies[r])
          /\ \A j, k \in DOMAIN received : received[j] = received[k] => j = k
          /\ strays = 0 /\ ~overlap =>
               \A k \in DOMAIN received : received[k] = Body(k, Replies[k])

\* A connection fails only for an answer that is empty, too long, cut or late, or
\* because the server has gone; nothing else makes close() leave the descriptor
\* open, so that the server keeps a connection it never hears of again.
FailsForAReason ==
  ~client.connected /\ client.fd /\ server /\ ~cut /\ ~expired =>
    \E r \in 1..Len(extracted) \union (IF strays > 0 THEN {StrayId} ELSE {}) : Refused(Replies[r])

\* Why these hold, as an inductive invariant.

\* the last byte of its message
Final(lengths, b) == b.at = PrefixSize + lengths[b.of]

\* In s each message runs on from byte to byte until it ends.
Runs(lengths, s) ==
  \A i \in DOMAIN s :
    /\ s[i].at <= PrefixSize + lengths[s[i].of]
    /\ i < Len(s) => IF Final(lengths, s[i]) THEN s[i + 1].at = 1
                     ELSE s[i + 1] = [of |-> s[i].of, at |-> s[i].at + 1]

\* The messages in s begin in the order they were sent, after the last-th.
InOrder(s, last) ==
  /\ s # << >> => s[1] = [of |-> last + 1, at |-> 1]
  /\ \A i \in 1..(Len(s) - 1) : s[i + 1].at = 1 => s[i + 1].of = s[i].of + 1

\* s holds what the client sent after its last-th message: messages up to the
\* n-th, and at most a part of one more.
Queued(s, last, n) ==
  /\ Runs(Request, s) /\ InOrder(s, last)
  /\ \A i \in DOMAIN s : s[i].of <= n \/ (s[i].of = n + 1 /\ ~Final(Request, s[i]))

\* s holds the n-th message to its end.
Reaches(s, last, n) ==
  IF s = << >> THEN last = n ELSE s[Len(s)].of = n /\ Final(Request, s[Len(s)])

\* What has arrived goes on where the extracted messages end, in the order they
\* were sent; only the last message of a client that died may lack its end.
UpStream ==
  /\ Len(extracted) <= sent
  /\ \A r \in DOMAIN extracted : extracted[r] = Body(r, Request[r])
  /\ ~Complete(buffer)
  /\ Queued(buffer \o up, Len(extracted), sent)
  /\ client.connected /\ server => Reaches(buffer \o up, Len(extracted), sent)

Astray == IF strays > 0 THEN {StrayId} ELSE {}
Returned == {received[k][1].of : k \in DOMAIN received}
Coming == {down[i].of : i \in DOMAIN down}

\* Each answer is waited for, on its way or returned, and only one of these.
Answered ==
  /\ waiting \subseteq 1..Len(extracted)
  /\ \A k \in DOMAIN received :
       /\ received[k] # << >> /\ received[k] = Body(received[k][1].of, Replies[received[k][1].of])
  /\ \A j, k \in DOMAIN received : received[j][1].of = received[k][1].of => j = k
  /\ Returned \union Coming \subseteq ((1..Len(extracted)) \ waiting) \union Astray
  /\ ~overlap => sent <= Len(received) + 1
  /\ strays = 0 /\ ~overlap => \A k \in DOMAIN received : received[k][1].of = k

\* s holds each of its messages once, and to its end.
Whole(lengths, s) ==
  /\ Runs(lengths, s)
  /\ \A i, j \in DOMAIN s : s[i].of = s[j].of => s[i].at + j = s[j].at + i
  /\ s # << >> => Final(lengths, s[Len(s)])

\* What is on its way to the client are whole messages, after what receive() has
\* read of the first one.
DownStream ==
  /\ Whole(Replies, down)
  /\ Coming \cap Returned = {}
  /\ IF reading.stage = "body"
     THEN down # << >> /\ down[1].at = PrefixSize + 1 /\ reading.length = Replies[down[1].of]
     ELSE down # << >> => down[1].at = 1

\* Both streams are in order at every moment, as far as no answer was cut, and the
\* reasons for which a connection fails: inductive (module EpollServerProofs).
IInv ==
  /\ TypeOK /\ UpStream
  /\ reading # Nothing => client.connected
  /\ ~cut => Answered
  /\ ~cut /\ client.connected => DownStream
  /\ FailsForAReason

\* receive() returns, however long the server takes and whatever it has sent; on a
\* socket without a time-out, unless an answer was cut.
ReceiveEnds == (reading # Nothing) ~> (reading = Nothing \/ (ConnectionTimeout = 0 /\ cut))

\* The server gives up the descriptor of a client that has closed its own.
ServerHears == ~client.fd ~> ~server

=============================================================================
