---------------------------- MODULE StreamSession ----------------------------
(***************************************************************************)
(* The streaming mode: the Trevisan server (stream_ops.cc, and dispatch /  *)
(* trevisan_dispatcher of extractor.cc which call it) and the client       *)
(* program stream_tst_data.c run as data ("d"), seed ("s") and output      *)
(* ("o") client, over one TCP connection each.  A connection is a pair of  *)
(* byte streams; a byte is <<m, k>>, the k-th byte of message m, so that a *)
(* receiver that loses its place in the stream is seen to read wrong bytes.*)
(* The error exits of purely local calls (socket, bind, accept, calloc)    *)
(* end the process as a kill does and are not repeated.                    *)
(***************************************************************************)
EXTENDS Integers, Sequences, FiniteSets

CONSTANTS
  Clients,    \* the client processes started against the server
  Role,       \* Role[c]: the -t argument of client c
  None,       \* no socket (the server's socket_fd_* are 0)
  Hdr,        \* bytes of a header (8 in the code; 4 while identifying)
  BlkAmt,     \* BLK_AMT: most bytes passed to one send or recv
  SockBuf,    \* bound: bytes a connection holds in one direction
  CmdLen, DataLen, SeedLen, OutLen,   \* payload bytes of each kind
  MinCmd,     \* least command payload the server parses (14 in the code)
  Garbage,    \* values the data client's uninitialised n may hold
  Fragments,  \* whether a header may arrive, or be accepted, in pieces
  DryRuns,    \* whether the server is started with --dry-run
  MaxKills,   \* bound: how many processes are ended from outside
  NGen        \* bound: generation numbers are kept modulo NGen

Roles == {"d", "s", "o"}
Smaller(x, y) == IF x < y THEN x ELSE y

ASSUME SessionAssumption ==
  /\ Role \in [Clients -> Roles] /\ None \notin Clients
  /\ {Hdr, BlkAmt, SockBuf} \subseteq Nat /\ 1 <= Hdr /\ Hdr <= BlkAmt /\ BlkAmt <= SockBuf
  /\ {CmdLen, DataLen, SeedLen, OutLen} \subseteq Nat \ {0} /\ MinCmd \in 0 .. CmdLen
  /\ Hdr <= OutLen   \* see SendAck
  /\ Garbage \subseteq Int /\ Fragments \subseteq BOOLEAN /\ DryRuns \subseteq BOOLEAN
  /\ NGen \in Nat \ {0} /\ MaxKills \in Nat

VARIABLES
  spc,      \* server: "accept", "ident", "request", "header", "payload",
            \* "extract", "output", "ack" or "exited"
  step,     \* the exchange in progress: "c", "d", "s" or "o"
  accepted, \* clients_accepted
  fd,       \* fd[r]: client whose socket serves role r (socket_fd_data, ...)
  cur,      \* new_sd: the connection being identified
  backlog,  \* connections waiting for accept
  need,     \* bytes of the reply announced by its header (len)
  got,      \* bytes of it received so far (data_array, accum)
  n,        \* pp_n: payload bytes of weak data the command line asks for
  dataBuf,  \* generation of the weak data in global_rand_vector
  taken,    \* history: generations of data and seed the last extraction used
  acked,    \* history: the ones of the last acknowledged output
  toS, toC, \* toS[c], toC[c]: bytes in flight to the server, to client c
  cpc,      \* client: "new", "ident", "wait", "send", "recv", "ack", "exited"
  msg,      \* msg[c]: the message the client is sending or receiving
  done,     \* done[c]: bytes of it sent, or the sequence of bytes received
  size,     \* size[c]: n of the client program
  gen,      \* gen[c]: how many blocks of data or seed it has generated
  delivered,\* history: generations of the last output received in full
  fragment, \* the network splits headers in this behaviour
  dryRun,   \* --dry-run: the server ends a round when it has the weak data
  killed    \* history: the processes ended from outside

server == <<spc, step, accepted, fd, cur, need, got, n, dataBuf, taken, acked>>
client == <<cpc, msg, done, size, gen, delivered>>
network == <<backlog, toS, toC>>
setup  == <<fragment, dryRun>>
vars   == <<server, client, network, setup, killed>>

\* kind: two characters of the header; len: payload bytes; tag: what is inside
Msg(kind, len, tag) == [kind |-> kind, len |-> len, tag |-> tag]
NoMsg == Msg("", 0, <<0, 0>>)
Bytes(m, from, to) == [k \in 1 .. to - from + 1 |-> <<m, from + k - 1>>]

\* A header is recognised when its bytes are exactly those of one message.
IsHeader(bs) == Len(bs) = Hdr /\ bs = Bytes(bs[1][1], 1, Hdr)
\* What a filled buffer holds: the tag of one message's payload, or garbage.
Content(bs) == IF bs = Bytes(bs[1][1], Hdr + 1, Hdr + Len(bs)) THEN bs[1][1].tag ELSE <<-1, -1>>

Up == spc # "exited"
InRounds == spc \notin {"accept", "ident", "exited"}
Closed(c) == cpc[c] = "exited"

\* Bytes one recv of at most want may return.
Received(stream, want) ==
  {SubSeq(stream, 1, k) : k \in 1 .. Smaller(want, Len(stream))}
\* The same for a header.
ReceivedHeader(stream) ==
  IF fragment THEN Received(stream, Hdr)
  ELSE IF Len(stream) < Hdr THEN {} ELSE {SubSeq(stream, 1, Hdr)}
\* a slip: the last piece is not limited to what remains
ChunkFull(left) == BlkAmt
\* incr: BLK_AMT at a time, in the end what remains
Chunk(left) == Smaller(BlkAmt, left)
Rest(stream, bs) == SubSeq(stream, Len(bs) + 1, Len(stream))

-----------------------------------------------------------------------------
Init ==
  /\ spc = "accept" /\ step = "c" /\ cur = None /\ backlog = <<>>
  /\ accepted = 0 /\ fd = [r \in Roles |-> None]
  /\ need = 0 /\ got = <<>> /\ n = 0 /\ dataBuf = 0
  /\ taken = <<0, 0>> /\ acked = <<0, 0>> /\ delivered = <<0, 0>>
  /\ toS = [c \in Clients |-> <<>>] /\ toC = [c \in Clients |-> <<>>]
  /\ cpc = [c \in Clients |-> "new"]
  /\ msg = [c \in Clients |-> NoMsg] /\ done = [c \in Clients |-> <<>>]
  /\ size \in {f \in [Clients -> Garbage \cup {0}] :   \* only a data client reads it
                \A c \in Clients : IF Role[c] = "d" THEN f[c] \in Garbage ELSE f[c] = 0}
  /\ gen = [c \in Clients |-> 0]
  /\ killed = {} /\ fragment \in Fragments /\ dryRun \in DryRuns

(***************************************************************************)
(* The end of a process closes its connections.  What it had sent and the  *)
(* peer has not read stays readable, unless the process left bytes unread: *)
(* then the connection may be reset and they are lost.                     *)
(***************************************************************************)
ServerExits ==
  /\ spc' = "exited"
  /\ toS' = [c \in Clients |-> <<>>]
  /\ \E reset \in SUBSET {c \in Clients : toS[c] # <<>>} :
       toC' = [c \in Clients |-> IF c \in reset THEN <<>> ELSE toC[c]]
  /\ UNCHANGED <<step, accepted, fd, cur, need, got, n, dataBuf, taken, acked>>

ClientExits(c) ==
  /\ cpc' = [cpc EXCEPT ![c] = "exited"]
  /\ toC' = [toC EXCEPT ![c] = <<>>]
  /\ \/ toS' = toS
     \/ toC[c] # <<>> /\ toS' = [toS EXCEPT ![c] = <<>>]
  /\ UNCHANGED <<msg, done, size, gen, delivered>>

\* The server sends bs to c; to a closed connection they go nowhere.
ServerSends(c, bs) ==
  toC' = IF Closed(c) THEN toC ELSE [toC EXCEPT ![c] = @ \o bs]
Room(stream, k) == Len(stream) + k <= SockBuf
-----------------------------------------------------------------------------
(* start_server *)

\* accept the next connection and ask who it is
Accept ==
  /\ spc = "accept" /\ backlog # <<>>
  /\ cur' = Head(backlog) /\ backlog' = Tail(backlog)
  /\ spc' = "ident"
  /\ ServerSends(cur', Bytes(Msg("?r", 0, <<0, 0>>), 1, Hdr))
  /\ UNCHANGED <<step, accepted, fd, need, got, n, dataBuf, taken, acked, client, toS, setup, killed>>

\* the DUP tests: the socket of the role is still 0
MayServe(r) == fd[r] = None

\* the answer names a role; a second client of a role ends the server
Identify ==
  /\ spc = "ident"
  /\ \E bs \in ReceivedHeader(toS[cur]) :
       LET r == bs[1][1].kind IN
       IF IsHeader(bs) /\ r \in Roles /\ MayServe(r)
       THEN /\ fd' = [fd EXCEPT ![r] = cur]
            /\ accepted' = accepted + 1
            /\ spc' = IF accepted' < 3 THEN "accept" ELSE "request"
            /\ toS' = [toS EXCEPT ![cur] = Rest(@, bs)]
            /\ UNCHANGED <<step, cur, need, got, n, dataBuf, taken, acked, toC>>
       ELSE ServerExits
  /\ UNCHANGED <<client, backlog, setup, killed>>

-----------------------------------------------------------------------------
(* socket_get_request_data_bits and its callers: stream_get_cmd_line_bits, *)
(* stream_get_data_bits and stream_get_seed_bits                            *)

Peer == fd[IF step = "c" THEN "d" ELSE step]

\* the header that asks for the reply of each exchange
RequestKind == [c |-> "cr", d |-> "dr", s |-> "sr"]
Requested == CASE step = "c" -> 0 [] step = "d" -> n [] step = "s" -> SeedLen
Needed    == IF step = "c" THEN MinCmd ELSE Requested

Request ==
  /\ spc = "request" /\ step # "o" /\ Room(toC[Peer], Hdr)
  /\ ServerSends(Peer, Bytes(Msg(RequestKind[step], Requested, <<0, 0>>), 1, Hdr))
  /\ spc' = "header"
  /\ UNCHANGED <<step, accepted, fd, cur, need, got, n, dataBuf, taken, acked, client, backlog, toS, setup, killed>>

\* exactly Hdr bytes of the right type, else the server exits
RecvHeader ==
  /\ spc = "header"
  /\ \E bs \in ReceivedHeader(toS[Peer]) :
       IF IsHeader(bs) /\ bs[1][1].kind = step
       THEN /\ need' = bs[1][1].len /\ got' = <<>>
            /\ toS' = [toS EXCEPT ![Peer] = Rest(@, bs)]
            /\ spc' = "payload"
            /\ UNCHANGED <<step, accepted, fd, cur, n, dataBuf, taken, acked, toC>>
       ELSE ServerExits
  /\ UNCHANGED <<client, backlog, setup, killed>>

\* one turn of the receive loop
RecvPayload ==
  /\ spc = "payload" /\ Len(got) < need
  /\ \E bs \in Received(toS[Peer], Chunk(need - Len(got))) :
       /\ got' = got \o bs
       /\ toS' = [toS EXCEPT ![Peer] = Rest(@, bs)]
  /\ UNCHANGED <<spc, step, accepted, fd, cur, need, n, dataBuf, taken, acked, client, backlog, toC, setup, killed>>

\* a slip: the weak data of the round before
InputsStale(seed) == <<taken[1], seed>>
\* what the loop over the rows reads: global_rand_vector and the new seed
Inputs(seed) == <<dataBuf, seed>>

\* a slip: a dry run waits for its output to be taken
AfterDataStuck == IF dryRun THEN "o" ELSE "s"
\* a dry run returns before the seed is asked for, to NEXT_STREAM
AfterData == IF dryRun THEN "c" ELSE "s"

\* the loop is over; the caller checks the length and goes on
TakeReply ==
  /\ spc = "payload" /\ Len(got) >= need
  /\ IF Len(got) < Needed THEN ServerExits
     ELSE /\ CASE step = "c" -> /\ n' = Content(got)[1] /\ spc' = "request" /\ step' = "d"
                                /\ UNCHANGED <<dataBuf, taken>>
               [] step = "d" -> /\ dataBuf' = Content(got)[1] /\ spc' = "request"
                                /\ step' = AfterData /\ n' = IF dryRun THEN 0 ELSE n
                                /\ UNCHANGED taken
               [] step = "s" -> /\ taken' = Inputs(Content(got)[1])
                                /\ spc' = "extract" /\ step' = "o"
                                /\ UNCHANGED <<n, dataBuf>>
          /\ UNCHANGED <<accepted, fd, cur, need, got, acked, toS, toC>>
  /\ UNCHANGED <<client, backlog, setup, killed>>

-----------------------------------------------------------------------------
(* socket_send_output_data_bits, after the parallel loop *)

OutMsg == Msg("or", OutLen, taken)

SendOutHeader ==
  /\ spc = "extract" /\ Room(toC[Peer], Hdr)
  /\ ServerSends(Peer, Bytes(OutMsg, 1, Hdr))
  /\ spc' = "output" /\ need' = 0
  /\ UNCHANGED <<step, accepted, fd, cur, got, n, dataBuf, taken, acked, client, backlog, toS, setup, killed>>

\* one turn of the send loop; need counts the bytes sent (accum)
SendOutput ==
  /\ spc = "output" /\ need < OutLen
  /\ \E k \in 1 .. Chunk(OutLen - need) :
       /\ Room(toC[Peer], k)
       /\ ServerSends(Peer, Bytes(OutMsg, Hdr + need + 1, Hdr + need + k))
       /\ need' = need + k
  /\ spc' = IF need' < OutLen THEN "output" ELSE "ack"
  /\ UNCHANGED <<step, accepted, fd, cur, got, n, dataBuf, taken, acked, client, backlog, toS, setup, killed>>

\* the acknowledgement repeats the length; then NEXT_STREAM
RecvAck ==
  /\ spc = "ack"
  /\ \E bs \in ReceivedHeader(toS[Peer]) :
       IF IsHeader(bs) /\ bs[1][1].kind = "oa" /\ bs[1][1].len = OutLen
       THEN /\ toS' = [toS EXCEPT ![Peer] = Rest(@, bs)]
            /\ acked' = taken /\ spc' = "request" /\ step' = "c" /\ n' = 0
            /\ UNCHANGED <<accepted, fd, cur, need, got, dataBuf, taken, toC>>
       ELSE ServerExits
  /\ UNCHANGED <<client, backlog, setup, killed>>

\* recv returns 0, or send fails, on a connection whose client has ended
Waiting == IF spc = "ident" THEN cur ELSE Peer
\* a slip: the end of the stream is taken for nothing new, recv is called again
ServerRetries == FALSE
ServerSeesEnd ==
  /\ \/ spc \in {"ident", "header", "ack"} /\ toS[Waiting] = <<>>
     \/ spc = "payload" /\ Len(got) < need /\ toS[Waiting] = <<>>
     \/ spc \in {"request", "extract", "output"}
  /\ Closed(Waiting)
  /\ ServerExits
  /\ UNCHANGED <<client, backlog, setup, killed>>

ServerStep ==
  \/ Accept \/ Identify \/ Request \/ RecvHeader \/ RecvPayload \/ TakeReply
  \/ SendOutHeader \/ SendOutput \/ RecvAck \/ ServerSeesEnd
-----------------------------------------------------------------------------
(* stream_tst_data.c: start_client and socket_send_response_data_bits *)

\* connect succeeds while the server listens, even if it no longer accepts
Connect(c) ==
  /\ cpc[c] = "new"
  /\ cpc' = [cpc EXCEPT ![c] = IF Up THEN "ident" ELSE "exited"]
  /\ backlog' = IF Up THEN Append(backlog, c) ELSE backlog
  /\ UNCHANGED <<server, msg, done, size, gen, delivered, toS, toC, setup, killed>>

\* A client sends bs; once the server has ended they go nowhere.
ClientSends(c, bs) == toS' = IF Up THEN [toS EXCEPT ![c] = @ \o bs] ELSE toS
ClientTakes(c, bs) == toC' = [toC EXCEPT ![c] = Rest(@, bs)]

TellRole(c) ==
  /\ cpc[c] = "ident"
  /\ \E bs \in ReceivedHeader(toC[c]) :
       IF IsHeader(bs)
       THEN /\ ClientTakes(c, bs)
            /\ ClientSends(c, Bytes(Msg(Role[c], 0, <<0, 0>>), 1, Hdr))
            /\ cpc' = [cpc EXCEPT ![c] = "wait"]
            /\ UNCHANGED <<msg, done, size, gen, delivered>>
       ELSE ClientExits(c)
  /\ UNCHANGED <<server, backlog, setup, killed>>

\* prepare the reply m, of generation g and with the program's n at s
StartReply(c, m, g, s) ==
  /\ msg' = [msg EXCEPT ![c] = m] /\ gen' = [gen EXCEPT ![c] = g]
  /\ size' = [size EXCEPT ![c] = s]
  /\ cpc' = [cpc EXCEPT ![c] = "send"]

Serves == [d |-> {"cr", "dr"}, s |-> {"sr"}, o |-> {"or"}]
\* the data client refuses a data request while n is not positive
Answers(c, m) == m.kind \in Serves[Role[c]] /\ (m.kind = "dr" => size[c] > 0)

\* random_fill_ordered makes a new block
NextGen(c) == (gen[c] + 1) % NGen
\* a slip: one byte of padding too many
SeedReplyPadded(m) == m.len + 1
\* the seed client answers with the length it was asked for
SeedReplyLen(m) == m.len

Answer(c, m) ==
  LET g == NextGen(c) IN
  CASE m.kind = "cr" -> StartReply(c, Msg("c", CmdLen, <<DataLen, 0>>), gen[c], DataLen)
    [] m.kind = "dr" -> StartReply(c, Msg("d", size[c], <<g, 0>>), g, size[c])
    [] m.kind = "sr" -> StartReply(c, Msg("s", SeedReplyLen(m), <<g, 0>>), g, size[c])
    [] m.kind = "or" -> /\ msg' = [msg EXCEPT ![c] = m] /\ cpc' = [cpc EXCEPT ![c] = "recv"]
                        /\ UNCHANGED <<gen, size>>

RecvRequest(c) ==
  /\ cpc[c] = "wait"
  /\ \E bs \in ReceivedHeader(toC[c]) :
       IF IsHeader(bs) /\ Answers(c, bs[1][1])
       THEN /\ Answer(c, bs[1][1])
            /\ done' = [done EXCEPT ![c] = <<>>]
            /\ ClientTakes(c, bs)
            /\ UNCHANGED <<delivered, toS>>
       ELSE ClientExits(c)
  /\ UNCHANGED <<server, backlog, setup, killed>>

\* a slip: the header counted twice
TotalTwice(m) == 2 * Hdr + m.len
\* byte_len + 8
Total(m) == Hdr + m.len

\* one turn of the send loop over header and payload
SendReply(c) ==
  LET total == Total(msg[c])
      sent  == Len(done[c])
  IN /\ cpc[c] = "send"
     /\ \E k \in 1 .. Chunk(total - sent) :
          LET bs == Bytes(msg[c], sent + 1, sent + k) IN
          /\ sent = 0 /\ ~fragment => k >= Hdr
          /\ Room(toS[c], k) /\ ClientSends(c, bs)
          /\ done' = [done EXCEPT ![c] = @ \o bs]
          /\ cpc' = [cpc EXCEPT ![c] = IF sent + k < total THEN "send" ELSE "wait"]
     /\ UNCHANGED <<server, msg, size, gen, delivered, backlog, toC, setup, killed>>

\* one turn of the output client's receive loop
RecvOutput(c) ==
  /\ cpc[c] = "recv"
  /\ \E bs \in Received(toC[c], Chunk(msg[c].len - Len(done[c]))) :
       /\ done' = [done EXCEPT ![c] = @ \o bs]
       /\ ClientTakes(c, bs)
  /\ IF Len(done'[c]) < msg[c].len
     THEN UNCHANGED <<cpc, delivered>>
     ELSE cpc' = [cpc EXCEPT ![c] = "ack"] /\ delivered' = Content(done'[c])
  /\ UNCHANGED <<server, msg, size, gen, backlog, toS, setup, killed>>

\* a slip: the length as received, rounded up, instead of as announced
AckLenRounded(m) == m.len + 1
AckLen(m) == m.len
\* The acknowledgement is written into the buffer of the output, which holds it
\* as the output is no shorter than a header: the data client asks for 512 bits.
SendAck(c) ==
  /\ cpc[c] = "ack"
  /\ ClientSends(c, Bytes(Msg("oa", AckLen(msg[c]), <<0, 0>>), 1, Hdr))
  /\ cpc' = [cpc EXCEPT ![c] = "wait"]
  /\ UNCHANGED <<server, msg, done, size, gen, delivered, backlog, toC, setup, killed>>

\* a slip: the client waits for the next request of a server that has ended
ClientRetries(c) == FALSE
ClientSeesEnd(c) ==
  /\ ~Up
  /\ \/ cpc[c] \in {"ident", "wait", "recv"} /\ toC[c] = <<>>
     \/ cpc[c] \in {"send", "ack"}
  /\ ClientExits(c)
  /\ UNCHANGED <<server, backlog, setup, killed>>

ClientStep(c) ==
  \/ TellRole(c) \/ RecvRequest(c) \/ SendReply(c) \/ RecvOutput(c) \/ SendAck(c)
  \/ ClientSeesEnd(c)
-----------------------------------------------------------------------------
\* Ctrl-C, or a failing local call.
KillServer ==
  /\ Up /\ Cardinality(killed) < MaxKills /\ ServerExits
  /\ killed' = killed \cup {"server"}
  /\ UNCHANGED <<client, backlog, setup>>

KillClient(c) ==
  /\ cpc[c] \notin {"new", "exited"} /\ Cardinality(killed) < MaxKills /\ ClientExits(c)
  /\ killed' = killed \cup {c}
  /\ UNCHANGED <<server, backlog, setup>>

AllExited == ~Up /\ (\A c \in Clients : Closed(c)) /\ UNCHANGED vars

Next ==
  \/ ServerStep \/ KillServer \/ AllExited
  \/ \E c \in Clients : Connect(c) \/ ClientStep(c) \/ KillClient(c)

\* The processes that run keep running; nobody has to start or kill one.
Fairness == WF_vars(ServerStep) /\ \A c \in Clients : WF_vars(ClientStep(c))

Spec == Init /\ [][Next]_vars /\ Fairness

-----------------------------------------------------------------------------
IsByte(b) == DOMAIN b = {1, 2} /\ DOMAIN b[1] = {"kind", "len", "tag"} /\ b[2] \in Nat \ {0}

(***************************************************************************)
(* The send and receive loops never pass more than the announced length:   *)
(* accum <= len at every turn (stream_ops.cc 141-151, 183-193 and          *)
(* stream_tst_data.c 220-231, 353-363).                                    *)
(***************************************************************************)
TypeOK ==
  /\ spc \in {"accept", "ident", "request", "header", "payload", "extract", "output", "ack", "exited"}
  /\ step \in {"c", "d", "s", "o"} /\ fd \in [Roles -> Clients \cup {None}]
  /\ cur \in Clients \cup {None} /\ accepted \in 0 .. 3 /\ need \in Nat /\ n \in Nat
  /\ spc = "payload" => Len(got) <= need
  /\ spc \in {"output", "ack"} => need <= OutLen
  /\ \A c \in Clients : /\ cpc[c] \in {"new", "ident", "wait", "send", "recv", "ack", "exited"}
                        /\ Len(done[c]) <= Total(msg[c])
                        /\ Len(toS[c]) <= SockBuf /\ Len(toC[c]) <= SockBuf
                        /\ \A k \in 1 .. Len(toS[c]) : IsByte(toS[c][k])
                        /\ \A k \in 1 .. Len(toC[c]) : IsByte(toC[c][k])
  /\ killed \subseteq Clients \cup {"server"}

(***************************************************************************)
(* What the server reads is the reply due in this exchange: the next block *)
(* of data or seed of its client, as long as asked for, each byte once and *)
(* in order.  The loop of socket_get_request_data_bits follows the length  *)
(* in the reply's own header, while the buffer was sized from the request  *)
(* (stream_ops.cc 135-152, extractor.cc 855-857 and 408-410).  A command   *)
(* has no length asked for; the repository's data client sends CmdLen.     *)
(***************************************************************************)
Follows(g) == (g + 1) % NGen
ReplyDue ==
  CASE step = "c" -> Msg("c", CmdLen, <<DataLen, 0>>)
    [] step = "d" -> Msg("d", Requested, <<Follows(dataBuf), 0>>)
    [] step = "s" -> Msg("s", Requested, <<Follows(taken[2]), 0>>)
ReplyFitsRequest ==
  spc = "payload" =>
    /\ need = ReplyDue.len
    /\ got = Bytes(ReplyDue, Hdr + 1, Hdr + Len(got))

(***************************************************************************)
(* Requests and replies alternate: when the server sends a request nothing *)
(* is in flight to it on any identified connection, and at most one client *)
(* is working.  A byte left over would be taken for the next header.       *)
(***************************************************************************)
Lockstep ==
  /\ spc \in {"request", "extract"} =>
       \A r \in Roles : toS[fd[r]] = <<>> /\ (~Closed(fd[r]) => cpc[fd[r]] = "wait")
  /\ Cardinality({c \in Clients : cpc[c] \in {"send", "recv", "ack"}}) <= 1 \/ ~Up

(***************************************************************************)
(* As long as headers are not split, nobody ends unless a process was      *)
(* killed or two clients claim a role: no header is misread, no length     *)
(* disagrees, no acknowledgement is wrong.                                 *)
(***************************************************************************)
OneClientPerRole ==
  \A c, e \in Clients :
    c # e /\ cpc[c] # "new" /\ cpc[e] # "new" => Role[c] # Role[e]
NobodyExits == Up /\ \A c \in Clients : ~Closed(c)
NoSpontaneousExit == ~fragment /\ killed = {} /\ OneClientPerRole => NobodyExits

(***************************************************************************)
(* Rounds go on: once the clients are connected, a round's command request *)
(* leads to the acknowledged output, in a dry run to the next block of     *)
(* weak data, or to the end of the server.                                 *)
(***************************************************************************)
Completed == IF dryRun THEN dataBuf ELSE acked[1]
RoundsComplete ==
  \A g \in 0 .. NGen - 1 :
    (spc = "request" /\ Completed = g) ~> (Completed = (g + 1) % NGen \/ ~Up)

(***************************************************************************)
(* "kill the Trevisan server to stop evrything" (stream_tst_data.c 3-4):   *)
(* when the server ends every client that was started ends.                *)
(***************************************************************************)
ServerEndStopsClients ==
  ~Up ~> \A c \in Clients : cpc[c] # "new" => Closed(c)

(***************************************************************************)
(* The end of one of the three clients ends the server, and with it the    *)
(* others, instead of leaving the session waiting.  In a dry run only the  *)
(* data client is ever spoken to: the others may end unnoticed.            *)
(***************************************************************************)
ClientEndStopsServer ==
  InRounds /\ (\E r \in Roles : Closed(fd[r]) /\ (dryRun => r = "d")) ~> ~Up

(***************************************************************************)
(* The session implements the rounds of StreamRounds: every output handed  *)
(* over was computed from the one fresh data block and the one fresh seed  *)
(* of its round, in order, and acknowledged before the next round extracts.*)
(***************************************************************************)
Rounds == INSTANCE StreamRounds WITH stopped <- ~Up
ImplementsStreamRounds == Rounds!Spec
=============================================================================
