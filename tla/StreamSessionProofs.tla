------------------------- MODULE StreamSessionProofs -------------------------
(***************************************************************************)
(* The safety of the streaming session for every set of clients, every     *)
(* length of header, chunk, socket buffer and payload, and any number of   *)
(* processes ended from outside: type correctness, the reply that fits the *)
(* request, lockstep, no spontaneous exit, and that the session implements *)
(* the rounds of StreamRounds.                                             *)
(*                                                                         *)
(* The inductive invariant says for each connection which bytes of which   *)
(* message are in flight and which of them each end has seen.              *)
(***************************************************************************)
EXTENDS StreamSession, TLAPS, SequenceTheorems, FiniteSetTheorems

Kinds == {"", "?r", "d", "s", "o", "cr", "dr", "sr", "c", "or", "oa"}
Message == [kind : Kinds, len : Nat, tag : Int \X Int]
Byte == Message \X (Nat \ {0})

\* What the server says and waits for in the exchange in progress.
RequestMsg == Msg(RequestKind[step], Requested, <<0, 0>>)
Reply ==
  IF step = "c" THEN Msg("c", CmdLen, <<DataLen, 0>>)
  ELSE IF step = "d" THEN Msg("d", DataLen, <<Follows(dataBuf), 0>>)
  ELSE Msg("s", SeedLen, <<Follows(taken[2]), 0>>)
WhoAreYou == Msg("?r", 0, <<0, 0>>)
RoleMsg(c) == Msg(Role[c], 0, <<0, 0>>)
AckMsg == Msg("oa", OutLen, <<0, 0>>)

\* bytes of the reply, or of the output, the server has received or sent
Read == IF spc = "payload" THEN Hdr + Len(got) ELSE 0
Sent == Hdr + need

Serving(c) == fd[Role[c]] = c
Identifying(c) == spc = "ident" /\ cur = c
Talking(c) == spc \in {"header", "payload", "output", "ack"} /\ c = Peer
\* the peer has taken the request
Replied == spc \in {"header", "payload"} /\ toC[Peer] = <<>>

Types ==
  /\ spc \in {"accept", "ident", "request", "header", "payload", "extract", "output", "ack", "exited"}
  /\ step \in {"c", "d", "s", "o"} /\ fd \in [Roles -> Clients \cup {None}]
  /\ cur \in Clients \cup {None} /\ accepted \in 0 .. 3
  /\ backlog \in Seq(Clients) /\ need \in Nat /\ n \in Nat /\ dataBuf \in Nat
  /\ taken \in Nat \X Nat /\ got \in Seq(Byte)
  /\ cpc \in [Clients -> {"new", "ident", "wait", "send", "recv", "ack", "exited"}]
  /\ msg \in [Clients -> Message] /\ done \in [Clients -> Seq(Byte)]
  /\ size \in [Clients -> Int] /\ gen \in [Clients -> Nat]
  /\ toS \in [Clients -> Seq(Byte)] /\ toC \in [Clients -> Seq(Byte)]
  /\ fragment \in BOOLEAN /\ dryRun \in BOOLEAN /\ killed \subseteq Clients \cup {"server"}

\* No loop passes the announced length and no connection holds too much.
Lengths ==
  \A c \in Clients : /\ Len(done[c]) <= Total(msg[c])
                     /\ Len(toS[c]) <= SockBuf /\ Len(toC[c]) <= SockBuf

\* Who is identified as what; the others are queued once or not started.
Count(r) == IF fd[r] = None THEN 0 ELSE 1
Members ==
  /\ \A r \in Roles : fd[r] # None => Role[fd[r]] = r
  /\ accepted = Count("d") + Count("s") + Count("o")
  /\ spc \in {"accept", "ident"} <=> accepted < 3
  /\ spc = "ident" => cur \in Clients /\ ~Serving(cur) /\ cpc[cur] # "new"
  /\ \A c \in Clients : Serving(c) => cpc[c] \notin {"new", "ident"}
Queue ==
  /\ \A k \in 1 .. Len(backlog) :
       ~Serving(backlog[k]) /\ ~Identifying(backlog[k]) /\ cpc[backlog[k]] # "new"
  /\ \A j, k \in 1 .. Len(backlog) : backlog[j] = backlog[k] => j = k

\* Nothing is in flight on a connection outside the exchange in progress.
Quiet(c) ==
  /\ toS[c] = <<>> /\ toC[c] = <<>> /\ cpc[c] \notin {"send", "recv", "ack"}
  /\ ~Serving(c) => cpc[c] # "wait"
Silence == \A c \in Clients : ~Talking(c) /\ ~Identifying(c) => Quiet(c)

Identification ==
  spc = "ident" =>
    \/ cpc[cur] = "ident" /\ toC[cur] = Bytes(WhoAreYou, 1, Hdr) /\ toS[cur] = <<>>
    \/ cpc[cur] \in {"wait", "exited"} /\ toC[cur] = <<>> /\ toS[cur] = Bytes(RoleMsg(cur), 1, Hdr)
    \/ cpc[cur] = "exited" /\ toC[cur] = <<>> /\ toS[cur] = <<>>

\* The request is on its way, or the reply, of which the server has Read.
Asked(c) ==
  spc = "header" /\ cpc[c] = "wait" /\ toC[c] = Bytes(RequestMsg, 1, Hdr) /\ toS[c] = <<>>
Answering(c) ==
  /\ cpc[c] \in {"send", "wait", "exited"} /\ toC[c] = <<>>
  /\ \E k \in Read .. Total(Reply) :
       /\ toS[c] = Bytes(Reply, Read + 1, k)
       /\ cpc[c] = "send" => k = Len(done[c]) /\ k < Total(Reply) /\ msg[c] = Reply
       /\ cpc[c] = "wait" => k = Total(Reply)
Exchange ==
  /\ spc \in {"header", "payload"} => step # "o" /\ (Asked(Peer) \/ Answering(Peer))
  /\ spc = "payload" =>
       need = Reply.len /\ Len(got) <= need /\ got = Bytes(Reply, Hdr + 1, Hdr + Len(got))

\* The output is on its way, or being read, or its acknowledgement is.
Reading(c) ==
  /\ msg[c] = OutMsg /\ done[c] = Bytes(OutMsg, Hdr + 1, Hdr + Len(done[c]))
  /\ Len(done[c]) <= OutLen
Unread(c) == cpc[c] = "wait" /\ toC[c] = Bytes(OutMsg, 1, Sent) /\ toS[c] = <<>>
Taking(c) ==
  /\ cpc[c] = "recv" /\ Reading(c) /\ toS[c] = <<>>
  /\ Len(done[c]) <= need /\ toC[c] = Bytes(OutMsg, Hdr + Len(done[c]) + 1, Sent)
HasAll(c) ==
  /\ spc = "ack" /\ cpc[c] = "ack" /\ msg[c] = OutMsg /\ delivered = taken
  /\ toC[c] = <<>> /\ toS[c] = <<>>
Acking(c) ==
  /\ spc = "ack" /\ cpc[c] \in {"wait", "exited"} /\ delivered = taken
  /\ toC[c] = <<>> /\ toS[c] = Bytes(AckMsg, 1, Hdr)
Gone(c) == cpc[c] = "exited" /\ toC[c] = <<>> /\ toS[c] = <<>>
Handover ==
  /\ spc \in {"output", "ack"} =>
       /\ need <= OutLen /\ (spc = "ack" <=> need = OutLen)
       /\ Unread(Peer) \/ Taking(Peer) \/ HasAll(Peer) \/ Acking(Peer) \/ Gone(Peer)

\* Where a round stands: what it has used, and what its clients offer next.
Round ==
  /\ spc \in {"accept", "ident"} => /\ step = "c" /\ dataBuf = 0 /\ taken = <<0, 0>>
                                    /\ \A c \in Clients : gen[c] = 0
  /\ spc \in {"extract", "output", "ack"} <=> step = "o"
  /\ step \in {"s", "o"} => ~dryRun
  /\ (step \in {"c", "d"} /\ ~dryRun) \/ step = "o" => dataBuf = taken[1]
  /\ step = "s" => dataBuf = Follows(taken[1])
  /\ step = "d" => n = DataLen
  /\ step # "o" => acked = taken
Offers ==
  /\ InRounds /\ ~Closed(fd["d"]) =>
       /\ step = "d" \/ (step = "c" /\ Replied) => size[fd["d"]] = DataLen
       /\ gen[fd["d"]] = IF step = "d" /\ Replied THEN Follows(dataBuf) ELSE dataBuf
  /\ InRounds /\ ~Closed(fd["s"]) =>
       gen[fd["s"]] = IF step = "s" /\ Replied THEN Follows(taken[2]) ELSE taken[2]

\* Once the server has ended, a client still takes what was sent to it.
Left(c) ==
  \/ toC[c] = <<>>
  \/ cpc[c] \in {"ident", "wait"} /\ IsHeader(toC[c]) /\ toC[c][1][1].kind # "or"
  \/ cpc[c] = "wait" /\ \E q \in Hdr .. Hdr + OutLen : toC[c] = Bytes(OutMsg, 1, q)
  \/ /\ cpc[c] = "recv"
     /\ \E q \in Hdr + Len(done[c]) .. Hdr + OutLen : toC[c] = Bytes(OutMsg, Hdr + Len(done[c]) + 1, q)
Aftermath ==
  \A c \in Clients : toS[c] = <<>> /\ Left(c) /\ (cpc[c] = "recv" => Reading(c))

Session == Members /\ Queue /\ Silence /\ Identification /\ Exchange /\ Handover /\ Round /\ Offers
Inv == Types /\ Lengths /\ (IF Up THEN Session ELSE Aftermath)

\* As long as nothing is split, killed or claimed twice, nobody ends.
Calm == Inv /\ NoSpontaneousExit

-----------------------------------------------------------------------------
(* Byte streams: bytes p + 1 to q of a message are Bytes(m, p + 1, q). *)

\* What the constants are, in the form the steps below use.
LEMMA Assumptions ==
  /\ Role \in [Clients -> Roles] /\ None \notin Clients
  /\ Hdr \in Nat /\ Hdr >= 1 /\ Hdr <= SockBuf /\ SockBuf \in Nat
  /\ BlkAmt \in Nat /\ Hdr <= BlkAmt /\ BlkAmt <= SockBuf
  /\ CmdLen \in Nat /\ CmdLen >= 1 /\ MinCmd \in Int /\ MinCmd <= CmdLen
  /\ DataLen \in Nat /\ DataLen >= 1 /\ SeedLen \in Nat /\ SeedLen >= 1
  /\ OutLen \in Nat /\ OutLen >= 1
  /\ Garbage \subseteq Int /\ NGen \in Nat /\ NGen >= 1
  BY SessionAssumption

\* A message and its fields.
LEMMA MsgType ==
  ASSUME NEW k \in Kinds, NEW l \in Nat, NEW x \in Int \X Int
  PROVE  /\ Msg(k, l, x) \in Message
         /\ Msg(k, l, x).kind = k /\ Msg(k, l, x).len = l /\ Msg(k, l, x).tag = x
  BY DEF Msg, Message

\* Every byte in flight has the form TypeOK asks for.
LEMMA ByteForm ==
  ASSUME NEW b \in Byte
  PROVE  IsByte(b)
  <1>1. PICK m \in Message, k \in Nat \ {0} : b = <<m, k>>
    BY DEF Byte
  <1>2. DOMAIN b = {1, 2} /\ b[1] = m /\ b[2] = k
    BY <1>1
  <1>3. DOMAIN m = {"kind", "len", "tag"}
    BY DEF Message
  <1>4. QED
    BY <1>1, <1>2, <1>3 DEF IsByte

\* The bytes p + 1 to q of a message.
LEMMA BytesType ==
  ASSUME NEW m \in Message, NEW p \in Nat, NEW q \in Nat, p <= q
  PROVE  /\ Bytes(m, p + 1, q) \in Seq(Byte)
         /\ Len(Bytes(m, p + 1, q)) = q - p
         /\ \A j \in 1 .. q - p : Bytes(m, p + 1, q)[j] = <<m, p + j>>
  <1>1. q - (p + 1) + 1 = q - p /\ q - p \in Nat
    OBVIOUS
  <1>2. Bytes(m, p + 1, q) = [j \in 1 .. q - p |-> <<m, p + 1 + j - 1>>]
    BY <1>1 DEF Bytes
  <1>3. \A j \in 1 .. q - p : p + 1 + j - 1 = p + j /\ <<m, p + j>> \in Byte
    BY DEF Byte
  <1> DEFINE N == q - p
  <1>4. N \in Nat /\ Bytes(m, p + 1, q) = [j \in 1 .. N |-> <<m, p + j>>]
    BY <1>1, <1>2, <1>3
  <1>5. \A j \in 1 .. N : <<m, p + j>> \in Byte
    BY <1>3
  <1> HIDE DEF N
  <1>6. /\ [j \in 1 .. N |-> <<m, p + j>>] \in Seq(Byte)
        /\ Len([j \in 1 .. N |-> <<m, p + j>>]) = N
    <2> DEFINE f == [j \in 1 .. N |-> <<m, p + j>>]
    <2>1. f \in [1 .. N -> Byte]
      BY <1>5
    <2> HIDE DEF f
    <2>2. f \in Seq(Byte) /\ Len(f) = N
      BY <1>4, <2>1
    <2>3. QED
      BY <2>2 DEF f
  <1>7. Bytes(m, p + 1, q) \in Seq(Byte) /\ Len(Bytes(m, p + 1, q)) = N
    BY <1>4, <1>6
  <1>8. \A j \in 1 .. N : Bytes(m, p + 1, q)[j] = <<m, p + j>>
    BY <1>4
  <1>9. QED
    BY <1>7, <1>8 DEF N

\* No bytes.
LEMMA BytesEmpty ==
  ASSUME NEW m \in Message, NEW p \in Nat
  PROVE  Bytes(m, p + 1, p) = <<>>
  <1>1. Bytes(m, p + 1, p) \in Seq(Byte) /\ Len(Bytes(m, p + 1, p)) = 0
    BY BytesType
  <1>2. QED
    BY <1>1, EmptySeq

\* The first byte sent is the byte after the last one sent before.
LEMMA BytesNonempty ==
  ASSUME NEW m \in Message, NEW p \in Nat, NEW q \in Nat, p < q
  PROVE  Bytes(m, p + 1, q) # <<>> /\ Bytes(m, p + 1, q)[1] = <<m, p + 1>>
  <1>1. Len(Bytes(m, p + 1, q)) = q - p /\ q - p # 0 /\ 1 \in 1 .. q - p
    BY BytesType
  <1>2. QED
    BY <1>1, BytesType

\* A message from its first byte on.
LEMMA BytesFromStart ==
  ASSUME NEW m \in Message, NEW q \in Nat, q >= 1
  PROVE  /\ Bytes(m, 1, q) \in Seq(Byte) /\ Len(Bytes(m, 1, q)) = q
         /\ Bytes(m, 1, q) # <<>> /\ Bytes(m, 1, q)[1] = <<m, 1>>
  <1>1. \A p \in Nat : p = 0 => /\ Bytes(m, p + 1, q) \in Seq(Byte) /\ Len(Bytes(m, p + 1, q)) = q - p
                                /\ Bytes(m, p + 1, q) # <<>> /\ Bytes(m, p + 1, q)[1] = <<m, p + 1>>
    BY BytesType, BytesNonempty
  <1>2. 0 + 1 = 1 /\ q - 0 = q
    OBVIOUS
  <1>3. QED
    BY <1>1, <1>2

\* What follows in the stream.
LEMMA BytesConcat ==
  ASSUME NEW m \in Message, NEW p \in Nat, NEW q \in Nat, NEW r \in Nat, p <= q, q <= r
  PROVE  Bytes(m, p + 1, q) \o Bytes(m, q + 1, r) = Bytes(m, p + 1, r)
  <1> DEFINE x == Bytes(m, p + 1, q)
             y == Bytes(m, q + 1, r)
             z == Bytes(m, p + 1, r)
  <1>1. /\ x \in Seq(Byte) /\ Len(x) = q - p /\ \A j \in 1 .. q - p : x[j] = <<m, p + j>>
        /\ y \in Seq(Byte) /\ Len(y) = r - q /\ \A j \in 1 .. r - q : y[j] = <<m, q + j>>
        /\ z \in Seq(Byte) /\ Len(z) = r - p /\ \A j \in 1 .. r - p : z[j] = <<m, p + j>>
    <2>1. p <= r
      OBVIOUS
    <2>2. x \in Seq(Byte) /\ Len(x) = q - p /\ \A j \in 1 .. q - p : x[j] = <<m, p + j>>
      BY BytesType
    <2>3. y \in Seq(Byte) /\ Len(y) = r - q /\ \A j \in 1 .. r - q : y[j] = <<m, q + j>>
      BY BytesType
    <2>4. z \in Seq(Byte) /\ Len(z) = r - p /\ \A j \in 1 .. r - p : z[j] = <<m, p + j>>
      BY <2>1, BytesType
    <2>5. QED
      BY <2>2, <2>3, <2>4
  <1> HIDE DEF x, y, z
  <1>2. /\ x \o y \in Seq(Byte) /\ Len(x \o y) = r - p
        /\ \A j \in 1 .. r - p : (x \o y)[j] = IF j <= q - p THEN x[j] ELSE y[j - (q - p)]
    <2>1. Len(x) + Len(y) = r - p
      BY <1>1
    <2>2. /\ x \o y \in Seq(Byte) /\ Len(x \o y) = Len(x) + Len(y)
          /\ \A j \in 1 .. Len(x) + Len(y) : (x \o y)[j] = IF j <= Len(x) THEN x[j] ELSE y[j - Len(x)]
      BY <1>1, ConcatProperties
    <2>3. QED
      BY <1>1, <2>1, <2>2
  <1>3. ASSUME NEW j \in 1 .. r - p PROVE (x \o y)[j] = z[j]
    <2>1. CASE j <= q - p
      <3>1. j \in 1 .. q - p
        BY <2>1
      <3>2. QED
        BY <1>1, <1>2, <2>1, <3>1
    <2>2. CASE ~(j <= q - p)
      <3>1. j - (q - p) \in 1 .. r - q /\ q + (j - (q - p)) = p + j
        BY <2>2
      <3>2. QED
        BY <1>1, <1>2, <2>2, <3>1
    <2>3. QED
      BY <2>1, <2>2
  <1>4. x \o y = z
    BY <1>1, <1>2, <1>3, SeqEqual
  <1>5. QED
    BY <1>4 DEF x, y, z

\* One recv takes some bytes from the front, and leaves the others.
LEMMA BytesReceived ==
  ASSUME NEW m \in Message, NEW p \in Nat, NEW q \in Nat, p <= q, NEW w \in Nat,
         NEW bs \in Received(Bytes(m, p + 1, q), w)
  PROVE  \E k \in Nat : /\ 1 <= k /\ k <= w /\ p + k <= q
                        /\ bs = Bytes(m, p + 1, p + k) /\ Len(bs) = k
                        /\ Rest(Bytes(m, p + 1, q), bs) = Bytes(m, p + k + 1, q)
  <1> DEFINE x == Bytes(m, p + 1, q)
  <1>1. x \in Seq(Byte) /\ Len(x) = q - p /\ \A j \in 1 .. q - p : x[j] = <<m, p + j>>
    BY BytesType
  <1>2. PICK k \in 1 .. Smaller(w, Len(x)) : bs = SubSeq(x, 1, k)
    BY DEF Received
  <1>3. k \in Nat /\ 1 <= k /\ k <= w /\ p + k <= q /\ k <= Len(x)
    BY <1>1, <1>2 DEF Smaller
  <1> HIDE DEF x
  <1>4. /\ bs \in Seq(Byte) /\ Len(bs) = k /\ \A j \in 1 .. k : bs[j] = <<m, p + j>>
    BY <1>1, <1>2, <1>3
  <1>5. bs = Bytes(m, p + 1, p + k)
    <2>1. /\ Bytes(m, p + 1, p + k) \in Seq(Byte) /\ Len(Bytes(m, p + 1, p + k)) = k
          /\ \A j \in 1 .. k : Bytes(m, p + 1, p + k)[j] = <<m, p + j>>
      <3>1. p + k \in Nat /\ p <= p + k /\ (p + k) - p = k
        BY <1>3
      <3>2. QED
        BY <3>1, BytesType, ZenonT(60)
    <2>2. QED
      BY <1>4, <2>1, SeqEqual
  <1>6. Rest(x, bs) = Bytes(m, p + k + 1, q)
    <2> DEFINE y == Bytes(m, p + k + 1, q)
               z == SubSeq(x, k + 1, Len(x))
    <2>1. y \in Seq(Byte) /\ Len(y) = q - (p + k) /\ \A j \in 1 .. q - (p + k) : y[j] = <<m, p + k + j>>
      <3>1. p + k \in Nat /\ p + k <= q
        BY <1>3
      <3>2. QED
        BY <3>1, BytesType
    <2>2. z \in Seq(Byte) /\ Len(z) = q - (p + k) /\ \A j \in 1 .. q - (p + k) : z[j] = x[k + j]
      <3>1. k + 1 \in Int /\ Len(x) \in Int /\ \A j \in k + 1 .. Len(x) : x[j] \in Byte
        BY <1>1, <1>3
      <3>2. /\ z \in Seq(Byte) /\ Len(z) = (IF k + 1 <= Len(x) THEN Len(x) - (k + 1) + 1 ELSE 0)
            /\ \A j \in 1 .. Len(x) - (k + 1) + 1 : z[j] = x[k + 1 + j - 1]
        BY <3>1, SubSeqProperties, SMTT(30)
      <3>3. \A j \in Int : k + 1 + j - 1 = k + j
        BY <1>3
      <3>4. Len(x) - (k + 1) + 1 = q - (p + k)
        BY <1>1, <1>3
      <3>5. QED
        BY <1>1, <1>3, <3>2, <3>3, <3>4
    <2>3. \A j \in 1 .. q - (p + k) : k + j \in 1 .. q - p /\ p + (k + j) = p + k + j
      BY <1>3
    <2>4. \A j \in 1 .. q - (p + k) : z[j] = y[j]
      BY <1>1, <2>1, <2>2, <2>3
    <2> HIDE DEF y, z
    <2>5. y = z
      BY <2>1, <2>2, <2>4, SeqEqual
    <2>6. QED
      BY <1>4, <2>5 DEF y, z, Rest
  <1>7. Rest(Bytes(m, p + 1, q), bs) = Bytes(m, p + k + 1, q)
    BY <1>6 DEF x
  <1>8. QED
    BY <1>3, <1>4, <1>5, <1>7

\* A recv of a header takes the header, or less of it where headers are split.
LEMMA HeaderReceived ==
  ASSUME NEW m \in Message, NEW q \in Nat, NEW bs \in ReceivedHeader(Bytes(m, 1, q))
  PROVE  /\ q >= 1 /\ bs[1][1] = m
         /\ IsHeader(bs) => /\ Hdr <= q /\ bs = Bytes(m, 1, Hdr)
                            /\ Rest(Bytes(m, 1, q), bs) = Bytes(m, Hdr + 1, q)
         /\ ~fragment => IsHeader(bs)
  <1>1. Hdr \in Nat /\ Hdr >= 1
    BY Assumptions
  <1>2. Bytes(m, 1, q) = Bytes(m, 0 + 1, q) /\ Len(Bytes(m, 1, q)) = q /\ Bytes(m, 1, q) \in Seq(Byte)
    BY BytesType
  <1>3. bs \in Received(Bytes(m, 1, q), Hdr) /\ (~fragment => Len(bs) = Hdr)
    <2>1. CASE fragment
      BY <2>1 DEF ReceivedHeader
    <2>2. CASE ~fragment
      <3>1. bs = SubSeq(Bytes(m, 1, q), 1, Hdr) /\ Hdr <= q
        BY <1>2, <2>2, <1>1 DEF ReceivedHeader
      <3>2. Hdr \in 1 .. Smaller(Hdr, q) /\ Len(bs) = Hdr
        BY <1>1, <1>2, <3>1 DEF Smaller
      <3>3. QED
        BY <1>2, <3>1, <3>2 DEF Received
    <2>3. QED
      BY <2>1, <2>2
  <1>4. PICK k \in Nat : /\ 1 <= k /\ k <= Hdr /\ k <= q /\ bs = Bytes(m, 1, k) /\ Len(bs) = k
                         /\ Rest(Bytes(m, 1, q), bs) = Bytes(m, k + 1, q)
    <2>1. bs \in Received(Bytes(m, 0 + 1, q), Hdr)
      BY <1>2, <1>3
    <2>2. \E k \in Nat : /\ 1 <= k /\ k <= Hdr /\ 0 + k <= q
                        /\ bs = Bytes(m, 0 + 1, 0 + k) /\ Len(bs) = k
                        /\ Rest(Bytes(m, 0 + 1, q), bs) = Bytes(m, 0 + k + 1, q)
      BY ONLY <1>1, <2>1, BytesReceived, m \in Message, q \in Nat, 0 \in Nat, 0 <= q
    <2>3. \A k \in Nat : 0 + k = k
      OBVIOUS
    <2>4. QED
      BY <1>2, <2>2, <2>3
  <1>5. bs[1] = <<m, 1>>
    BY <1>4, BytesFromStart
  <1>6. bs[1][1] = m
    BY <1>5
  <1>7. IsHeader(bs) <=> k = Hdr
    BY <1>4, <1>5, <1>6 DEF IsHeader
  <1>8. QED
    BY <1>2, <1>3, <1>4, <1>5, <1>6, <1>7

\* A filled buffer names what it holds.
LEMMA ContentIsTag ==
  ASSUME NEW m \in Message, NEW k \in Nat, k >= 1, NEW bs, bs = Bytes(m, Hdr + 1, Hdr + k)
  PROVE  Content(bs) = m.tag
  <1>1. Hdr \in Nat /\ Hdr + k \in Nat /\ Hdr < Hdr + k
    BY Assumptions
  <1>2. Len(bs) = k /\ bs[1] = <<m, Hdr + 1>>
    BY <1>1, BytesType, BytesNonempty
  <1>3. QED
    BY <1>2 DEF Content

\* An empty stream yields nothing.
LEMMA NothingReceived ==
  ASSUME NEW x, x = <<>>, NEW w \in Nat
  PROVE  Received(x, w) = {} /\ ReceivedHeader(x) = {}
  <1>1. Len(x) = 0
    OBVIOUS
  <1>2. ASSUME NEW v \in Nat PROVE Received(x, v) = {}
    <2>1. Smaller(v, Len(x)) = 0
      BY <1>1 DEF Smaller
    <2>2. 1 .. Smaller(v, Len(x)) = {}
      BY <2>1
    <2>3. QED
      BY <2>2 DEF Received
  <1>3. Hdr \in Nat /\ 0 < Hdr
    BY Assumptions
  <1>4. Received(x, Hdr) = {} /\ Len(x) < Hdr
    BY <1>1, <1>2, <1>3
  <1>5. ReceivedHeader(x) = {}
    BY <1>4 DEF ReceivedHeader
  <1>6. QED
    BY <1>2, <1>5

\* No send or recv moves more than was asked for.
LEMMA ChunkBound ==
  ASSUME NEW x \in Nat
  PROVE  Chunk(x) \in Nat /\ Chunk(x) <= x /\ Chunk(x) <= BlkAmt
  <1>1. BlkAmt \in Nat
    BY Assumptions
  <1>2. QED
    BY <1>1 DEF Chunk, Smaller

\* The messages of the session are messages.
LEMMA OwnMessages ==
  ASSUME Types
  PROVE  /\ WhoAreYou \in Message /\ WhoAreYou.kind = "?r" /\ WhoAreYou.len = 0
         /\ AckMsg \in Message /\ AckMsg.kind = "oa" /\ AckMsg.len = OutLen
         /\ OutMsg \in Message /\ OutMsg.kind = "or" /\ OutMsg.len = OutLen /\ OutMsg.tag = taken
         /\ NoMsg \in Message /\ NoMsg.len = 0
  <1>1. OutLen \in Nat /\ 0 \in Nat /\ <<0, 0>> \in Int \X Int
    BY Assumptions
  <1>2. taken \in Int \X Int
    BY DEF Types
  <1>3. "?r" \in Kinds /\ "oa" \in Kinds /\ "or" \in Kinds /\ "" \in Kinds
    BY DEF Kinds
  <1>4. WhoAreYou \in Message /\ WhoAreYou.kind = "?r" /\ WhoAreYou.len = 0
    BY <1>1, <1>3 DEF WhoAreYou, Msg, Message
  <1>5. AckMsg \in Message /\ AckMsg.kind = "oa" /\ AckMsg.len = OutLen
    BY <1>1, <1>3 DEF AckMsg, Msg, Message
  <1>6. OutMsg \in Message /\ OutMsg.kind = "or" /\ OutMsg.len = OutLen /\ OutMsg.tag = taken
    BY <1>1, <1>2, <1>3 DEF OutMsg, Msg, Message
  <1>7. NoMsg \in Message /\ NoMsg.len = 0
    BY <1>1, <1>3 DEF NoMsg, Msg, Message
  <1>8. QED
    BY <1>4, <1>5, <1>6, <1>7

\* What a client says it is.
LEMMA RoleMessage ==
  ASSUME NEW c \in Clients
  PROVE  RoleMsg(c) \in Message /\ RoleMsg(c).kind = Role[c] /\ Role[c] \in Roles
  <1>1. Role[c] \in Roles
    BY Assumptions
  <1>2. Role[c] \in Kinds
    BY <1>1 DEF Roles, Kinds
  <1>3. QED
    BY <1>1, <1>2 DEF RoleMsg, Msg, Message

\* What the server asks for in this step of the round.
LEMMA RequestMessage ==
  ASSUME Types, step # "o"
  PROVE  /\ RequestMsg \in Message /\ RequestMsg.kind = RequestKind[step] /\ RequestMsg.len = Requested
         /\ RequestMsg.kind # "or"
  <1>1. step \in {"c", "d", "s"}
    BY DEF Types
  <1>2. Requested \in Nat
    <2>1. n \in Nat /\ SeedLen \in Nat
      BY Assumptions DEF Types
    <2>2. Requested = IF step = "c" THEN 0 ELSE IF step = "d" THEN n ELSE SeedLen
      BY <1>1, Zenon DEF Requested
    <2>3. QED
      BY <2>1, <2>2
  <1>3. RequestKind[step] \in {"cr", "dr", "sr"}
    BY <1>1 DEF RequestKind
  <1>4. RequestKind[step] \in Kinds
    BY <1>3 DEF Kinds
  <1>5. RequestMsg \in Message /\ RequestMsg.kind = RequestKind[step] /\ RequestMsg.len = Requested
    BY <1>2, <1>4 DEF RequestMsg, Msg, Message
  <1>6. QED
    BY <1>3, <1>5

\* The next generation number.
LEMMA FollowsType == ASSUME NEW g \in Nat PROVE Follows(g) \in Nat
  BY Assumptions DEF Follows

\* The reply to the last request: kind, length and generation.
LEMMA ReplyMessage ==
  ASSUME Types, step # "o"
  PROVE  /\ Reply \in Message /\ Reply.kind = step /\ Reply.len \in Nat /\ Reply.len >= 1
         /\ Reply.len = (IF step = "c" THEN CmdLen ELSE IF step = "d" THEN DataLen ELSE SeedLen)
         /\ Reply.tag = (IF step = "c" THEN <<DataLen, 0>>
                         ELSE IF step = "d" THEN <<Follows(dataBuf), 0>> ELSE <<Follows(taken[2]), 0>>)
  <1>1. /\ CmdLen \in Nat /\ CmdLen >= 1 /\ DataLen \in Nat /\ DataLen >= 1 /\ SeedLen \in Nat /\ SeedLen >= 1
        /\ Follows(dataBuf) \in Nat /\ Follows(taken[2]) \in Nat
    BY Assumptions, FollowsType DEF Types
  <1>2. "c" \in Kinds /\ "d" \in Kinds /\ "s" \in Kinds
    BY DEF Kinds
  <1>3. /\ <<DataLen, 0>> \in Int \X Int /\ <<Follows(dataBuf), 0>> \in Int \X Int
        /\ <<Follows(taken[2]), 0>> \in Int \X Int
    BY <1>1
  <1>4. CASE step = "c"
    <2>1. Reply = Msg("c", CmdLen, <<DataLen, 0>>)
      BY <1>4 DEF Reply
    <2>2. QED
      BY <1>1, <1>2, <1>3, <1>4, <2>1, MsgType
  <1>5. CASE step = "d"
    <2>1. Reply = Msg("d", DataLen, <<Follows(dataBuf), 0>>)
      BY <1>5 DEF Reply
    <2>2. QED
      BY <1>1, <1>2, <1>3, <1>5, <2>1, MsgType
  <1>6. CASE step = "s"
    <2>1. Reply = Msg("s", SeedLen, <<Follows(taken[2]), 0>>)
      BY <1>6 DEF Reply
    <2>2. QED
      BY <1>1, <1>2, <1>3, <1>6, <2>1, MsgType
  <1>7. QED
    BY <1>4, <1>5, <1>6 DEF Types

-----------------------------------------------------------------------------
(* Who takes part in what *)

\* In the rounds every role has its client.
LEMMA RolesServed ==
  ASSUME Types, Members, InRounds
  PROVE  /\ \A r \in Roles : fd[r] \in Clients /\ Role[fd[r]] = r /\ Serving(fd[r])
         /\ Peer \in Clients /\ Serving(Peer)
         /\ Role[Peer] = (IF step = "c" THEN "d" ELSE step)
  <1>1. accepted = 3
    BY DEF Types, Members, InRounds
  <1>2. Count("d") \in {0, 1} /\ Count("s") \in {0, 1} /\ Count("o") \in {0, 1}
    BY DEF Count
  <1>3. Count("d") = 1 /\ Count("s") = 1 /\ Count("o") = 1
    BY <1>1, <1>2 DEF Members
  <1>4. fd["d"] # None /\ fd["s"] # None /\ fd["o"] # None
    BY <1>3 DEF Count
  <1>5. \A r \in Roles : fd[r] \in Clients /\ Role[fd[r]] = r /\ Serving(fd[r])
    BY <1>4 DEF Roles, Types, Members, Serving
  <1>6. (IF step = "c" THEN "d" ELSE step) \in Roles
    BY DEF Types, Roles
  <1>7. QED
    BY <1>5, <1>6 DEF Peer

\* A client in an exchange is the one the server has for its role.
LEMMA TalkingServes ==
  ASSUME Types, Members, NEW c \in Clients, Talking(c)
  PROVE  InRounds /\ Serving(c) /\ ~Identifying(c) /\ cpc[c] \notin {"new", "ident"}
  <1>1. InRounds /\ ~Identifying(c) /\ c = Peer
    BY DEF Talking, InRounds, Identifying
  <1>2. QED
    BY <1>1, RolesServed DEF Members

\* In which situation a client is that has something to read or to do.
LEMMA Situation ==
  ASSUME Types, Up, Session, NEW c \in Clients
  PROVE  /\ cpc[c] = "ident" /\ toC[c] # <<>> =>
              Identifying(c) /\ toC[c] = Bytes(WhoAreYou, 1, Hdr) /\ toS[c] = <<>>
         /\ cpc[c] = "wait" /\ toC[c] # <<>> =>
              /\ Talking(c)
              /\ \/ spc \in {"header", "payload"} /\ Asked(c)
                 \/ spc \in {"output", "ack"} /\ Unread(c)
         /\ cpc[c] = "send" => Talking(c) /\ spc \in {"header", "payload"} /\ Answering(c)
         /\ cpc[c] = "recv" => Talking(c) /\ spc \in {"output", "ack"} /\ Taking(c)
         /\ cpc[c] = "ack" => Talking(c) /\ spc = "ack" /\ HasAll(c)
  <1>1. CASE Talking(c)
    <2>1. c = Peer /\ cpc[c] # "ident" /\ spc \in {"header", "payload", "output", "ack"}
      BY <1>1, TalkingServes DEF Talking, Session
    <2>2. CASE spc \in {"header", "payload"}
      <3>1. Asked(c) \/ Answering(c)
        BY <2>1, <2>2 DEF Session, Exchange
      <3>2. QED
        BY <1>1, <2>1, <2>2, <3>1 DEF Asked, Answering
    <2>3. CASE spc \in {"output", "ack"}
      <3>1. Unread(c) \/ Taking(c) \/ HasAll(c) \/ Acking(c) \/ Gone(c)
        BY <2>1, <2>3 DEF Session, Handover
      <3>2. QED
        BY <1>1, <2>1, <2>3, <3>1 DEF Unread, Taking, HasAll, Acking, Gone
    <2>4. QED
      BY <2>1, <2>2, <2>3
  <1>2. CASE Identifying(c)
    <2>1. spc = "ident" /\ cur = c /\ ~Talking(c)
      BY <1>2 DEF Identifying, Talking
    <2>2. QED
      BY <1>2, <2>1 DEF Session, Identification
  <1>3. CASE ~Talking(c) /\ ~Identifying(c)
    <2>1. Quiet(c)
      BY <1>3 DEF Session, Silence
    <2>2. QED
      BY <2>1 DEF Quiet
  <1>4. QED
    BY <1>1, <1>2, <1>3

-----------------------------------------------------------------------------
(* Steps of a client while the server runs *)

\* One recv splits the stream in what it returns and what it leaves.
LEMMA ReceivedType ==
  ASSUME NEW x \in Seq(Byte), NEW w \in Nat, NEW bs \in Received(x, w)
  PROVE  /\ bs \in Seq(Byte) /\ Len(bs) >= 1 /\ Len(bs) <= w /\ bs[1][1] \in Message
         /\ Rest(x, bs) \in Seq(Byte) /\ Len(Rest(x, bs)) = Len(x) - Len(bs)
  <1>1. PICK k \in 1 .. Smaller(w, Len(x)) : bs = SubSeq(x, 1, k)
    BY DEF Received
  <1>2. k \in Nat /\ 1 <= k /\ k <= w /\ k <= Len(x) /\ Len(x) \in Nat
    BY <1>1 DEF Smaller
  <1>3. bs \in Seq(Byte) /\ Len(bs) = k /\ bs[1] \in Byte
    <2>1. bs \in Seq(Byte) /\ Len(bs) = k
      BY <1>1, <1>2
    <2>2. QED
      BY <1>2, <2>1
  <1>4. bs[1][1] \in Message
    BY <1>3 DEF Byte
  <1>5. Rest(x, bs) \in Seq(Byte) /\ Len(Rest(x, bs)) = Len(x) - k
    <2>1. k + 1 \in Int /\ Len(x) \in Int /\ \A j \in k + 1 .. Len(x) : x[j] \in Byte
      BY <1>2
    <2>2. /\ SubSeq(x, k + 1, Len(x)) \in Seq(Byte)
          /\ Len(SubSeq(x, k + 1, Len(x))) = IF k + 1 <= Len(x) THEN Len(x) - (k + 1) + 1 ELSE 0
      BY <2>1, SubSeqProperties
    <2>3. QED
      BY <1>2, <1>3, <2>2 DEF Rest
  <1>6. QED
    BY <1>2, <1>3, <1>4, <1>5

\* What one recv of a header returns, whole or cut.
LEMMA HeaderType ==
  ASSUME NEW x \in Seq(Byte), NEW bs \in ReceivedHeader(x)
  PROVE  /\ bs \in Seq(Byte) /\ Len(bs) >= 1 /\ bs[1][1] \in Message
         /\ Rest(x, bs) \in Seq(Byte) /\ Len(Rest(x, bs)) <= Len(x)
  <1>1. Hdr \in Nat /\ Hdr >= 1
    BY Assumptions
  <1>2. bs \in Received(x, Hdr)
    <2>1. CASE fragment
      BY <2>1 DEF ReceivedHeader
    <2>2. CASE ~fragment
      <3>1. bs = SubSeq(x, 1, Hdr) /\ Hdr <= Len(x)
        BY <1>1, <2>2 DEF ReceivedHeader
      <3>2. Hdr \in 1 .. Smaller(Hdr, Len(x))
        BY <1>1, <3>1 DEF Smaller
      <3>3. QED
        BY <3>1, <3>2 DEF Received
    <2>3. QED
      BY <2>1, <2>2
  <1>3. Len(x) \in Nat /\ Len(bs) \in Nat
    BY <1>1, <1>2, ReceivedType
  <1>4. QED
    BY <1>1, <1>2, <1>3, ReceivedType

\* What the server alone determines.
LEMMA ServerFrame ==
  ASSUME UNCHANGED server
  PROVE  /\ Peer' = Peer /\ Up' = Up /\ InRounds' = InRounds /\ OutMsg' = OutMsg /\ Reply' = Reply
         /\ RequestMsg' = RequestMsg /\ Read' = Read /\ Sent' = Sent
         /\ \A c \in Clients : /\ Serving(c)' = Serving(c) /\ Identifying(c)' = Identifying(c)
                               /\ Talking(c)' = Talking(c)
  <1> USE DEF server
  <1>1. Peer' = Peer
    BY DEF Peer
  <1>2. Up' = Up /\ InRounds' = InRounds
    BY DEF Up, InRounds
  <1>3. OutMsg' = OutMsg /\ Reply' = Reply
    BY DEF OutMsg, Reply
  <1>4. Requested' = Requested
    BY Zenon DEF Requested
  <1>5. RequestMsg' = RequestMsg
    BY <1>4 DEF RequestMsg
  <1>6. Read' = Read /\ Sent' = Sent
    BY DEF Read, Sent
  <1>7. \A c \in Clients : /\ Serving(c)' = Serving(c) /\ Identifying(c)' = Identifying(c)
                           /\ Talking(c)' = Talking(c)
    BY <1>1 DEF Serving, Identifying, Talking
  <1>8. QED
    BY <1>1, <1>2, <1>3, <1>5, <1>6, <1>7

\* A step of client c leaves the server and the other clients alone.
Moves(c) ==
  /\ UNCHANGED server /\ UNCHANGED setup
  /\ \A e \in Clients : e # c =>
       /\ toS'[e] = toS[e] /\ toC'[e] = toC[e] /\ cpc'[e] = cpc[e] /\ msg'[e] = msg[e]
       /\ done'[e] = done[e] /\ size'[e] = size[e] /\ gen'[e] = gen[e]
  /\ cpc'[c] # "new" /\ (cpc'[c] = "ident" => cpc[c] = "new")
  /\ cpc[c] = "exited" => cpc'[c] = "exited"

\* The end of a client, seen from the outside.
Ends(c) ==
  /\ cpc'[c] = "exited" /\ toC'[c] = <<>>
  /\ toS'[c] = toS[c] \/ (toC[c] # <<>> /\ toS'[c] = <<>>)
  /\ \A e \in Clients : e # c => toS'[e] = toS[e] /\ toC'[e] = toC[e] /\ cpc'[e] = cpc[e]
  /\ UNCHANGED <<msg, done, size, gen, delivered>>

\* An exiting client changes its own state and connection only.
LEMMA ClientEnd ==
  ASSUME Types, NEW c \in Clients, ClientExits(c)
  PROVE  Ends(c)
  <1>1. cpc \in [Clients -> {"new", "ident", "wait", "send", "recv", "ack", "exited"}]
    BY DEF Types
  <1>2. toS \in [Clients -> Seq(Byte)] /\ toC \in [Clients -> Seq(Byte)]
    BY DEF Types
  <1>3. UNCHANGED <<msg, done, size, gen, delivered>>
    BY DEF ClientExits
  <1>4. cpc'[c] = "exited" /\ \A e \in Clients : e # c => cpc'[e] = cpc[e]
    BY <1>1 DEF ClientExits
  <1>5. toC'[c] = <<>> /\ \A e \in Clients : e # c => toC'[e] = toC[e]
    BY <1>2 DEF ClientExits
  <1>6. /\ toS'[c] = toS[c] \/ (toC[c] # <<>> /\ toS'[c] = <<>>)
        /\ \A e \in Clients : e # c => toS'[e] = toS[e]
    BY <1>2 DEF ClientExits
  <1>7. QED
    BY <1>3, <1>4, <1>5, <1>6 DEF Ends

\* What a client is asked for, and how it answers.
LEMMA AnswerCases ==
  ASSUME NEW c \in Clients, NEW m \in Message, Answers(c, m), Answer(c, m)
  PROVE  \/ /\ m.kind = "cr" /\ Role[c] = "d"
            /\ StartReply(c, Msg("c", CmdLen, <<DataLen, 0>>), gen[c], DataLen)
         \/ /\ m.kind = "dr" /\ Role[c] = "d" /\ size[c] > 0
            /\ StartReply(c, Msg("d", size[c], <<Follows(gen[c]), 0>>), Follows(gen[c]), size[c])
         \/ /\ m.kind = "sr" /\ Role[c] = "s"
            /\ StartReply(c, Msg("s", m.len, <<Follows(gen[c]), 0>>), Follows(gen[c]), size[c])
         \/ /\ m.kind = "or" /\ Role[c] = "o"
            /\ msg' = [msg EXCEPT ![c] = m] /\ cpc' = [cpc EXCEPT ![c] = "recv"]
            /\ UNCHANGED <<gen, size>>
  <1>1. Role[c] = "d" \/ Role[c] = "s" \/ Role[c] = "o"
    BY RoleMessage DEF Roles
  <1>2. \/ m.kind = "cr" /\ Role[c] = "d"
        \/ m.kind = "dr" /\ Role[c] = "d" /\ size[c] > 0
        \/ m.kind = "sr" /\ Role[c] = "s"
        \/ m.kind = "or" /\ Role[c] = "o"
    BY <1>1 DEF Answers, Serves
  <1>3. NextGen(c) = Follows(gen[c]) /\ SeedReplyLen(m) = m.len
    BY DEF NextGen, Follows, SeedReplyLen
  <1>4. CASE m.kind = "cr"
    <2>1. Answer(c, m) <=> StartReply(c, Msg("c", CmdLen, <<DataLen, 0>>), gen[c], DataLen)
      BY <1>4, Zenon DEF Answer
    <2>2. QED
      BY <1>2, <1>4, <2>1
  <1>5. CASE m.kind = "dr"
    <2>1. Answer(c, m) <=> StartReply(c, Msg("d", size[c], <<NextGen(c), 0>>), NextGen(c), size[c])
      BY <1>5, Zenon DEF Answer
    <2>2. QED
      BY <1>2, <1>3, <1>5, <2>1
  <1>6. CASE m.kind = "sr"
    <2>1. Answer(c, m) <=> StartReply(c, Msg("s", SeedReplyLen(m), <<NextGen(c), 0>>), NextGen(c), size[c])
      BY <1>6, Zenon DEF Answer
    <2>2. QED
      BY <1>2, <1>3, <1>6, <2>1
  <1>7. CASE m.kind = "or"
    <2>1. Answer(c, m) <=> /\ msg' = [msg EXCEPT ![c] = m] /\ cpc' = [cpc EXCEPT ![c] = "recv"]
                           /\ UNCHANGED <<gen, size>>
      BY <1>7, Zenon DEF Answer
    <2>2. QED
      BY <1>2, <1>7, <2>1
  <1>8. QED
    BY <1>2, <1>4, <1>5, <1>6, <1>7

\* A client changes its own state and connection only.
LEMMA ClientStepMoves ==
  ASSUME Types, NEW c \in Clients, Connect(c) \/ ClientStep(c) \/ KillClient(c)
  PROVE  Moves(c)
  <1>1. ASSUME ClientExits(c), UNCHANGED server, UNCHANGED setup PROVE Moves(c)
    <2>1. Ends(c)
      BY <1>1, ClientEnd
    <2>2. QED
      BY <1>1, <2>1 DEF Ends, Moves
  <1>2. CASE Connect(c)
    BY <1>2 DEF Connect, Types, Moves
  <1>3. CASE TellRole(c)
    <2>1. PICK bs \in ReceivedHeader(toC[c]) :
             IF IsHeader(bs)
             THEN /\ ClientTakes(c, bs)
                  /\ ClientSends(c, Bytes(RoleMsg(c), 1, Hdr))
                  /\ cpc' = [cpc EXCEPT ![c] = "wait"]
                  /\ UNCHANGED <<msg, done, size, gen, delivered>>
             ELSE ClientExits(c)
      BY <1>3 DEF TellRole, RoleMsg
    <2>2. cpc[c] = "ident" /\ UNCHANGED server /\ UNCHANGED setup
      BY <1>3 DEF TellRole
    <2>3. CASE IsHeader(bs)
      BY <2>1, <2>2, <2>3, SMTT(30) DEF Types, Moves, ClientTakes, ClientSends
    <2>4. CASE ~IsHeader(bs)
      BY <1>1, <2>1, <2>2, <2>4
    <2>5. QED
      BY <2>3, <2>4
  <1>4. CASE RecvRequest(c)
    <2>1. PICK bs \in ReceivedHeader(toC[c]) :
             IF IsHeader(bs) /\ Answers(c, bs[1][1])
             THEN /\ Answer(c, bs[1][1])
                  /\ done' = [done EXCEPT ![c] = <<>>]
                  /\ ClientTakes(c, bs)
                  /\ UNCHANGED <<delivered, toS>>
             ELSE ClientExits(c)
      BY <1>4 DEF RecvRequest
    <2>2. cpc[c] = "wait" /\ UNCHANGED server /\ UNCHANGED setup
      BY <1>4 DEF RecvRequest
    <2>3. CASE IsHeader(bs) /\ Answers(c, bs[1][1])
      <3>1. bs[1][1] \in Message
        BY HeaderType DEF Types
      <3>2. \/ \E m, g, s : StartReply(c, m, g, s)
            \/ /\ msg' = [msg EXCEPT ![c] = bs[1][1]] /\ cpc' = [cpc EXCEPT ![c] = "recv"]
               /\ UNCHANGED <<gen, size>>
        BY <2>1, <2>3, <3>1, AnswerCases
      <3>3. QED
        BY <2>1, <2>2, <2>3, <3>2, SMTT(30) DEF StartReply, ClientTakes, Types, Moves
    <2>4. CASE ~(IsHeader(bs) /\ Answers(c, bs[1][1]))
      BY <1>1, <2>1, <2>2, <2>4
    <2>5. QED
      BY <2>3, <2>4
  <1>5. CASE SendReply(c)
    BY <1>5 DEF SendReply, ClientSends, Types, Moves
  <1>6. CASE RecvOutput(c)
    BY <1>6 DEF RecvOutput, ClientTakes, Types, Moves
  <1>7. CASE SendAck(c)
    BY <1>7 DEF SendAck, ClientSends, Types, Moves
  <1>8. CASE ClientSeesEnd(c)
    BY <1>1, <1>8 DEF ClientSeesEnd
  <1>9. CASE KillClient(c)
    BY <1>1, <1>9 DEF KillClient
  <1>10. QED
    BY <1>2, <1>3, <1>4, <1>5, <1>6, <1>7, <1>8, <1>9 DEF ClientStep

\* What a client's step leaves of the session: all that is not about it.
LEMMA SessionKept ==
  ASSUME Types, Up, Session, NEW c \in Clients, Moves(c)
  PROVE  /\ Members' /\ (UNCHANGED backlog => Queue')
         /\ (~Talking(c) /\ ~Identifying(c) => Quiet(c)') => Silence'
         /\ ~Identifying(c) => Identification'
         /\ ~Talking(c) /\ UNCHANGED delivered => Exchange' /\ Handover'
         /\ (spc \in {"accept", "ident"} => gen'[c] = gen[c]) => Round'
         /\ gen'[c] = gen[c] /\ size'[c] = size[c] /\ (Talking(c) => Closed(c)' \/ Replied' = Replied) => Offers'
  <1>1. /\ Peer' = Peer /\ Up' = Up /\ InRounds' = InRounds /\ OutMsg' = OutMsg /\ Reply' = Reply
        /\ RequestMsg' = RequestMsg /\ Read' = Read /\ Sent' = Sent
        /\ \A e \in Clients : /\ Serving(e)' = Serving(e) /\ Identifying(e)' = Identifying(e)
                              /\ Talking(e)' = Talking(e)
    BY ServerFrame DEF Moves
  <1>2. /\ spc' = spc /\ step' = step /\ accepted' = accepted /\ fd' = fd /\ cur' = cur /\ need' = need
        /\ got' = got /\ n' = n /\ dataBuf' = dataBuf /\ taken' = taken /\ acked' = acked /\ dryRun' = dryRun
    BY DEF Moves, server, setup
  <1>3. \A e \in Clients : e # c =>
          /\ toS'[e] = toS[e] /\ toC'[e] = toC[e] /\ cpc'[e] = cpc[e] /\ msg'[e] = msg[e]
          /\ done'[e] = done[e] /\ size'[e] = size[e] /\ gen'[e] = gen[e]
    BY DEF Moves
  <1>4. cpc'[c] # "new" /\ (cpc'[c] = "ident" => cpc[c] = "new")
    BY DEF Moves
  <1>5. Members'
    <2>1. \A r \in Roles : fd'[r] # None => Role[fd'[r]] = r
      BY <1>2 DEF Session, Members
    <2>2. accepted' = Count("d")' + Count("s")' + Count("o")'
      BY <1>2 DEF Session, Members, Count
    <2>3. spc' \in {"accept", "ident"} <=> accepted' < 3
      BY <1>2 DEF Session, Members
    <2>4. spc' = "ident" => cur' \in Clients /\ ~Serving(cur)' /\ cpc'[cur'] # "new"
      <3>1. ASSUME spc = "ident" PROVE cur \in Clients /\ ~Serving(cur) /\ cpc[cur] # "new"
        BY <3>1 DEF Session, Members
      <3>2. QED
        BY <1>2, <1>3, <1>4, <3>1 DEF Serving
    <2>5. ASSUME NEW e \in Clients, Serving(e)' PROVE cpc'[e] \notin {"new", "ident"}
      <3>1. cpc[e] \notin {"new", "ident"}
        BY <1>1, <2>5 DEF Session, Members
      <3>2. QED
        BY <1>3, <1>4, <3>1
    <2>6. QED
      BY <2>1, <2>2, <2>3, <2>4, <2>5 DEF Members
  <1>6. ASSUME UNCHANGED backlog PROVE Queue'
    <2>1. ASSUME NEW k \in 1 .. Len(backlog)
          PROVE  ~Serving(backlog[k])' /\ ~Identifying(backlog[k])' /\ cpc'[backlog[k]] # "new"
      <3>1. backlog[k] \in Clients
        BY DEF Types
      <3>2. ~Serving(backlog[k]) /\ ~Identifying(backlog[k]) /\ cpc[backlog[k]] # "new"
        BY DEF Session, Queue
      <3>3. QED
        BY <1>1, <1>2, <1>3, <1>4, <1>6, <3>1, <3>2 DEF Serving, Identifying
    <2>2. QED
      BY <1>6, <2>1 DEF Session, Queue
  <1>7. ASSUME ~Talking(c) /\ ~Identifying(c) => Quiet(c)' PROVE Silence'
    <2>1. ASSUME NEW e \in Clients, ~Talking(e)', ~Identifying(e)' PROVE Quiet(e)'
      <3>1. ~Talking(e) /\ ~Identifying(e)
        BY <1>1, <2>1
      <3>2. CASE e = c
        BY <1>7, <3>1, <3>2
      <3>3. CASE e # c
        <4>1. Quiet(e)
          BY <3>1 DEF Session, Silence
        <4>2. QED
          BY <1>1, <1>3, <3>3, <4>1 DEF Quiet
      <3>4. QED
        BY <3>2, <3>3
    <2>2. QED
      BY <2>1 DEF Silence
  <1>8. ASSUME ~Identifying(c) PROVE Identification'
    <2>1. ASSUME spc = "ident"
          PROVE  toS'[cur] = toS[cur] /\ toC'[cur] = toC[cur] /\ cpc'[cur] = cpc[cur]
      <3>1. cur \in Clients /\ cur # c
        BY <1>8, <2>1 DEF Session, Members, Identifying
      <3>2. QED
        BY <1>3, <3>1
    <2>2. WhoAreYou' = WhoAreYou /\ RoleMsg(cur)' = RoleMsg(cur)
      BY <1>2 DEF WhoAreYou, RoleMsg
    <2>3. QED
      BY <1>2, <2>1, <2>2 DEF Session, Identification
  <1>9. ASSUME ~Talking(c), UNCHANGED delivered PROVE Exchange' /\ Handover'
    <2>1. ASSUME spc \in {"header", "payload", "output", "ack"}
          PROVE  /\ toS'[Peer] = toS[Peer] /\ toC'[Peer] = toC[Peer] /\ cpc'[Peer] = cpc[Peer]
                 /\ msg'[Peer] = msg[Peer] /\ done'[Peer] = done[Peer]
      <3>1. Peer \in Clients /\ Peer # c
        BY <1>9, <2>1, RolesServed DEF Session, InRounds, Talking
      <3>2. QED
        BY <1>3, <3>1
    <2>2. CASE spc \in {"header", "payload"}
      <3>1. step # "o" /\ (Asked(Peer) \/ Answering(Peer))
        BY <2>2 DEF Session, Exchange
      <3>2. Asked(Peer) => Asked(Peer)'
        BY <1>1, <1>2, <2>1, <2>2 DEF Asked
      <3>3. Answering(Peer) => Answering(Peer)'
        BY <1>1, <1>2, <2>1, <2>2 DEF Answering, Total
      <3>4. spc = "payload" =>
              need = Reply.len /\ Len(got) <= need /\ got = Bytes(Reply, Hdr + 1, Hdr + Len(got))
        BY DEF Session, Exchange
      <3>5. Exchange'
        BY <1>1, <1>2, <3>1, <3>2, <3>3, <3>4 DEF Exchange
      <3>6. Handover'
        BY <1>2, <2>2 DEF Handover
      <3>7. QED
        BY <3>5, <3>6
    <2>3. CASE spc \in {"output", "ack"}
      <3>1. need <= OutLen /\ (spc = "ack" <=> need = OutLen)
        BY <2>3 DEF Session, Handover
      <3>2. Unread(Peer) \/ Taking(Peer) \/ HasAll(Peer) \/ Acking(Peer) \/ Gone(Peer)
        BY <2>3 DEF Session, Handover
      <3>3. Unread(Peer) => Unread(Peer)'
        BY <1>1, <1>2, <2>1, <2>3 DEF Unread
      <3>4. Taking(Peer) => Taking(Peer)'
        BY <1>1, <1>2, <2>1, <2>3 DEF Taking, Reading
      <3>5. HasAll(Peer) => HasAll(Peer)'
        BY <1>1, <1>2, <1>9, <2>1, <2>3 DEF HasAll
      <3>6. Acking(Peer) => Acking(Peer)'
        BY <1>1, <1>2, <1>9, <2>1, <2>3 DEF Acking, AckMsg
      <3>7. Gone(Peer) => Gone(Peer)'
        BY <1>1, <2>1, <2>3 DEF Gone
      <3>8. Handover'
        BY <1>2, <3>1, <3>2, <3>3, <3>4, <3>5, <3>6, <3>7 DEF Handover
      <3>9. Exchange'
        BY <1>2, <2>3 DEF Exchange
      <3>10. QED
        BY <3>8, <3>9
    <2>4. CASE spc \notin {"header", "payload", "output", "ack"}
      BY <1>2, <2>4 DEF Exchange, Handover
    <2>5. QED
      BY <2>2, <2>3, <2>4
  <1>10. ASSUME spc \in {"accept", "ident"} => gen'[c] = gen[c] PROVE Round'
    <2>1. ASSUME spc \in {"accept", "ident"} PROVE \A e \in Clients : gen'[e] = 0
      BY <1>3, <1>10, <2>1 DEF Session, Round
    <2>2. Follows(taken[1])' = Follows(taken[1])
      BY <1>2 DEF Follows
    <2>3. QED
      BY <1>2, <2>1, <2>2 DEF Session, Round
  <1>11. ASSUME gen'[c] = gen[c], size'[c] = size[c], Talking(c) => Closed(c)' \/ Replied' = Replied PROVE Offers'
    <2>1. ASSUME NEW e \in Clients PROVE gen'[e] = gen[e] /\ size'[e] = size[e] /\ (~Closed(e)' => ~Closed(e))
      BY <1>3, <1>11 DEF Moves, Closed
    <2>2. CASE Replied' = Replied
      <3>1. ASSUME InRounds PROVE fd["d"] \in Clients /\ fd["s"] \in Clients
        BY <3>1, RolesServed DEF Session, Roles
      <3>2. Follows(dataBuf)' = Follows(dataBuf) /\ Follows(taken[2])' = Follows(taken[2])
        BY <1>2 DEF Follows
      <3>3. ASSUME InRounds, ~Closed(fd["d"])'
            PROVE  /\ step = "d" \/ (step = "c" /\ Replied) => size'[fd["d"]] = DataLen
                   /\ gen'[fd["d"]] = IF step = "d" /\ Replied THEN Follows(dataBuf) ELSE dataBuf
        BY <1>2, <2>1, <3>1, <3>3 DEF Session, Offers, Closed
      <3>4. ASSUME InRounds, ~Closed(fd["s"])'
            PROVE  gen'[fd["s"]] = IF step = "s" /\ Replied THEN Follows(taken[2]) ELSE taken[2]
        BY <1>2, <2>1, <3>1, <3>4 DEF Session, Offers, Closed
      <3>5. QED
        BY <1>1, <1>2, <2>2, <3>2, <3>3, <3>4 DEF Offers
    <2>3. CASE Replied' # Replied
      <3>1. spc \in {"header", "payload"}
        BY <1>2, <2>3 DEF Replied
      <3>2. Peer \in Clients /\ Talking(Peer) /\ fd["d"] \in Clients /\ fd["s"] \in Clients
        BY <3>1, RolesServed DEF Session, InRounds, Talking, Roles
      <3>3. Peer = c
        <4>1. ASSUME Peer # c PROVE Replied' = Replied
          BY <1>1, <1>2, <1>3, <3>2, <4>1 DEF Replied
        <4>2. QED
          BY <2>3, <4>1
      <3>4. Closed(Peer)'
        BY <1>1, <1>11, <2>3, <3>2, <3>3 DEF Closed
      <3>5. ASSUME ~Closed(fd["d"])'
            PROVE  step \notin {"c", "d"} /\ gen'[fd["d"]] = dataBuf
        <4>1. step \notin {"c", "d"}
          BY <1>1, <1>2, <3>4, <3>5 DEF Peer, Closed
        <4>2. ~Closed(fd["d"]) /\ gen'[fd["d"]] = gen[fd["d"]]
          BY <1>2, <2>1, <3>2, <3>5 DEF Closed
        <4>3. InRounds
          BY <3>1 DEF InRounds
        <4>4. QED
          BY <4>1, <4>2, <4>3 DEF Session, Offers
      <3>6. ASSUME ~Closed(fd["s"])'
            PROVE  step # "s" /\ gen'[fd["s"]] = taken[2]
        <4>1. step # "s"
          BY <1>1, <1>2, <3>4, <3>6 DEF Peer, Closed
        <4>2. ~Closed(fd["s"]) /\ gen'[fd["s"]] = gen[fd["s"]]
          BY <1>2, <2>1, <3>2, <3>6 DEF Closed
        <4>3. InRounds
          BY <3>1 DEF InRounds
        <4>4. QED
          BY <4>1, <4>2, <4>3 DEF Session, Offers
      <3>7. QED
        BY <1>2, <3>5, <3>6 DEF Offers
    <2>4. QED
      BY <2>2, <2>3
  <1>12. QED
    BY <1>5, <1>6, <1>7, <1>8, <1>9, <1>10, <1>11

\* Bytes on their way stay in order.
LEMMA BytesAppended ==
  ASSUME NEW x \in Seq(Byte), NEW y \in Seq(Byte)
  PROVE  x \o y \in Seq(Byte) /\ Len(x \o y) = Len(x) + Len(y) /\ Len(x) \in Nat /\ Len(y) \in Nat
  BY ConcatProperties

\* Appending to an empty connection.
LEMMA NothingBefore ==
  ASSUME NEW y \in Seq(Byte)
  PROVE  <<>> \o y = y
  BY ConcatEmptySeq

\* One turn of the client's send loop stays within the message.
LEMMA SendReplyTurn ==
  ASSUME Types, Lengths, NEW c \in Clients, SendReply(c)
  PROVE  \E k \in Nat :
           LET bs == Bytes(msg[c], Len(done[c]) + 1, Len(done[c]) + k) IN
           /\ cpc[c] = "send" /\ k >= 1 /\ Len(done[c]) + k <= Total(msg[c]) /\ Len(toS[c]) + k <= SockBuf
           /\ bs \in Seq(Byte) /\ Len(bs) = k
           /\ toS' = IF Up THEN [toS EXCEPT ![c] = @ \o bs] ELSE toS
           /\ done' = [done EXCEPT ![c] = @ \o bs]
           /\ cpc' = [cpc EXCEPT ![c] = IF Len(done[c]) + k < Total(msg[c]) THEN "send" ELSE "wait"]
           /\ UNCHANGED <<server, msg, size, gen, delivered, backlog, toC, setup, killed>>
  <1> DEFINE sent == Len(done[c])
             total == Total(msg[c])
  <1>1. msg[c] \in Message /\ done[c] \in Seq(Byte)
    BY DEF Types
  <1>2. sent \in Nat /\ total \in Nat /\ sent <= total
    <2>1. msg[c].len \in Nat /\ Hdr \in Nat
      BY <1>1, Assumptions DEF Message
    <2>2. QED
      BY <1>1, <2>1 DEF Total, Lengths
  <1>3. Chunk(total - sent) \in Nat /\ Chunk(total - sent) <= total - sent
    <2>1. total - sent \in Nat
      BY <1>2
    <2>2. QED
      BY <2>1, ChunkBound
  <1>4. PICK k \in 1 .. Chunk(total - sent) :
          LET bs == Bytes(msg[c], sent + 1, sent + k) IN
          /\ Room(toS[c], k) /\ ClientSends(c, bs)
          /\ done' = [done EXCEPT ![c] = @ \o bs]
          /\ cpc' = [cpc EXCEPT ![c] = IF sent + k < total THEN "send" ELSE "wait"]
    BY DEF SendReply
  <1> HIDE DEF sent, total
  <1>5. k \in Nat /\ k >= 1 /\ sent + k <= total /\ sent <= sent + k /\ sent + k \in Nat /\ (sent + k) - sent = k
    BY <1>2, <1>3, <1>4
  <1>6. Bytes(msg[c], sent + 1, sent + k) \in Seq(Byte) /\ Len(Bytes(msg[c], sent + 1, sent + k)) = k
    BY <1>1, <1>2, <1>5, BytesType
  <1>7. UNCHANGED <<server, msg, size, gen, delivered, backlog, toC, setup, killed>> /\ cpc[c] = "send"
    BY DEF SendReply
  <1>8. QED
    BY <1>4, <1>5, <1>6, <1>7 DEF ClientSends, Room, sent, total

\* One turn of the output client's receive loop.
LEMMA RecvOutputTurn ==
  ASSUME Types, NEW c \in Clients, RecvOutput(c), Reading(c)
  PROVE  \E bs \in Received(toC[c], Chunk(OutLen - Len(done[c]))) :
           /\ cpc[c] = "recv" /\ msg[c].len = OutLen
           /\ bs \in Seq(Byte) /\ Len(bs) >= 1 /\ Len(done[c]) + Len(bs) <= OutLen
           /\ Len(done[c] \o bs) = Len(done[c]) + Len(bs) /\ done[c] \o bs \in Seq(Byte)
           /\ done' = [done EXCEPT ![c] = @ \o bs] /\ toC' = [toC EXCEPT ![c] = Rest(@, bs)]
           /\ IF Len(done[c] \o bs) < OutLen
              THEN UNCHANGED <<cpc, delivered>>
              ELSE cpc' = [cpc EXCEPT ![c] = "ack"] /\ delivered' = Content(done[c] \o bs)
           /\ UNCHANGED <<server, msg, size, gen, backlog, toS, setup, killed>>
  <1>1. msg[c].len = OutLen /\ OutLen \in Nat /\ Len(done[c]) <= OutLen
    BY OwnMessages, Assumptions DEF Reading
  <1>2. PICK bs \in Received(toC[c], Chunk(OutLen - Len(done[c]))) :
          done' = [done EXCEPT ![c] = @ \o bs] /\ ClientTakes(c, bs)
    BY <1>1 DEF RecvOutput
  <1>3. done[c] \in Seq(Byte) /\ toC[c] \in Seq(Byte) /\ Len(done[c]) \in Nat /\ done \in [Clients -> Seq(Byte)]
    BY DEF Types
  <1>4. Chunk(OutLen - Len(done[c])) \in Nat /\ Chunk(OutLen - Len(done[c])) <= OutLen - Len(done[c])
    <2>1. OutLen - Len(done[c]) \in Nat
      BY <1>1, <1>3
    <2>2. QED
      BY <2>1, ChunkBound
  <1>5. bs \in Seq(Byte) /\ Len(bs) >= 1 /\ Len(bs) <= Chunk(OutLen - Len(done[c]))
    BY <1>2, <1>3, <1>4, ReceivedType
  <1>6. done'[c] = done[c] \o bs /\ Len(done[c] \o bs) = Len(done[c]) + Len(bs) /\ done[c] \o bs \in Seq(Byte)
    BY <1>2, <1>3, <1>5, BytesAppended
  <1>7. Len(done[c]) + Len(bs) <= OutLen
    BY <1>1, <1>3, <1>4, <1>5
  <1>8. /\ cpc[c] = "recv"
        /\ IF Len(done[c] \o bs) < OutLen
           THEN UNCHANGED <<cpc, delivered>>
           ELSE cpc' = [cpc EXCEPT ![c] = "ack"] /\ delivered' = Content(done[c] \o bs)
        /\ UNCHANGED <<server, msg, size, gen, backlog, toS, setup, killed>>
    BY <1>1, <1>6 DEF RecvOutput
  <1>9. QED
    BY <1>1, <1>2, <1>5, <1>6, <1>7, <1>8 DEF ClientTakes

\* A step of a client keeps the types.
LEMMA ClientStepTypes ==
  ASSUME Types, Lengths, NEW c \in Clients, Connect(c) \/ ClientStep(c) \/ KillClient(c),
         cpc[c] = "recv" => Reading(c)
  PROVE  Types'
  <1> DEFINE Stages == {"new", "ident", "wait", "send", "recv", "ack", "exited"}
             Queues == backlog' \in Seq(Clients) /\ killed' \subseteq Clients \cup {"server"}
             Programs == /\ cpc' \in [Clients -> Stages]
                         /\ msg' \in [Clients -> Message] /\ done' \in [Clients -> Seq(Byte)]
                         /\ size' \in [Clients -> Int] /\ gen' \in [Clients -> Nat]
             Streams == toS' \in [Clients -> Seq(Byte)] /\ toC' \in [Clients -> Seq(Byte)]
  <1>1. UNCHANGED server /\ UNCHANGED setup
    BY ClientStepMoves DEF Moves
  <1>2. /\ backlog \in Seq(Clients) /\ killed \subseteq Clients \cup {"server"}
        /\ cpc \in [Clients -> Stages]
        /\ msg \in [Clients -> Message] /\ done \in [Clients -> Seq(Byte)]
        /\ size \in [Clients -> Int] /\ gen \in [Clients -> Nat]
        /\ toS \in [Clients -> Seq(Byte)] /\ toC \in [Clients -> Seq(Byte)]
    BY DEF Types
  <1>3. /\ \A x \in Seq(Byte) : /\ [toS EXCEPT ![c] = x] \in [Clients -> Seq(Byte)]
                                /\ [toC EXCEPT ![c] = x] \in [Clients -> Seq(Byte)]
                                /\ [done EXCEPT ![c] = x] \in [Clients -> Seq(Byte)]
        /\ \A x \in Stages : [cpc EXCEPT ![c] = x] \in [Clients -> Stages]
    BY <1>2
  <1>4. /\ "ident" \in Stages /\ "wait" \in Stages /\ "send" \in Stages /\ "recv" \in Stages
        /\ "ack" \in Stages /\ "exited" \in Stages
    OBVIOUS
  <1> HIDE DEF Stages
  <1>5. \A bs \in ReceivedHeader(toC[c]) : bs[1][1] \in Message /\ Rest(toC[c], bs) \in Seq(Byte)
    BY <1>2, HeaderType
  <1>6. ASSUME ClientExits(c) PROVE Programs /\ Streams
    <2>1. <<>> \in Seq(Byte)
      OBVIOUS
    <2>2. Programs
      BY <1>2, <1>3, <1>4, <1>6 DEF ClientExits
    <2>3. Streams
      BY <1>2, <1>3, <1>6, <2>1 DEF ClientExits
    <2>4. QED
      BY <2>2, <2>3
  <1>7. ASSUME Connect(c) PROVE Queues /\ Programs /\ Streams
    <2>1. backlog' \in Seq(Clients)
      BY <1>2, <1>7 DEF Connect
    <2>2. cpc' \in [Clients -> Stages]
      BY <1>2, <1>3, <1>4, <1>7 DEF Connect
    <2>3. QED
      BY <1>2, <1>7, <2>1, <2>2 DEF Connect
  <1>8. ASSUME TellRole(c) PROVE Queues /\ Programs /\ Streams
    <2>1. PICK bs \in ReceivedHeader(toC[c]) :
             IF IsHeader(bs)
             THEN /\ ClientTakes(c, bs)
                  /\ ClientSends(c, Bytes(RoleMsg(c), 1, Hdr))
                  /\ cpc' = [cpc EXCEPT ![c] = "wait"]
                  /\ UNCHANGED <<msg, done, size, gen, delivered>>
             ELSE ClientExits(c)
      BY <1>8 DEF TellRole, RoleMsg
    <2>2. UNCHANGED <<backlog, killed>>
      BY <1>8 DEF TellRole
    <2>3. CASE IsHeader(bs)
      <3>1. Bytes(RoleMsg(c), 1, Hdr) \in Seq(Byte)
        BY RoleMessage, BytesFromStart, Assumptions
      <3>2. toS[c] \o Bytes(RoleMsg(c), 1, Hdr) \in Seq(Byte)
        BY <1>2, <3>1, BytesAppended
      <3>3. toS' \in [Clients -> Seq(Byte)] /\ toC' \in [Clients -> Seq(Byte)]
        <4>1. ClientTakes(c, bs) /\ ClientSends(c, Bytes(RoleMsg(c), 1, Hdr))
          BY <2>1, <2>3
        <4>2. toS' \in [Clients -> Seq(Byte)]
          BY <1>2, <3>2, <4>1 DEF ClientSends
        <4>3. toC' \in [Clients -> Seq(Byte)]
          BY <1>2, <1>3, <1>5, <2>1, <4>1 DEF ClientTakes
        <4>4. QED
          BY <4>2, <4>3
      <3>4. Programs
        BY <1>2, <1>3, <1>4, <2>1, <2>3
      <3>5. QED
        BY <1>2, <2>2, <3>3, <3>4
    <2>4. CASE ~IsHeader(bs)
      BY <1>2, <1>6, <2>1, <2>2, <2>4
    <2>5. QED
      BY <2>3, <2>4
  <1>9. ASSUME RecvRequest(c) PROVE Queues /\ Programs /\ Streams
    <2>1. PICK bs \in ReceivedHeader(toC[c]) :
             IF IsHeader(bs) /\ Answers(c, bs[1][1])
             THEN /\ Answer(c, bs[1][1])
                  /\ done' = [done EXCEPT ![c] = <<>>]
                  /\ ClientTakes(c, bs)
                  /\ UNCHANGED <<delivered, toS>>
             ELSE ClientExits(c)
      BY <1>9 DEF RecvRequest
    <2>2. UNCHANGED <<backlog, killed>>
      BY <1>9 DEF RecvRequest
    <2>3. CASE IsHeader(bs) /\ Answers(c, bs[1][1])
      <3>1. done' \in [Clients -> Seq(Byte)] /\ toS' \in [Clients -> Seq(Byte)] /\ toC' \in [Clients -> Seq(Byte)]
        <4>1. <<>> \in Seq(Byte)
          OBVIOUS
        <4>2. QED
          BY <1>2, <1>3, <1>5, <2>1, <2>3, <4>1, ZenonT(60) DEF ClientTakes
      <3> DEFINE m == bs[1][1]
      <3>2. m \in Message /\ m.len \in Nat
        <4>1. m \in Message
          BY <1>5
        <4>2. QED
          BY <4>1 DEF Message
      <3>3. gen[c] \in Nat /\ size[c] \in Int /\ Follows(gen[c]) \in Nat /\ DataLen \in Nat /\ CmdLen \in Nat
        BY <1>2, FollowsType, Assumptions
      <3> HIDE DEF m
      <3>4. ASSUME NEW x \in Message, NEW g \in Nat, NEW s \in Int, StartReply(c, x, g, s)
            PROVE  /\ cpc' \in [Clients -> Stages]
                   /\ msg' \in [Clients -> Message] /\ size' \in [Clients -> Int] /\ gen' \in [Clients -> Nat]
        BY <1>2, <1>3, <1>4, <3>4 DEF StartReply
      <3>5. \/ m.kind = "cr" /\ StartReply(c, Msg("c", CmdLen, <<DataLen, 0>>), gen[c], DataLen)
            \/ m.kind = "dr" /\ size[c] > 0 /\ StartReply(c, Msg("d", size[c], <<Follows(gen[c]), 0>>), Follows(gen[c]), size[c])
            \/ m.kind = "sr" /\ StartReply(c, Msg("s", m.len, <<Follows(gen[c]), 0>>), Follows(gen[c]), size[c])
            \/ /\ m.kind = "or" /\ msg' = [msg EXCEPT ![c] = m] /\ cpc' = [cpc EXCEPT ![c] = "recv"]
               /\ UNCHANGED <<gen, size>>
        <4>1. Answers(c, m) /\ Answer(c, m)
          BY <2>1, <2>3 DEF m
        <4>2. QED
          BY <3>2, <4>1, AnswerCases
      <3>6. "c" \in Kinds /\ "d" \in Kinds /\ "s" \in Kinds
        BY DEF Kinds
      <3>7. /\ Msg("c", CmdLen, <<DataLen, 0>>) \in Message
            /\ size[c] > 0 => Msg("d", size[c], <<Follows(gen[c]), 0>>) \in Message
            /\ Msg("s", m.len, <<Follows(gen[c]), 0>>) \in Message
        <4>1. Msg("c", CmdLen, <<DataLen, 0>>) \in Message
          BY <3>3, <3>6 DEF Msg, Message
        <4>2. ASSUME size[c] > 0 PROVE Msg("d", size[c], <<Follows(gen[c]), 0>>) \in Message
          BY <3>3, <3>6, <4>2 DEF Msg, Message
        <4>3. Msg("s", m.len, <<Follows(gen[c]), 0>>) \in Message
          BY <3>2, <3>3, <3>6 DEF Msg, Message
        <4>4. QED
          BY <4>1, <4>2, <4>3
      <3>8. /\ cpc' \in [Clients -> Stages]
            /\ msg' \in [Clients -> Message] /\ size' \in [Clients -> Int] /\ gen' \in [Clients -> Nat]
        <4>1. CASE /\ m.kind = "or" /\ msg' = [msg EXCEPT ![c] = m] /\ cpc' = [cpc EXCEPT ![c] = "recv"]
                   /\ UNCHANGED <<gen, size>>
          BY <1>2, <1>3, <1>4, <3>2, <4>1
        <4>2. QED
          BY <3>2, <3>3, <3>4, <3>5, <3>7, <4>1
      <3>9. QED
        BY <1>2, <2>2, <3>1, <3>8
    <2>4. CASE ~(IsHeader(bs) /\ Answers(c, bs[1][1]))
      BY <1>2, <1>6, <2>1, <2>2, <2>4
    <2>5. QED
      BY <2>3, <2>4
  <1>10. ASSUME SendReply(c) PROVE Queues /\ Programs /\ Streams
    <2>1. PICK k \in Nat :
           LET bs == Bytes(msg[c], Len(done[c]) + 1, Len(done[c]) + k) IN
           /\ bs \in Seq(Byte)
           /\ toS' = IF Up THEN [toS EXCEPT ![c] = @ \o bs] ELSE toS
           /\ done' = [done EXCEPT ![c] = @ \o bs]
           /\ cpc' = [cpc EXCEPT ![c] = IF Len(done[c]) + k < Total(msg[c]) THEN "send" ELSE "wait"]
           /\ UNCHANGED <<server, msg, size, gen, delivered, backlog, toC, setup, killed>>
      BY <1>10, SendReplyTurn
    <2> DEFINE bs == Bytes(msg[c], Len(done[c]) + 1, Len(done[c]) + k)
    <2> HIDE DEF bs
    <2>2. bs \in Seq(Byte) /\ toS[c] \in Seq(Byte) /\ done[c] \in Seq(Byte)
      BY <1>2, <2>1 DEF bs
    <2>3. toS[c] \o bs \in Seq(Byte) /\ done[c] \o bs \in Seq(Byte)
      BY <2>2, BytesAppended
    <2>4. toS' \in [Clients -> Seq(Byte)] /\ done' \in [Clients -> Seq(Byte)]
      BY <1>2, <1>3, <2>1, <2>3 DEF bs
    <2>5. cpc' \in [Clients -> Stages]
      BY <1>3, <1>4, <2>1
    <2>6. UNCHANGED <<backlog, killed, msg, size, gen, toC>>
      BY <2>1
    <2>7. QED
      BY <1>2, <2>4, <2>5, <2>6
  <1>11. ASSUME RecvOutput(c) PROVE Queues /\ Programs /\ Streams
    <2>1. Reading(c)
      BY <1>11 DEF RecvOutput
    <2>2. PICK bs \in Received(toC[c], Chunk(OutLen - Len(done[c]))) :
            /\ bs \in Seq(Byte) /\ done[c] \o bs \in Seq(Byte) /\ Len(done[c]) + Len(bs) <= OutLen
            /\ done' = [done EXCEPT ![c] = @ \o bs] /\ toC' = [toC EXCEPT ![c] = Rest(@, bs)]
            /\ cpc' = cpc \/ cpc' = [cpc EXCEPT ![c] = "ack"]
            /\ UNCHANGED <<server, msg, size, gen, backlog, toS, setup, killed>>
      BY <1>11, <2>1, RecvOutputTurn
    <2>3. Rest(toC[c], bs) \in Seq(Byte)
      <3>1. OutLen - Len(done[c]) \in Nat
        BY <1>2, <2>1, Assumptions DEF Reading
      <3>2. QED
        BY <1>2, <2>2, <3>1, ChunkBound, ReceivedType
    <2>4. toC' \in [Clients -> Seq(Byte)] /\ done' \in [Clients -> Seq(Byte)]
      BY <1>3, <2>2, <2>3
    <2>5. cpc' \in [Clients -> Stages]
      BY <1>2, <1>3, <1>4, <2>2
    <2>6. QED
      BY <1>2, <2>2, <2>4, <2>5
  <1>12. ASSUME SendAck(c) PROVE Queues /\ Programs /\ Streams
    <2>1. Msg("oa", AckLen(msg[c]), <<0, 0>>) \in Message
      <3>1. msg[c].len \in Nat
        BY <1>2 DEF Message
      <3>2. "oa" \in Kinds
        BY DEF Kinds
      <3>3. QED
        BY <3>1, <3>2 DEF AckLen, Msg, Message
    <2>2. Bytes(Msg("oa", AckLen(msg[c]), <<0, 0>>), 1, Hdr) \in Seq(Byte)
      BY <2>1, BytesFromStart, Assumptions
    <2>3. toS[c] \o Bytes(Msg("oa", AckLen(msg[c]), <<0, 0>>), 1, Hdr) \in Seq(Byte)
      BY <1>2, <2>2, BytesAppended
    <2>4. toS' \in [Clients -> Seq(Byte)]
      BY <1>2, <1>3, <1>12, <2>3 DEF SendAck, ClientSends
    <2>5. cpc' \in [Clients -> Stages]
      BY <1>3, <1>4, <1>12 DEF SendAck
    <2>6. QED
      BY <1>2, <1>12, <2>4, <2>5 DEF SendAck
  <1>13. ASSUME ClientSeesEnd(c) PROVE Queues /\ Programs /\ Streams
    BY <1>2, <1>6, <1>13 DEF ClientSeesEnd
  <1>14. ASSUME KillClient(c) PROVE Queues /\ Programs /\ Streams
    BY <1>2, <1>6, <1>14 DEF KillClient
  <1>15. Queues /\ Programs /\ Streams
    BY <1>7, <1>8, <1>9, <1>10, <1>11, <1>12, <1>13, <1>14 DEF ClientStep
  <1>16. QED
    BY <1>1, <1>15 DEF Types, server, setup, Stages

\* Bounds of the other connections do not change with a client's step.
LEMMA LengthsKept ==
  ASSUME Types, Lengths, NEW c \in Clients, Moves(c), Len(done'[c]) <= Total(msg'[c]),
         Len(toS'[c]) <= SockBuf, Len(toC'[c]) <= SockBuf
  PROVE  Lengths'
  BY DEF Lengths, Moves, Total

\* A client of a running server ends, wherever it is.
LEMMA EndKeepsSession ==
  ASSUME Inv, Up, NEW c \in Clients, Moves(c), Ends(c), UNCHANGED backlog
  PROVE  Lengths' /\ Session'
  <1>1. Types /\ Lengths /\ Session
    BY DEF Inv
  <1>2. /\ cpc'[c] = "exited" /\ toC'[c] = <<>>
        /\ toS'[c] = toS[c] \/ (toC[c] # <<>> /\ toS'[c] = <<>>)
        /\ msg' = msg /\ done' = done /\ size' = size /\ gen' = gen /\ delivered' = delivered
    BY DEF Ends
  <1>3. Lengths'
    <2>1. Len(toC'[c]) <= SockBuf /\ Len(toS'[c]) <= SockBuf
      BY <1>1, <1>2, Assumptions DEF Lengths
    <2>2. Len(done'[c]) <= Total(msg'[c])
      BY <1>1, <1>2 DEF Lengths
    <2>3. QED
      BY <1>1, <2>1, <2>2, LengthsKept
  <1>4. /\ Members' /\ Queue' /\ Round' /\ Offers'
        /\ (~Talking(c) /\ ~Identifying(c) => Quiet(c)') => Silence'
        /\ ~Identifying(c) => Identification'
        /\ ~Talking(c) => Exchange' /\ Handover'
    <2>1. gen'[c] = gen[c] /\ size'[c] = size[c] /\ Closed(c)'
      BY <1>2 DEF Closed
    <2>2. QED
      BY <1>1, <1>2, <2>1, SessionKept
  <1>5. Silence'
    <2>1. ASSUME ~Talking(c), ~Identifying(c) PROVE Quiet(c)'
      <3>1. Quiet(c)
        BY <1>1, <2>1 DEF Session, Silence
      <3>2. QED
        BY <1>2, <3>1 DEF Quiet
    <2>2. QED
      BY <1>4, <2>1
  <1>6. Identification'
    <2>1. CASE Identifying(c)
      <3>1. spc = "ident" /\ cur = c /\ spc' = spc /\ cur' = cur
        BY <2>1 DEF Identifying, Moves, server
      <3>2. \/ cpc[c] = "ident" /\ toS[c] = <<>>
            \/ cpc[c] \in {"wait", "exited"} /\ toC[c] = <<>> /\ toS[c] = Bytes(RoleMsg(c), 1, Hdr)
            \/ cpc[c] = "exited" /\ toC[c] = <<>> /\ toS[c] = <<>>
        BY <1>1, <3>1 DEF Session, Identification
      <3>3. toS'[c] = <<>> \/ toS'[c] = Bytes(RoleMsg(c), 1, Hdr)
        BY <1>2, <3>2
      <3>4. QED
        BY <1>2, <3>1, <3>3 DEF Identification, RoleMsg
    <2>2. QED
      BY <1>4, <2>1
  <1>7. Exchange' /\ Handover'
    <2>1. CASE Talking(c)
      <3>1. /\ Peer' = Peer /\ OutMsg' = OutMsg /\ Reply' = Reply /\ Read' = Read
            /\ spc' = spc /\ step' = step /\ need' = need /\ got' = got /\ taken' = taken
        BY ServerFrame DEF Moves, server
      <3>2. c = Peer /\ spc \in {"header", "payload", "output", "ack"}
        BY <2>1 DEF Talking
      <3>3. CASE spc \in {"header", "payload"}
        <4>1. step # "o" /\ (Asked(c) \/ Answering(c))
          BY <1>1, <3>2, <3>3 DEF Session, Exchange
        <4>2. Answering(c)'
          <5>1. Reply \in Message /\ Total(Reply) \in Nat /\ Total(Reply) >= Hdr
            <6>1. Reply \in Message /\ Reply.len \in Nat
              BY <1>1, <4>1, ReplyMessage
            <6>2. QED
              BY <6>1, Assumptions DEF Total
          <5>2. CASE Asked(c)
            <6>1. toS'[c] = <<>> /\ Read = 0
              BY <1>2, <5>2 DEF Asked, Read
            <6>2. \A p \in Nat : p = 0 => Bytes(Reply, p + 1, p) = <<>>
              BY <5>1, BytesEmpty
            <6>3. Bytes(Reply, 0 + 1, 0) = <<>>
              BY <6>2
            <6>4. 0 \in 0 .. Total(Reply)
              BY <5>1, Assumptions
            <6>5. QED
              BY <1>2, <3>1, <6>1, <6>3, <6>4 DEF Answering, Total
          <5>3. CASE Answering(c)
            BY <1>2, <3>1, <5>3 DEF Answering, Total
          <5>4. QED
            BY <4>1, <5>2, <5>3
        <4>3. Exchange'
          BY <1>1, <3>1, <3>2, <4>1, <4>2 DEF Session, Exchange
        <4>4. Handover'
          BY <3>1, <3>3 DEF Handover
        <4>5. QED
          BY <4>3, <4>4
      <3>4. CASE spc \in {"output", "ack"}
        <4>1. need <= OutLen /\ (spc = "ack" <=> need = OutLen)
          BY <1>1, <3>4 DEF Session, Handover
        <4>2. Unread(c) \/ Taking(c) \/ HasAll(c) \/ Acking(c) \/ Gone(c)
          BY <1>1, <3>2, <3>4 DEF Session, Handover
        <4>3. CASE Acking(c)
          <5>1. Acking(c)'
            BY <1>2, <3>1, <4>3 DEF Acking, AckMsg
          <5>2. QED
            BY <3>1, <3>2, <3>4, <4>1, <5>1 DEF Exchange, Handover
        <4>4. CASE ~Acking(c)
          <5>1. toS[c] = <<>>
            BY <4>2, <4>4 DEF Unread, Taking, HasAll, Gone
          <5>2. Gone(c)'
            BY <1>2, <5>1 DEF Gone
          <5>3. QED
            BY <3>1, <3>2, <3>4, <4>1, <5>2 DEF Exchange, Handover
        <4>5. QED
          BY <4>3, <4>4
      <3>5. QED
        BY <3>2, <3>3, <3>4
    <2>2. QED
      BY <1>4, <2>1
  <1>8. QED
    BY <1>3, <1>4, <1>5, <1>6, <1>7 DEF Session

\* A client that connects has said nothing yet.
LEMMA ConnectKeepsSession ==
  ASSUME Inv, Up, NEW c \in Clients, Connect(c)
  PROVE  Lengths' /\ Session'
  <1>1. Types /\ Lengths /\ Session /\ Moves(c)
    BY ClientStepMoves DEF Inv
  <1>2. /\ cpc[c] = "new" /\ cpc' = [cpc EXCEPT ![c] = "ident"] /\ backlog' = Append(backlog, c)
        /\ UNCHANGED <<server, msg, done, size, gen, delivered, toS, toC, setup, killed>>
    BY DEF Connect
  <1>3. ~Serving(c) /\ ~Identifying(c) /\ ~Talking(c)
    BY <1>1, <1>2, TalkingServes DEF Session, Members, Identifying
  <1>4. cpc'[c] = "ident" /\ \A e \in Clients : cpc[e] # "new" => cpc'[e] # "new"
    BY <1>1, <1>2 DEF Types
  <1>5. Members' /\ Silence' /\ Identification' /\ Exchange' /\ Handover' /\ Round' /\ Offers'
    <2>1. Quiet(c)'
      <3>1. Quiet(c)
        BY <1>1, <1>3 DEF Session, Silence
      <3>2. QED
        BY <1>2, <1>4, <3>1 DEF Quiet
    <2>2. gen'[c] = gen[c] /\ size'[c] = size[c]
      BY <1>2
    <2>3. QED
      BY <1>1, <1>2, <1>3, <2>1, <2>2, SessionKept
  <1>6. Queue'
    <2>1. /\ Len(backlog') = Len(backlog) + 1 /\ Len(backlog) \in Nat
          /\ \A k \in 1 .. Len(backlog) : backlog'[k] = backlog[k] /\ backlog[k] \in Clients
          /\ backlog'[Len(backlog) + 1] = c
      BY <1>1, <1>2, SMTT(30) DEF Types
    <2>2. \A k \in 1 .. Len(backlog) :
            ~Serving(backlog[k]) /\ ~Identifying(backlog[k]) /\ cpc[backlog[k]] # "new"
      BY <1>1 DEF Session, Queue
    <2>3. ASSUME NEW k \in 1 .. Len(backlog') PROVE k \in 1 .. Len(backlog) \/ k = Len(backlog) + 1
      BY <2>1
    <2>4. \A e \in Clients : Serving(e)' = Serving(e) /\ Identifying(e)' = Identifying(e)
      BY <1>2, ServerFrame
    <2>5. ASSUME NEW k \in 1 .. Len(backlog')
          PROVE  ~(Serving(backlog[k]))' /\ ~(Identifying(backlog[k]))' /\ cpc'[backlog'[k]] # "new"
      <3>1. CASE k = Len(backlog) + 1
        BY <1>3, <1>4, <2>1, <2>4, <3>1 DEF Serving, Identifying
      <3>2. CASE k \in 1 .. Len(backlog)
        BY <1>2, <1>4, <2>1, <2>2, <2>4, <3>2 DEF Serving, Identifying
      <3>3. QED
        BY <2>3, <3>1, <3>2
    <2>6. ASSUME NEW j \in 1 .. Len(backlog'), NEW k \in 1 .. Len(backlog'), backlog'[j] = backlog'[k]
          PROVE  j = k
      <3>1. CASE j \in 1 .. Len(backlog) /\ k \in 1 .. Len(backlog)
        BY <1>1, <2>1, <2>6, <3>1 DEF Session, Queue
      <3>2. CASE j = Len(backlog) + 1 /\ k \in 1 .. Len(backlog)
        BY <1>2, <2>1, <2>2, <2>6, <3>2
      <3>3. CASE k = Len(backlog) + 1 /\ j \in 1 .. Len(backlog)
        BY <1>2, <2>1, <2>2, <2>6, <3>3
      <3>4. QED
        BY <2>3, <3>1, <3>2, <3>3
    <2>7. QED
      BY <2>5, <2>6 DEF Queue
  <1>7. Lengths'
    BY <1>1, <1>2 DEF Lengths
  <1>8. QED
    BY <1>5, <1>6, <1>7 DEF Session

\* Bytes of a message from the first one on, and the whole header of it.
LEMMA WholeHeader ==
  ASSUME NEW m \in Message
  PROVE  /\ Bytes(m, 1, Hdr) \in Seq(Byte) /\ Len(Bytes(m, 1, Hdr)) = Hdr /\ Bytes(m, 1, Hdr) # <<>>
         /\ Bytes(m, Hdr + 1, Hdr) = <<>> /\ Bytes(m, 1, 0) = <<>>
         /\ \A bs \in ReceivedHeader(Bytes(m, 1, Hdr)) :
              /\ bs[1][1] = m /\ (~fragment => IsHeader(bs))
              /\ IsHeader(bs) => Rest(Bytes(m, 1, Hdr), bs) = <<>>
  <1>1. Hdr \in Nat /\ Hdr >= 1
    BY Assumptions
  <1>2. Bytes(m, 1, Hdr) \in Seq(Byte) /\ Len(Bytes(m, 1, Hdr)) = Hdr /\ Bytes(m, 1, Hdr) # <<>>
    BY <1>1, BytesFromStart
  <1>3. Bytes(m, Hdr + 1, Hdr) = <<>>
    BY <1>1, BytesEmpty
  <1>4. Bytes(m, 1, 0) = <<>>
    <2>1. \A p \in Nat : p = 0 => Bytes(m, p + 1, p) = <<>>
      BY BytesEmpty
    <2>2. Bytes(m, 0 + 1, 0) = <<>>
      BY <2>1
    <2>3. QED
      BY <2>2
  <1>5. \A bs \in ReceivedHeader(Bytes(m, 1, Hdr)) :
          /\ bs[1][1] = m /\ (~fragment => IsHeader(bs))
          /\ IsHeader(bs) => Rest(Bytes(m, 1, Hdr), bs) = Bytes(m, Hdr + 1, Hdr)
    BY <1>1, HeaderReceived
  <1>6. QED
    BY <1>2, <1>3, <1>4, <1>5

\* The first Hdr bytes of a message are a header.
LEMMA MessageHeader ==
  ASSUME NEW m \in Message, NEW x, x = Bytes(m, 1, Hdr)
  PROVE  IsHeader(x) /\ x[1][1] = m
  <1>1. Hdr \in Nat /\ Hdr >= 1
    BY Assumptions
  <1>2. Len(x) = Hdr /\ x[1] = <<m, 1>>
    BY <1>1, BytesFromStart
  <1>3. QED
    BY <1>2 DEF IsHeader

\* A client that names its role leaves the session in step; with whole headers it does not exit.
LEMMA TellRoleKeepsSession ==
  ASSUME Inv, Up, NEW c \in Clients, TellRole(c)
  PROVE  /\ Lengths' /\ Session'
         /\ ~fragment => cpc'[c] # "exited"
  <1>1. Types /\ Lengths /\ Session /\ Moves(c)
    BY ClientStepMoves DEF Inv, ClientStep
  <1>2. cpc[c] = "ident" /\ UNCHANGED <<server, backlog, setup, killed>>
    BY DEF TellRole
  <1>3. PICK bs \in ReceivedHeader(toC[c]) :
          IF IsHeader(bs)
          THEN /\ ClientTakes(c, bs)
               /\ ClientSends(c, Bytes(RoleMsg(c), 1, Hdr))
               /\ cpc' = [cpc EXCEPT ![c] = "wait"]
               /\ UNCHANGED <<msg, done, size, gen, delivered>>
          ELSE ClientExits(c)
    BY DEF TellRole, RoleMsg
  <1>4. toC[c] # <<>>
    <2>1. \A w \in Nat : toC[c] = <<>> => ReceivedHeader(toC[c]) = {}
      BY NothingReceived
    <2>2. QED
      BY <1>3, <2>1
  <1>5. Identifying(c) /\ toC[c] = Bytes(WhoAreYou, 1, Hdr) /\ toS[c] = <<>>
    BY <1>1, <1>2, <1>4, Situation
  <1>6. WhoAreYou \in Message
    BY <1>1, OwnMessages
  <1>7. (~fragment => IsHeader(bs)) /\ (IsHeader(bs) => Rest(toC[c], bs) = <<>>)
    BY <1>3, <1>5, <1>6, WholeHeader
  <1>8. CASE IsHeader(bs)
    <2>1. Bytes(RoleMsg(c), 1, Hdr) \in Seq(Byte) /\ Len(Bytes(RoleMsg(c), 1, Hdr)) = Hdr
      BY RoleMessage, WholeHeader
    <2>2. <<>> \o Bytes(RoleMsg(c), 1, Hdr) = Bytes(RoleMsg(c), 1, Hdr)
      BY <2>1, NothingBefore
    <2>3. /\ cpc'[c] = "wait" /\ toC'[c] = <<>> /\ toS'[c] = Bytes(RoleMsg(c), 1, Hdr)
          /\ msg' = msg /\ done' = done /\ gen' = gen /\ size' = size /\ delivered' = delivered
      <3>1. cpc'[c] = "wait"
        BY <1>1, <1>3, <1>8 DEF Types
      <3>2. toC'[c] = <<>>
        BY <1>1, <1>3, <1>7, <1>8 DEF Types, ClientTakes
      <3>3. toS'[c] = Bytes(RoleMsg(c), 1, Hdr)
        BY <1>1, <1>3, <1>5, <1>8, <2>2 DEF Types, ClientSends
      <3>4. QED
        BY <1>3, <1>8, <3>1, <3>2, <3>3
    <2>4. ~Talking(c) /\ spc' = spc /\ cur' = cur /\ spc = "ident" /\ cur = c
      BY <1>2, <1>5 DEF Identifying, Talking, server
    <2>5. Identification'
      BY <2>3, <2>4 DEF Identification, RoleMsg
    <2>6. Members' /\ Queue' /\ Silence' /\ Exchange' /\ Handover' /\ Round' /\ Offers'
      <3>1. gen'[c] = gen[c] /\ size'[c] = size[c] /\ UNCHANGED delivered /\ UNCHANGED backlog
        BY <1>2, <2>3
      <3>2. QED
        BY <1>1, <1>5, <2>4, <3>1, SessionKept
    <2>7. Lengths'
      <3>1. Len(toS'[c]) <= SockBuf /\ Len(toC'[c]) <= SockBuf
        BY <2>1, <2>3, Assumptions
      <3>2. Len(done'[c]) <= Total(msg'[c])
        BY <1>1, <2>3 DEF Lengths
      <3>3. QED
        BY <1>1, <3>1, <3>2, LengthsKept
    <2>8. QED
      BY <2>3, <2>5, <2>6, <2>7 DEF Session
  <1>9. CASE ~IsHeader(bs)
    <2>1. Ends(c)
      BY <1>1, <1>3, <1>9, ClientEnd
    <2>2. Lengths' /\ Session'
      BY <1>1, <1>2, <2>1, EndKeepsSession
    <2>3. QED
      BY <1>7, <1>9, <2>2
  <1>10. QED
    BY <1>8, <1>9

\* A client acknowledges what it was sent, once.
LEMMA SendAckKeepsSession ==
  ASSUME Inv, Up, NEW c \in Clients, SendAck(c)
  PROVE  Lengths' /\ Session'
  <1>1. Types /\ Lengths /\ Session /\ Moves(c)
    BY ClientStepMoves DEF Inv, ClientStep
  <1>2. /\ cpc[c] = "ack" /\ cpc' = [cpc EXCEPT ![c] = "wait"]
        /\ UNCHANGED <<server, msg, done, size, gen, delivered, backlog, toC, setup, killed>>
        /\ toS' = [toS EXCEPT ![c] = @ \o Bytes(Msg("oa", msg[c].len, <<0, 0>>), 1, Hdr)]
    BY DEF SendAck, ClientSends, AckLen
  <1>3. Talking(c) /\ spc = "ack" /\ HasAll(c)
    BY <1>1, <1>2, Situation
  <1>4. AckMsg \in Message /\ Msg("oa", msg[c].len, <<0, 0>>) = AckMsg
    BY <1>1, <1>3, OwnMessages DEF HasAll, AckMsg
  <1>5. Bytes(AckMsg, 1, Hdr) \in Seq(Byte) /\ Len(Bytes(AckMsg, 1, Hdr)) = Hdr
    BY <1>4, WholeHeader
  <1>6. <<>> \o Bytes(AckMsg, 1, Hdr) = Bytes(AckMsg, 1, Hdr)
    BY <1>5, NothingBefore
  <1>7. cpc'[c] = "wait" /\ toC'[c] = <<>> /\ toS'[c] = Bytes(AckMsg, 1, Hdr)
    <2>1. cpc'[c] = "wait" /\ toC'[c] = <<>>
      BY <1>1, <1>2, <1>3 DEF Types, HasAll
    <2>2. toS'[c] = toS[c] \o Bytes(AckMsg, 1, Hdr) /\ toS[c] = <<>>
      BY <1>1, <1>2, <1>3, <1>4 DEF Types, HasAll
    <2>3. QED
      BY <1>6, <2>1, <2>2
  <1>8. /\ Peer' = Peer /\ c = Peer /\ spc' = spc /\ step' = step /\ need' = need /\ taken' = taken
    BY <1>2, <1>3, ServerFrame DEF Talking, server
  <1>9. Exchange' /\ Handover'
    <2>1. Acking(c)'
      BY <1>2, <1>3, <1>7, <1>8 DEF HasAll, Acking, AckMsg
    <2>2. QED
      BY <1>1, <1>3, <1>8, <2>1 DEF Session, Exchange, Handover
  <1>10. Members' /\ Queue' /\ Silence' /\ Identification' /\ Round' /\ Offers'
    <2>1. gen'[c] = gen[c] /\ size'[c] = size[c] /\ UNCHANGED backlog /\ Replied' = Replied
      BY <1>2, <1>3, <1>8 DEF Replied
    <2>2. ~Identifying(c)
      BY <1>3 DEF Identifying
    <2>3. QED
      BY <1>1, <1>3, <2>1, <2>2, SessionKept
  <1>11. Lengths'
    <2>1. Len(toS'[c]) <= SockBuf /\ Len(toC'[c]) <= SockBuf
      BY <1>5, <1>7, Assumptions
    <2>2. Len(done'[c]) <= Total(msg'[c])
      BY <1>1, <1>2 DEF Lengths
    <2>3. QED
      BY <1>1, <2>1, <2>2, LengthsKept
  <1>12. QED
    BY <1>9, <1>10, <1>11 DEF Session

\* A client continues its reply where it stopped.
LEMMA SendReplyKeepsSession ==
  ASSUME Inv, Up, NEW c \in Clients, SendReply(c)
  PROVE  Lengths' /\ Session'
  <1>1. Types /\ Lengths /\ Session /\ Moves(c)
    BY ClientStepMoves DEF Inv, ClientStep
  <1> DEFINE sent == Len(done[c])
  <1>2. PICK k \in Nat :
           LET bs == Bytes(msg[c], sent + 1, sent + k) IN
           /\ cpc[c] = "send" /\ k >= 1 /\ sent + k <= Total(msg[c]) /\ Len(toS[c]) + k <= SockBuf
           /\ bs \in Seq(Byte) /\ Len(bs) = k
           /\ toS' = IF Up THEN [toS EXCEPT ![c] = @ \o bs] ELSE toS
           /\ done' = [done EXCEPT ![c] = @ \o bs]
           /\ cpc' = [cpc EXCEPT ![c] = IF sent + k < Total(msg[c]) THEN "send" ELSE "wait"]
           /\ UNCHANGED <<server, msg, size, gen, delivered, backlog, toC, setup, killed>>
    BY <1>1, SendReplyTurn
  <1> DEFINE bs == Bytes(msg[c], sent + 1, sent + k)
  <1>3. Talking(c) /\ spc \in {"header", "payload"} /\ Answering(c)
    BY <1>1, <1>2, Situation
  <1>4. /\ msg[c] = Reply /\ toC[c] = <<>> /\ sent \in Nat
        /\ toS[c] = Bytes(Reply, Read + 1, sent) /\ Read <= sent /\ Read \in Nat
    <2>1. Read \in Nat /\ sent \in Nat
      BY <1>1, Assumptions DEF Types, Read
    <2>2. Total(Reply) \in Nat
      <3>1. Reply \in Message
        BY <1>1, <1>3, ReplyMessage DEF Session, Exchange
      <3>2. QED
        BY <3>1, Assumptions DEF Message, Total
    <2>3. PICK q \in Read .. Total(Reply) :
            toS[c] = Bytes(Reply, Read + 1, q) /\ q = sent /\ msg[c] = Reply
      BY <1>2, <1>3 DEF Answering
    <2>4. QED
      BY <1>3, <2>1, <2>2, <2>3 DEF Answering
  <1>5. Reply \in Message /\ Total(Reply) \in Nat
    <2>1. Reply \in Message
      BY <1>1, <1>3, ReplyMessage DEF Session, Exchange
    <2>2. QED
      BY <2>1, Assumptions DEF Message, Total
  <1> HIDE DEF sent, bs
  <1>6. bs \in Seq(Byte) /\ Len(bs) = k /\ toS[c] \o bs = Bytes(Reply, Read + 1, sent + k)
    <2>1. bs \in Seq(Byte) /\ Len(bs) = k
      BY <1>2 DEF bs
    <2>2. sent + k \in Nat /\ sent <= sent + k
      BY <1>2, <1>4
    <2>3. \A r \in Nat : sent <= r =>
            Bytes(Reply, Read + 1, sent) \o Bytes(Reply, sent + 1, r) = Bytes(Reply, Read + 1, r)
      <3>1. Read \in Nat /\ sent \in Nat /\ Read <= sent /\ Reply \in Message
        BY <1>4, <1>5
      <3>2. QED
        BY ONLY <3>1, BytesConcat
    <2>4. QED
      BY <1>4, <2>1, <2>2, <2>3 DEF bs
  <1>7. /\ toS'[c] = Bytes(Reply, Read + 1, sent + k) /\ Len(toS'[c]) <= SockBuf
        /\ Len(done'[c]) = sent + k /\ toC' = toC /\ msg' = msg
        /\ cpc'[c] = IF sent + k < Total(Reply) THEN "send" ELSE "wait"
    <2>1. done[c] \in Seq(Byte) /\ toS[c] \in Seq(Byte)
      BY <1>1 DEF Types
    <2>2. /\ Len(done[c] \o bs) = sent + k /\ Len(toS[c] \o bs) = Len(toS[c]) + k
      BY <1>6, <2>1, BytesAppended DEF sent
    <2>3. toS'[c] = toS[c] \o bs /\ done'[c] = done[c] \o bs /\ toC' = toC /\ msg' = msg
      BY <1>1, <1>2 DEF Types, bs
    <2>4. cpc'[c] = IF sent + k < Total(msg[c]) THEN "send" ELSE "wait"
      BY <1>1, <1>2 DEF Types
    <2>5. QED
      BY <1>2, <1>4, <1>6, <2>2, <2>3, <2>4
  <1>8. /\ Peer' = Peer /\ Reply' = Reply /\ Read' = Read /\ c = Peer
        /\ spc' = spc /\ step' = step /\ need' = need /\ got' = got
    BY <1>2, <1>3, ServerFrame DEF Talking, server
  <1>9. Exchange' /\ Handover'
    <2>1. sent + k \in Read .. Total(Reply) /\ sent + k \in Nat /\ sent + k <= Total(Reply)
      BY <1>2, <1>4, <1>5
    <2> DEFINE r == sent + k
    <2>2. /\ cpc'[c] \in {"send", "wait"} /\ toC'[c] = <<>> /\ toS'[c] = Bytes(Reply', Read' + 1, r)
          /\ cpc'[c] = "send" => r = Len(done'[c]) /\ r < Total(Reply') /\ msg'[c] = Reply'
          /\ cpc'[c] = "wait" => r = Total(Reply')
          /\ r \in Read' .. Total(Reply')
      <3>1. Total(Reply') = Total(Reply)
        BY <1>8 DEF Total
      <3>2. ~(sent + k < Total(Reply)) => sent + k = Total(Reply)
        BY <1>5, <2>1
      <3>3. QED
        BY <1>4, <1>7, <1>8, <2>1, <3>1, <3>2
    <2> HIDE DEF r
    <2>3. Answering(c)'
      BY <2>2 DEF Answering, Total
    <2>4. QED
      BY <1>1, <1>3, <1>8, <2>3 DEF Session, Exchange, Handover
  <1>10. Members' /\ Queue' /\ Silence' /\ Identification' /\ Round' /\ Offers'
    <2>1. gen'[c] = gen[c] /\ size'[c] = size[c] /\ UNCHANGED backlog /\ Replied' = Replied
      BY <1>2, <1>3, <1>7, <1>8 DEF Replied
    <2>2. ~Identifying(c)
      BY <1>3 DEF Identifying
    <2>3. QED
      BY <1>1, <1>3, <2>1, <2>2, SessionKept
  <1>11. Lengths'
    <2>1. Len(toC'[c]) <= SockBuf /\ Len(done'[c]) <= Total(msg'[c])
      BY <1>1, <1>2, <1>4, <1>7 DEF Lengths
    <2>2. QED
      BY <1>1, <1>7, <2>1, LengthsKept
  <1>12. QED
    BY <1>9, <1>10, <1>11 DEF Session

\* What a client that waits for a request reads, and does with it.
LEMMA RecvRequestReads ==
  ASSUME Inv, Up, NEW c \in Clients, RecvRequest(c)
  PROVE  /\ cpc[c] = "wait" /\ Talking(c) /\ toS[c] = <<>> /\ c = Peer /\ Peer \in Clients
         /\ Role[c] = (IF step = "c" THEN "d" ELSE step)
         /\ UNCHANGED <<server, backlog, setup, killed>>
         /\ \/ spc = "header" /\ step # "o" /\ toC[c] = Bytes(RequestMsg, 1, Hdr)
            \/ spc \in {"output", "ack"} /\ step = "o" /\ toC[c] = Bytes(OutMsg, 1, Sent)
         /\ \E bs \in ReceivedHeader(toC[c]) :
              /\ bs[1][1] = (IF step = "o" THEN OutMsg ELSE RequestMsg)
              /\ ~fragment => IsHeader(bs)
              /\ IsHeader(bs) => Rest(toC[c], bs) = IF step = "o" THEN Bytes(OutMsg, Hdr + 1, Sent) ELSE <<>>
              /\ IF IsHeader(bs) /\ Answers(c, bs[1][1])
                 THEN /\ Answer(c, bs[1][1])
                      /\ done' = [done EXCEPT ![c] = <<>>]
                      /\ toC' = [toC EXCEPT ![c] = Rest(@, bs)]
                      /\ UNCHANGED <<delivered, toS>>
                 ELSE ClientExits(c)
  <1>1. Types /\ Session
    BY DEF Inv
  <1>2. cpc[c] = "wait" /\ UNCHANGED <<server, backlog, setup, killed>>
    BY DEF RecvRequest
  <1>3. PICK bs \in ReceivedHeader(toC[c]) :
          IF IsHeader(bs) /\ Answers(c, bs[1][1])
          THEN /\ Answer(c, bs[1][1])
               /\ done' = [done EXCEPT ![c] = <<>>]
               /\ toC' = [toC EXCEPT ![c] = Rest(@, bs)]
               /\ UNCHANGED <<delivered, toS>>
          ELSE ClientExits(c)
    BY DEF RecvRequest, ClientTakes
  <1>4. toC[c] # <<>>
    <2>1. \A w \in Nat : toC[c] = <<>> => ReceivedHeader(toC[c]) = {}
      BY NothingReceived
    <2>2. QED
      BY <1>3, <2>1
  <1>5. /\ Talking(c)
        /\ \/ spc \in {"header", "payload"} /\ Asked(c)
           \/ spc \in {"output", "ack"} /\ Unread(c)
    BY <1>1, <1>2, <1>4, Situation
  <1>6. c = Peer /\ Role[c] = (IF step = "c" THEN "d" ELSE step) /\ toS[c] = <<>>
    BY <1>1, <1>5, RolesServed DEF Session, Talking, InRounds, Asked, Unread
  <1>7. /\ (spc = "header" <=> step # "o")
        /\ \/ spc = "header" /\ step # "o" /\ toC[c] = Bytes(RequestMsg, 1, Hdr)
           \/ spc \in {"output", "ack"} /\ step = "o" /\ toC[c] = Bytes(OutMsg, 1, Sent)
    BY <1>1, <1>5 DEF Asked, Unread, Session, Exchange, Round
  <1>8. CASE step # "o"
    <2>1. RequestMsg \in Message
      BY <1>1, <1>8, RequestMessage
    <2>2. bs[1][1] = RequestMsg /\ (~fragment => IsHeader(bs)) /\ (IsHeader(bs) => Rest(toC[c], bs) = <<>>)
      BY <1>3, <1>7, <1>8, <2>1, WholeHeader
    <2>3. QED
      BY <1>2, <1>3, <1>5, <1>6, <1>7, <1>8, <2>2
  <1>9. CASE step = "o"
    <2>1. OutMsg \in Message /\ Sent \in Nat
      <3>1. need \in Nat /\ Hdr \in Nat
        BY <1>1, Assumptions DEF Types
      <3>2. QED
        BY <1>1, <3>1, OwnMessages DEF Sent
    <2>2. /\ bs[1][1] = OutMsg /\ (~fragment => IsHeader(bs))
          /\ IsHeader(bs) => Rest(toC[c], bs) = Bytes(OutMsg, Hdr + 1, Sent)
      <3>1. toC[c] = Bytes(OutMsg, 1, Sent)
        BY <1>7, <1>9
      <3>2. \A x \in ReceivedHeader(Bytes(OutMsg, 1, Sent)) :
              /\ x[1][1] = OutMsg /\ (~fragment => IsHeader(x))
              /\ IsHeader(x) => Rest(Bytes(OutMsg, 1, Sent), x) = Bytes(OutMsg, Hdr + 1, Sent)
        BY <2>1, HeaderReceived
      <3>3. QED
        BY <1>3, <3>1, <3>2
    <2>3. QED
      BY <1>2, <1>3, <1>5, <1>6, <1>7, <1>9, <2>2
  <1>10. QED
    BY <1>8, <1>9

\* The reply it prepares is the one the server waits for.
LEMMA RecvRequestKeepsSession ==
  ASSUME Inv, Up, NEW c \in Clients, RecvRequest(c)
  PROVE  /\ Lengths' /\ Session'
         /\ ~fragment => cpc'[c] # "exited"
  <1>1. Types /\ Lengths /\ Session /\ Moves(c)
    BY ClientStepMoves DEF Inv, ClientStep
  <1>2. /\ cpc[c] = "wait" /\ Talking(c) /\ toS[c] = <<>> /\ c = Peer /\ c \in Clients
        /\ Role[c] = (IF step = "c" THEN "d" ELSE step)
        /\ UNCHANGED <<server, backlog, setup, killed>>
        /\ \/ spc = "header" /\ step # "o" /\ toC[c] = Bytes(RequestMsg, 1, Hdr)
           \/ spc \in {"output", "ack"} /\ step = "o" /\ toC[c] = Bytes(OutMsg, 1, Sent)
    BY RecvRequestReads
  <1>3. PICK bs \in ReceivedHeader(toC[c]) :
              /\ bs[1][1] = (IF step = "o" THEN OutMsg ELSE RequestMsg)
              /\ ~fragment => IsHeader(bs)
              /\ IsHeader(bs) => Rest(toC[c], bs) = IF step = "o" THEN Bytes(OutMsg, Hdr + 1, Sent) ELSE <<>>
              /\ IF IsHeader(bs) /\ Answers(c, bs[1][1])
                 THEN /\ Answer(c, bs[1][1])
                      /\ done' = [done EXCEPT ![c] = <<>>]
                      /\ toC' = [toC EXCEPT ![c] = Rest(@, bs)]
                      /\ UNCHANGED <<delivered, toS>>
                 ELSE ClientExits(c)
    BY RecvRequestReads
  <1> DEFINE m == IF step = "o" THEN OutMsg ELSE RequestMsg
  <1>4. m \in Message /\ m.kind = (IF step = "o" THEN "or" ELSE RequestKind[step]) /\ (step # "o" => m.len = Requested)
    BY <1>1, OwnMessages, RequestMessage
  <1>5. /\ Peer' = Peer /\ Reply' = Reply /\ Read' = Read /\ OutMsg' = OutMsg /\ Sent' = Sent
        /\ spc' = spc /\ step' = step /\ need' = need /\ got' = got /\ fd' = fd /\ dataBuf' = dataBuf
        /\ taken' = taken /\ ~Identifying(c) /\ InRounds
    BY <1>2, ServerFrame DEF Identifying, Talking, InRounds, server
  <1>6. CASE IsHeader(bs) /\ Answers(c, m)
    <2>1. /\ Answer(c, m) /\ done'[c] = <<>> /\ toS'[c] = <<>> /\ delivered' = delivered
          /\ toC'[c] = IF step = "o" THEN Bytes(OutMsg, Hdr + 1, Sent) ELSE <<>>
      BY <1>1, <1>2, <1>3, <1>6 DEF Types
    <2> HIDE DEF m
    <2>2. \/ /\ m.kind = "cr" /\ StartReply(c, Msg("c", CmdLen, <<DataLen, 0>>), gen[c], DataLen)
          \/ /\ m.kind = "dr" /\ StartReply(c, Msg("d", size[c], <<Follows(gen[c]), 0>>), Follows(gen[c]), size[c])
          \/ /\ m.kind = "sr" /\ StartReply(c, Msg("s", m.len, <<Follows(gen[c]), 0>>), Follows(gen[c]), size[c])
          \/ /\ m.kind = "or"
             /\ msg' = [msg EXCEPT ![c] = m] /\ cpc' = [cpc EXCEPT ![c] = "recv"]
             /\ UNCHANGED <<gen, size>>
      BY <1>4, <1>6, <2>1, AnswerCases
    <2>3. ~Closed(c) /\ Follows(gen[c]) \in Nat /\ size[c] \in Int /\ gen[c] \in Nat
      BY <1>1, <1>2, FollowsType DEF Closed, Types
    <2>4. CASE step = "o"
      <3>1. /\ msg'[c] = OutMsg /\ cpc'[c] = "recv" /\ gen' = gen /\ size' = size
        BY <1>1, <1>4, <2>2, <2>4 DEF Types, m
      <3>2. OutMsg \in Message /\ Len(<<>>) = 0 /\ Hdr \in Nat /\ need \in Nat /\ OutLen \in Nat
        BY <1>1, OwnMessages, Assumptions DEF Types
      <3>3. Taking(c)'
        <4>1. Bytes(OutMsg, Hdr + 1, Hdr) = <<>>
          BY <3>2, BytesEmpty
        <4>2. Hdr + 0 = Hdr /\ Hdr + 0 + 1 = Hdr + 1
          BY <3>2
        <4>3. /\ Len(done'[c]) = 0 /\ done'[c] = Bytes(OutMsg, Hdr + 1, Hdr + Len(done'[c]))
              /\ Len(done'[c]) <= OutLen /\ Len(done'[c]) <= need
          BY <2>1, <3>2, <4>1, <4>2
        <4>4. Reading(c)'
          BY <1>5, <3>1, <4>3 DEF Reading
        <4>5. toC'[c] = Bytes(OutMsg, Hdr + Len(done'[c]) + 1, Sent)
          BY <2>1, <2>4, <3>2, <4>2, <4>3
        <4>6. QED
          BY <1>5, <2>1, <3>1, <4>3, <4>4, <4>5 DEF Taking
      <3>4. Exchange' /\ Handover'
        BY <1>1, <1>2, <1>5, <2>4, <3>3 DEF Session, Exchange, Handover
      <3>5. Members' /\ Queue' /\ Silence' /\ Identification' /\ Round' /\ Offers'
        <4>1. gen'[c] = gen[c] /\ size'[c] = size[c] /\ UNCHANGED backlog /\ Replied' = Replied
          BY <1>2, <1>5, <2>4, <3>1 DEF Replied
        <4>2. QED
          BY <1>1, <1>2, <1>5, <4>1, SessionKept
      <3>6. Lengths'
        <4>1. Len(toS'[c]) <= SockBuf /\ Len(toC'[c]) <= SockBuf
          <5>1. Len(toS'[c]) = 0 /\ Len(toC'[c]) <= Len(toC[c]) /\ Len(toC[c]) <= SockBuf /\ Len(toC[c]) \in Nat
            <6>1. toC[c] \in Seq(Byte) /\ toC'[c] = Rest(toC[c], bs)
              BY <1>1, <1>3, <1>6, <2>4 DEF Types, m
            <6>2. Len(Rest(toC[c], bs)) <= Len(toC[c])
              BY <1>3, <6>1, HeaderType
            <6>3. QED
              BY <1>1, <2>1, <3>2, <6>1, <6>2 DEF Lengths
          <5>2. toC'[c] \in Seq(Byte)
            BY <1>1, <1>2, ClientStepTypes DEF ClientStep, Types
          <5>3. QED
            BY <5>1, <5>2, Assumptions
        <4>2. Len(done'[c]) <= Total(msg'[c])
          BY <2>1, <3>1, <3>2, <1>1, OwnMessages DEF Total
        <4>3. QED
          BY <1>1, <4>1, <4>2, LengthsKept
      <3>7. QED
        BY <1>2, <3>1, <3>4, <3>5, <3>6 DEF Session
    <2>5. CASE step # "o"
      <3>1. spc = "header" /\ step \in {"c", "d", "s"} /\ ~Replied
        <4>1. toC[c] # <<>>
          <5>1. RequestMsg \in Message
            BY <1>1, <2>5, RequestMessage
          <5>2. QED
            BY <1>2, <2>5, <5>1, WholeHeader
        <4>2. QED
          BY <1>1, <1>2, <2>5, <4>1 DEF Types, Replied
      <3>2. /\ msg'[c] = Reply /\ cpc'[c] = "send"
            /\ gen'[c] = IF step = "c" THEN gen[c] ELSE Follows(gen[c])
            /\ size'[c] = IF step = "c" THEN DataLen ELSE size[c]
            /\ step \in {"d", "s"} => gen[c] = IF step = "d" THEN dataBuf ELSE taken[2]
            /\ step = "c" => gen[c] = dataBuf
            /\ step = "d" => size[c] = DataLen
        <4>1. CASE step = "c"
          <5>1. m.kind = "cr" /\ c = fd["d"]
            BY <1>2, <1>4, <4>1 DEF RequestKind, Peer
          <5>2. gen[c] = dataBuf
            BY <1>1, <1>5, <2>3, <3>1, <4>1, <5>1 DEF Session, Offers
          <5>3. QED
            BY <1>1, <2>2, <4>1, <5>1, <5>2 DEF Types, StartReply, Reply
        <4>2. CASE step = "d"
          <5>1. m.kind = "dr" /\ c = fd["d"]
            BY <1>2, <1>4, <4>2 DEF RequestKind, Peer
          <5>2. gen[c] = dataBuf /\ size[c] = DataLen
            BY <1>1, <1>5, <2>3, <3>1, <4>2, <5>1 DEF Session, Offers
          <5>3. QED
            BY <1>1, <2>2, <4>2, <5>1, <5>2 DEF Types, StartReply, Reply
        <4>3. CASE step = "s"
          <5>1. m.kind = "sr" /\ c = fd["s"]
            BY <1>2, <1>4, <4>3 DEF RequestKind, Peer
          <5>2. gen[c] = taken[2]
            BY <1>1, <1>5, <2>3, <3>1, <4>3, <5>1 DEF Session, Offers
          <5>3. m.len = SeedLen
            BY <1>4, <4>3 DEF Requested
          <5>4. QED
            BY <1>1, <2>2, <4>3, <5>1, <5>2, <5>3 DEF Types, StartReply, Reply
        <4>4. QED
          BY <3>1, <4>1, <4>2, <4>3
      <3>3. Reply \in Message /\ Total(Reply) \in Nat /\ Total(Reply) > 0 /\ Hdr \in Nat
        <4>1. Reply \in Message /\ Reply.len \in Nat
          BY <1>1, <2>5, ReplyMessage
        <4>2. QED
          BY <4>1, Assumptions DEF Total
      <3>4. Exchange' /\ Handover'
        <4>1. Read' = 0 /\ toC'[c] = <<>> /\ toS'[c] = Bytes(Reply, 1, 0) /\ Len(done'[c]) = 0
          BY <1>5, <2>1, <2>5, <3>1, <3>3, WholeHeader DEF Read
        <4>2. 0 \in 0 .. Total(Reply) /\ 0 < Total(Reply) /\ 0 + 1 = 1
          BY <3>3
        <4>3. Answering(c)'
          BY <1>5, <3>2, <4>1, <4>2 DEF Answering, Total
        <4>4. QED
          BY <1>2, <1>5, <2>5, <3>1, <4>3 DEF Exchange, Handover
      <3>5. Offers'
        <4>1. Replied' /\ Follows(dataBuf)' = Follows(dataBuf) /\ Follows(taken[2])' = Follows(taken[2])
          BY <1>2, <1>5, <2>1, <2>5, <3>1 DEF Replied, Follows
        <4>2. /\ fd["d"] \in Clients /\ fd["s"] \in Clients /\ fd["d"] # fd["s"]
              /\ (c = fd["d"] <=> step \in {"c", "d"}) /\ (c = fd["s"] <=> step = "s")
          <5>1. fd["d"] \in Clients /\ fd["s"] \in Clients /\ Role[fd["d"]] = "d" /\ Role[fd["s"]] = "s"
            BY <1>1, <1>5, RolesServed DEF Session, Roles
          <5>2. QED
            BY <1>2, <3>1, <5>1 DEF Peer
        <4>3. ASSUME ~Closed(fd["d"])'
              PROVE  /\ step \in {"c", "d"} => size'[fd["d"]] = DataLen
                     /\ gen'[fd["d"]] = IF step = "d" THEN Follows(dataBuf) ELSE dataBuf
          <5>1. CASE c = fd["d"]
            BY <3>2, <4>2, <5>1
          <5>2. CASE c # fd["d"]
            <6>1. /\ ~Closed(fd["d"]) /\ gen'[fd["d"]] = gen[fd["d"]] /\ step \notin {"c", "d"}
              BY <1>1, <1>5, <4>2, <4>3, <5>2 DEF Moves, Closed
            <6>2. gen[fd["d"]] = dataBuf
              BY <1>1, <1>5, <6>1 DEF Session, Offers
            <6>3. QED
              BY <6>1, <6>2
          <5>3. QED
            BY <5>1, <5>2
        <4>4. ASSUME ~Closed(fd["s"])'
              PROVE  gen'[fd["s"]] = IF step = "s" THEN Follows(taken[2]) ELSE taken[2]
          <5>1. CASE c = fd["s"]
            BY <3>2, <4>2, <5>1
          <5>2. CASE c # fd["s"]
            <6>1. /\ ~Closed(fd["s"]) /\ gen'[fd["s"]] = gen[fd["s"]] /\ step # "s"
              BY <1>1, <1>5, <4>2, <4>4, <5>2 DEF Moves, Closed
            <6>2. gen[fd["s"]] = taken[2]
              BY <1>1, <1>5, <6>1 DEF Session, Offers
            <6>3. QED
              BY <6>1, <6>2
          <5>3. QED
            BY <5>1, <5>2
        <4>5. QED
          BY <1>5, <4>1, <4>3, <4>4 DEF Offers
      <3>6. Members' /\ Queue' /\ Silence' /\ Identification' /\ Round'
        <4>1. UNCHANGED backlog /\ (spc \in {"accept", "ident"} => gen'[c] = gen[c])
          BY <1>2, <3>1
        <4>2. QED
          BY <1>1, <1>2, <1>5, <4>1, SessionKept
      <3>7. Lengths'
        <4>1. Len(toS'[c]) = 0 /\ Len(toC'[c]) = 0 /\ Len(done'[c]) = 0
          BY <2>1, <2>5
        <4>2. QED
          BY <1>1, <3>2, <3>3, <4>1, LengthsKept, Assumptions
      <3>8. QED
        BY <3>2, <3>4, <3>5, <3>6, <3>7, <1>2 DEF Session
    <2>6. QED
      BY <2>4, <2>5
  <1>7. CASE ~(IsHeader(bs) /\ Answers(c, m))
    <2>1. Ends(c)
      BY <1>1, <1>3, <1>7, ClientEnd
    <2>2. Lengths' /\ Session'
      BY <1>1, <1>2, <2>1, EndKeepsSession
    <2>3. Answers(c, m)
      <3>1. m.kind \in Serves[Role[c]]
        <4>1. step \in {"c", "d", "s", "o"}
          BY <1>1 DEF Types
        <4>2. QED
          BY <1>2, <1>4, <4>1 DEF Serves, RequestKind
      <3>2. m.kind = "dr" => size[c] > 0
        <4>1. ASSUME m.kind = "dr" PROVE step = "d"
          <5>1. step \in {"c", "d", "s", "o"}
            BY <1>1 DEF Types
          <5>2. QED
            BY <1>4, <4>1, <5>1 DEF RequestKind
        <4>2. ASSUME step = "d" PROVE size[c] = DataLen
          <5>1. c = fd["d"] /\ ~Closed(c)
            BY <1>2, <4>2 DEF Peer, Closed
          <5>2. QED
            BY <1>1, <1>5, <4>2, <5>1 DEF Session, Offers
        <4>3. DataLen \in Nat /\ DataLen >= 1
          BY Assumptions
        <4>4. QED
          BY <4>1, <4>2, <4>3
      <3>3. QED
        BY <3>1, <3>2 DEF Answers
    <2>4. QED
      BY <1>3, <1>7, <2>2, <2>3
  <1>8. QED
    BY <1>6, <1>7

\* One turn of the output client's loop, in the bytes of the output.
LEMMA OutputTurn ==
  ASSUME Types, NEW c \in Clients, RecvOutput(c), Reading(c), NEW e \in Nat,
         Len(done[c]) <= e, toC[c] = Bytes(OutMsg, Hdr + Len(done[c]) + 1, Hdr + e)
  PROVE  \E k \in Nat :
           /\ k > Len(done[c]) /\ k <= e /\ k <= OutLen
           /\ Len(done'[c]) = k /\ done'[c] = Bytes(OutMsg, Hdr + 1, Hdr + k)
           /\ toC'[c] = Bytes(OutMsg, Hdr + k + 1, Hdr + e)
           /\ IF k < OutLen THEN cpc' = cpc /\ delivered' = delivered
              ELSE cpc'[c] = "ack" /\ delivered' = taken
           /\ cpc[c] = "recv" /\ Len(toC'[c]) <= Len(toC[c])
           /\ UNCHANGED <<server, msg, size, gen, backlog, toS, setup, killed>>
  <1> DEFINE l == Len(done[c])
  <1>1. /\ done[c] \in Seq(Byte) /\ l \in Nat /\ toC[c] \in Seq(Byte) /\ l <= OutLen
        /\ done \in [Clients -> Seq(Byte)] /\ toC \in [Clients -> Seq(Byte)]
        /\ cpc \in [Clients -> {"new", "ident", "wait", "send", "recv", "ack", "exited"}]
    BY SMTT(30) DEF Types, Reading
  <1>2. PICK bs \in Received(toC[c], Chunk(OutLen - l)) :
           /\ cpc[c] = "recv" /\ bs \in Seq(Byte) /\ Len(bs) >= 1 /\ l + Len(bs) <= OutLen
           /\ Len(done[c] \o bs) = l + Len(bs) /\ done[c] \o bs \in Seq(Byte)
           /\ done' = [done EXCEPT ![c] = @ \o bs] /\ toC' = [toC EXCEPT ![c] = Rest(@, bs)]
           /\ IF Len(done[c] \o bs) < OutLen
              THEN UNCHANGED <<cpc, delivered>>
              ELSE cpc' = [cpc EXCEPT ![c] = "ack"] /\ delivered' = Content(done[c] \o bs)
           /\ UNCHANGED <<server, msg, size, gen, backlog, toS, setup, killed>>
    BY RecvOutputTurn
  <1>3. OutMsg \in Message /\ OutMsg.tag = taken
    BY OwnMessages
  <1>4. OutLen \in Nat /\ OutLen >= 1 /\ Hdr \in Nat
    BY Assumptions
  <1>5. Chunk(OutLen - l) \in Nat
    <2>1. OutLen - l \in Nat
      BY <1>1, <1>4
    <2>2. QED
      BY <2>1, ChunkBound
  <1>6. done[c] = Bytes(OutMsg, Hdr + 1, Hdr + l) /\ toC[c] = Bytes(OutMsg, Hdr + l + 1, Hdr + e)
    BY DEF Reading
  <1> HIDE DEF l
  <1>7. Hdr + l \in Nat /\ Hdr + e \in Nat /\ Hdr + l <= Hdr + e /\ Hdr <= Hdr + l
    BY <1>1, <1>4 DEF l
  <1>8. PICK j \in Nat : /\ 1 <= j /\ (Hdr + l) + j <= Hdr + e
                         /\ bs = Bytes(OutMsg, Hdr + l + 1, (Hdr + l) + j) /\ Len(bs) = j
                         /\ Rest(toC[c], bs) = Bytes(OutMsg, (Hdr + l) + j + 1, Hdr + e)
    <2> DEFINE p == Hdr + l
               q == Hdr + e
    <2>1. p \in Nat /\ q \in Nat /\ p <= q /\ toC[c] = Bytes(OutMsg, p + 1, q)
      BY <1>6, <1>7
    <2> HIDE DEF p, q
    <2>2. \E j \in Nat : /\ 1 <= j /\ p + j <= q
                         /\ bs = Bytes(OutMsg, p + 1, p + j) /\ Len(bs) = j
                         /\ Rest(toC[c], bs) = Bytes(OutMsg, p + j + 1, q)
      <3>1. \A w \in Nat : \A x \in Received(Bytes(OutMsg, p + 1, q), w) :
              \E j \in Nat : /\ 1 <= j /\ j <= w /\ p + j <= q
                             /\ x = Bytes(OutMsg, p + 1, p + j) /\ Len(x) = j
                             /\ Rest(Bytes(OutMsg, p + 1, q), x) = Bytes(OutMsg, p + j + 1, q)
        BY <1>3, <2>1, BytesReceived
      <3>2. bs \in Received(Bytes(OutMsg, p + 1, q), Chunk(OutLen - l))
        BY <1>2, <2>1
      <3>3. QED
        BY <1>5, <2>1, <3>1, <3>2
    <2>3. QED
      BY <2>2 DEF p, q
  <1> DEFINE k == l + j
  <1>9. k \in Nat /\ k > l /\ k <= e /\ k <= OutLen /\ (Hdr + l) + j = Hdr + k /\ Hdr + l <= Hdr + k /\ Hdr + k \in Nat
    BY <1>1, <1>2, <1>4, <1>8
  <1>10. done[c] \o bs = Bytes(OutMsg, Hdr + 1, Hdr + k)
    <2> HIDE DEF k
    <2>1. \A p \in Nat, q \in Nat, r \in Nat : p <= q /\ q <= r =>
            Bytes(OutMsg, p + 1, q) \o Bytes(OutMsg, q + 1, r) = Bytes(OutMsg, p + 1, r)
      BY <1>3, BytesConcat, ZenonT(60)
    <2>2. bs = Bytes(OutMsg, Hdr + l + 1, Hdr + k)
      BY <1>8, <1>9
    <2>3. Bytes(OutMsg, Hdr + 1, Hdr + l) \o Bytes(OutMsg, Hdr + l + 1, Hdr + k) = Bytes(OutMsg, Hdr + 1, Hdr + k)
      BY <1>4, <1>7, <1>9, <2>1
    <2>4. QED
      BY <1>6, <2>2, <2>3
  <1>11. done'[c] = done[c] \o bs /\ Len(done'[c]) = k /\ toC'[c] = Rest(toC[c], bs)
    BY <1>1, <1>2, <1>8
  <1>12. IF k < OutLen THEN cpc' = cpc /\ delivered' = delivered ELSE cpc'[c] = "ack" /\ delivered' = taken
    <2>1. CASE k < OutLen
      BY <1>2, <1>8, <2>1
    <2>2. CASE ~(k < OutLen)
      <3>1. k = OutLen
        BY <1>4, <1>9, <2>2
      <3>2. Content(done[c] \o bs) = OutMsg.tag
        BY <1>3, <1>4, <1>10, <3>1, ContentIsTag
      <3>3. QED
        BY <1>1, <1>2, <1>3, <1>8, <2>2, <3>2
    <2>3. QED
      BY <2>1, <2>2
  <1>13. Len(toC'[c]) <= Len(toC[c])
    <2>1. Len(Rest(toC[c], bs)) = Len(toC[c]) - Len(bs) /\ Len(bs) \in Nat /\ Len(toC[c]) \in Nat
      BY <1>1, <1>2, <1>5, ReceivedType
    <2>2. QED
      BY <1>11, <2>1
  <1>14. toC'[c] = Bytes(OutMsg, Hdr + k + 1, Hdr + e)
    BY <1>8, <1>9, <1>11
  <1>15. QED
    BY <1>2, <1>9, <1>10, <1>11, <1>12, <1>13, <1>14 DEF l

\* The output arrives in order.
LEMMA RecvOutputKeepsSession ==
  ASSUME Inv, Up, NEW c \in Clients, RecvOutput(c)
  PROVE  Lengths' /\ Session'
  <1>1. Types /\ Lengths /\ Session /\ Moves(c)
    BY ClientStepMoves DEF Inv, ClientStep
  <1>2. cpc[c] = "recv"
    BY DEF RecvOutput
  <1>3. Talking(c) /\ spc \in {"output", "ack"} /\ Taking(c)
    BY <1>1, <1>2, Situation
  <1>4. /\ Reading(c) /\ need \in Nat /\ Len(done[c]) <= need /\ toC[c] = Bytes(OutMsg, Hdr + Len(done[c]) + 1, Hdr + need)
        /\ toS[c] = <<>> /\ msg[c] = OutMsg
    BY <1>1, <1>3 DEF Taking, Types, Sent, Reading
  <1>5. PICK k \in Nat :
           /\ k > Len(done[c]) /\ k <= need /\ k <= OutLen
           /\ Len(done'[c]) = k /\ done'[c] = Bytes(OutMsg, Hdr + 1, Hdr + k)
           /\ toC'[c] = Bytes(OutMsg, Hdr + k + 1, Hdr + need)
           /\ IF k < OutLen THEN cpc' = cpc /\ delivered' = delivered
              ELSE cpc'[c] = "ack" /\ delivered' = taken
           /\ cpc[c] = "recv" /\ Len(toC'[c]) <= Len(toC[c])
           /\ UNCHANGED <<server, msg, size, gen, backlog, toS, setup, killed>>
    BY <1>1, <1>4, OutputTurn
  <1>6. /\ Peer' = Peer /\ OutMsg' = OutMsg /\ Sent' = Sent /\ c = Peer /\ spc' = spc /\ step' = step
        /\ need' = need /\ taken' = taken
    BY <1>3, <1>5, ServerFrame DEF Talking, server
  <1>7. msg'[c] = OutMsg /\ toS'[c] = <<>> /\ gen'[c] = gen[c] /\ size'[c] = size[c]
    BY <1>4, <1>5
  <1>8. Exchange' /\ Handover'
    <2>1. OutMsg \in Message /\ OutLen \in Nat /\ Hdr \in Nat
      BY <1>1, OwnMessages, Assumptions
    <2>2. need <= OutLen /\ (spc = "ack" <=> need = OutLen)
      BY <1>1, <1>3 DEF Session, Handover
    <2>3. CASE k < OutLen
      <3>1. Taking(c)'
        BY <1>2, <1>5, <1>6, <1>7, <2>3 DEF Taking, Reading, Sent
      <3>2. QED
        BY <1>1, <1>3, <1>6, <2>2, <3>1 DEF Session, Exchange, Handover
    <2>4. CASE ~(k < OutLen)
      <3>1. k = OutLen /\ need = OutLen /\ spc = "ack"
        BY <1>1, <1>3, <1>5, <2>1, <2>2, <2>4, SMTT(30) DEF Types
      <3>2. toC'[c] = <<>>
        <4>1. Hdr + OutLen \in Nat
          BY <2>1
        <4>2. Bytes(OutMsg, Hdr + OutLen + 1, Hdr + OutLen) = <<>>
          BY <2>1, <4>1, BytesEmpty
        <4>3. QED
          BY <1>5, <3>1, <4>2
      <3>3. HasAll(c)'
        BY <1>5, <1>6, <1>7, <2>4, <3>1, <3>2 DEF HasAll
      <3>4. QED
        BY <1>1, <1>3, <1>6, <2>2, <3>3 DEF Session, Exchange, Handover
    <2>5. QED
      BY <2>3, <2>4
  <1>9. Members' /\ Queue' /\ Silence' /\ Identification' /\ Round' /\ Offers'
    <2>1. UNCHANGED backlog /\ Replied' = Replied /\ ~Identifying(c)
      BY <1>3, <1>5, <1>6 DEF Replied, Identifying
    <2>2. QED
      BY <1>1, <1>3, <1>7, <2>1, SessionKept
  <1>10. Lengths'
    <2>1. Len(toC'[c]) <= SockBuf
      <3>1. Len(toC[c]) <= SockBuf /\ Len(toC'[c]) <= Len(toC[c]) /\ Len(toC[c]) \in Nat
        BY <1>1, <1>5 DEF Lengths, Types
      <3>2. toC'[c] \in Seq(Byte)
        BY <1>1, <1>4, ClientStepTypes DEF ClientStep, Types
      <3>3. QED
        BY <3>1, <3>2, Assumptions
    <2>2. Len(done'[c]) <= Total(msg'[c]) /\ Len(toS'[c]) <= SockBuf
      <3>1. Total(OutMsg) = Hdr + OutLen /\ OutLen \in Nat /\ Hdr \in Nat
        BY <1>1, OwnMessages, Assumptions DEF Total
      <3>2. Total(msg'[c]) = Total(OutMsg)
        BY <1>7
      <3>3. QED
        BY <1>5, <1>7, <3>1, <3>2, Assumptions
    <2>3. QED
      BY <1>1, <2>1, <2>2, LengthsKept
  <1>11. QED
    BY <1>8, <1>9, <1>10 DEF Session

\* Every step of a client of a running server keeps the invariant.
LEMMA ClientKeepsInvUp ==
  ASSUME Inv, Up, NEW c \in Clients, Connect(c) \/ ClientStep(c) \/ KillClient(c)
  PROVE  Inv'
  <1>1. Types /\ Lengths /\ Session /\ Moves(c)
    BY ClientStepMoves DEF Inv
  <1>2. Types'
    <2>1. cpc[c] = "recv" => Reading(c)
      BY <1>1, Situation DEF Taking
    <2>2. QED
      BY <1>1, <2>1, ClientStepTypes
  <1>3. Lengths' /\ Session'
    <2>1. CASE KillClient(c)
      <3>1. Ends(c) /\ UNCHANGED backlog
        BY <1>1, <2>1, ClientEnd DEF KillClient
      <3>2. QED
        BY <1>1, <3>1, EndKeepsSession
    <2>2. ~ClientSeesEnd(c)
      BY DEF ClientSeesEnd
    <2>3. QED
      BY <2>1, <2>2, ConnectKeepsSession, TellRoleKeepsSession, RecvRequestKeepsSession,
         SendReplyKeepsSession, RecvOutputKeepsSession, SendAckKeepsSession DEF ClientStep
  <1>4. Up'
    BY <1>1, ServerFrame DEF Moves
  <1>5. QED
    BY <1>2, <1>3, <1>4 DEF Inv

-----------------------------------------------------------------------------
(* Steps of a client after the server has ended *)

\* Once the server has ended only the types are left to keep.
LEMMA ClientKeepsInvDown ==
  ASSUME Inv, ~Up, NEW c \in Clients, Connect(c) \/ ClientStep(c) \/ KillClient(c)
  PROVE  Inv'
  <1>1. Types /\ Lengths /\ Aftermath /\ Moves(c)
    BY ClientStepMoves DEF Inv
  <1>2. toS[c] = <<>> /\ Left(c) /\ (cpc[c] = "recv" => Reading(c))
    BY <1>1 DEF Aftermath
  <1>3. Types'
    BY <1>1, <1>2, ClientStepTypes
  <1>4. Up' = Up /\ OutMsg' = OutMsg
    BY <1>1, ServerFrame DEF Moves
  <1> DEFINE Goal == /\ toS'[c] = <<>> /\ Left(c)' /\ (cpc'[c] = "recv" => Reading(c)')
                     /\ Len(done'[c]) <= Total(msg'[c]) /\ Len(toC'[c]) <= SockBuf
  <1>5. Len(<<>>) = 0 /\ Len(toC[c]) <= SockBuf /\ Len(done[c]) <= Total(msg[c]) /\ SockBuf \in Nat
    BY <1>1, Assumptions DEF Lengths
  <1>6. Total(msg'[c]) \in Nat
    <2>1. msg'[c] \in Message
      BY <1>3 DEF Types
    <2>2. QED
      BY <2>1, Assumptions DEF Total, Message
  <1>7. toC[c] \in Seq(Byte) /\ toC'[c] \in Seq(Byte)
    BY <1>1, <1>3 DEF Types
  <1>8. ASSUME Ends(c) PROVE Goal
    BY <1>2, <1>5, <1>8 DEF Ends, Left
  <1>9. ASSUME Connect(c) PROVE Goal
    <2>1. /\ cpc[c] = "new" /\ cpc'[c] = "exited"
          /\ toC' = toC /\ toS' = toS /\ msg' = msg /\ done' = done
      BY <1>1, <1>9 DEF Connect, Types
    <2>2. QED
      BY <1>2, <1>5, <2>1 DEF Left
  <1>10. ASSUME cpc[c] \in {"ident", "wait"}, NEW bs \in ReceivedHeader(toC[c])
         PROVE  \/ toC[c][1][1] \in Message /\ bs[1][1] = toC[c][1][1] /\ bs[1][1].kind # "or"
                   /\ (IsHeader(bs) => Rest(toC[c], bs) = <<>>)
                \/ /\ cpc[c] = "wait" /\ bs[1][1] = OutMsg
                   /\ IsHeader(bs) => \E q \in Hdr .. Hdr + OutLen : Rest(toC[c], bs) = Bytes(OutMsg, Hdr + 1, q)
    <2>1. toC[c] # <<>>
      <3>1. \A w \in Nat : toC[c] = <<>> => ReceivedHeader(toC[c]) = {}
        BY NothingReceived
      <3>2. QED
        BY <1>10, <3>1
    <2>2. CASE IsHeader(toC[c]) /\ toC[c][1][1].kind # "or"
      <3>1. toC[c][1][1] \in Message /\ toC[c] = Bytes(toC[c][1][1], 1, Hdr)
        <4>1. toC[c][1] \in Byte
          BY <1>7, <2>1
        <4>2. QED
          BY <2>2, <4>1 DEF Byte, IsHeader
      <3>2. bs[1][1] = toC[c][1][1] /\ (IsHeader(bs) => Rest(toC[c], bs) = <<>>)
        <4>1. \A m \in Message : toC[c] = Bytes(m, 1, Hdr) =>
                bs[1][1] = m /\ (IsHeader(bs) => Rest(toC[c], bs) = <<>>)
          BY <1>10, WholeHeader
        <4>2. QED
          BY <3>1, <4>1
      <3>3. QED
        BY <2>2, <3>1, <3>2
    <2>3. CASE cpc[c] = "wait" /\ \E q \in Hdr .. Hdr + OutLen : toC[c] = Bytes(OutMsg, 1, q)
      <3>1. PICK q \in Hdr .. Hdr + OutLen : toC[c] = Bytes(OutMsg, 1, q)
        BY <2>3
      <3>2. OutMsg \in Message /\ q \in Nat
        <4>1. Hdr \in Nat /\ OutLen \in Nat
          BY Assumptions
        <4>2. q \in Nat
          BY <4>1
        <4>3. QED
          BY <1>1, <4>2, OwnMessages
      <3>3. \A x \in ReceivedHeader(Bytes(OutMsg, 1, q)) :
              x[1][1] = OutMsg /\ (IsHeader(x) => Rest(Bytes(OutMsg, 1, q), x) = Bytes(OutMsg, Hdr + 1, q))
        BY <3>2, HeaderReceived
      <3>4. bs[1][1] = OutMsg /\ (IsHeader(bs) => Rest(toC[c], bs) = Bytes(OutMsg, Hdr + 1, q))
        BY <1>10, <3>1, <3>3
      <3>5. QED
        BY <2>3, <3>4
    <2>4. QED
      BY <1>2, <1>10, <2>1, <2>2, <2>3 DEF Left
  <1>11. ASSUME TellRole(c) PROVE Goal
    <2>1. PICK bs \in ReceivedHeader(toC[c]) :
             IF IsHeader(bs)
             THEN /\ ClientTakes(c, bs)
                  /\ ClientSends(c, Bytes(RoleMsg(c), 1, Hdr))
                  /\ cpc' = [cpc EXCEPT ![c] = "wait"]
                  /\ UNCHANGED <<msg, done, size, gen, delivered>>
             ELSE ClientExits(c)
      BY <1>11 DEF TellRole, RoleMsg
    <2>2. cpc[c] = "ident"
      BY <1>11 DEF TellRole
    <2>3. CASE IsHeader(bs)
      <3>1. Rest(toC[c], bs) = <<>>
        BY <1>10, <2>2, <2>3
      <3>2. toC'[c] = <<>> /\ cpc'[c] = "wait" /\ toS' = toS /\ msg' = msg /\ done' = done
        BY <1>1, <2>1, <2>3, <3>1 DEF Types, ClientTakes, ClientSends
      <3>3. QED
        BY <1>2, <1>5, <3>2 DEF Left
    <2>4. CASE ~IsHeader(bs)
      BY <1>1, <1>8, <2>1, <2>4, ClientEnd
    <2>5. QED
      BY <2>3, <2>4
  <1>12. ASSUME RecvRequest(c) PROVE Goal
    <2>1. PICK bs \in ReceivedHeader(toC[c]) :
             IF IsHeader(bs) /\ Answers(c, bs[1][1])
             THEN /\ Answer(c, bs[1][1])
                  /\ done' = [done EXCEPT ![c] = <<>>]
                  /\ ClientTakes(c, bs)
                  /\ UNCHANGED <<delivered, toS>>
             ELSE ClientExits(c)
      BY <1>12 DEF RecvRequest
    <2>2. cpc[c] = "wait"
      BY <1>12 DEF RecvRequest
    <2>3. CASE IsHeader(bs) /\ Answers(c, bs[1][1])
      <3> DEFINE m == bs[1][1]
      <3>1. done'[c] = <<>> /\ toC'[c] = Rest(toC[c], bs) /\ toS'[c] = <<>>
        BY <1>1, <1>2, <2>1, <2>3 DEF Types, ClientTakes
      <3>2. m \in Message /\ Answers(c, m) /\ Answer(c, m)
        BY <1>7, <2>1, <2>3, HeaderType
      <3>3. CASE m.kind # "or"
        <4>1. Rest(toC[c], bs) = <<>>
          <5>1. OutMsg.kind = "or"
            BY <1>1, OwnMessages
          <5>2. QED
            BY <1>10, <2>2, <2>3, <3>3, <5>1
        <4>2. \E x, g, s : StartReply(c, x, g, s)
          BY <3>2, <3>3, AnswerCases
        <4>3. cpc'[c] = "send"
          BY <1>1, <4>2 DEF StartReply, Types
        <4>4. QED
          BY <1>5, <1>6, <3>1, <4>1, <4>3 DEF Left
      <3>4. CASE m.kind = "or"
        <4>1. PICK q \in Hdr .. Hdr + OutLen : m = OutMsg /\ Rest(toC[c], bs) = Bytes(OutMsg, Hdr + 1, q)
          BY <1>10, <2>2, <2>3, <3>4
        <4>2. msg' = [msg EXCEPT ![c] = m] /\ cpc' = [cpc EXCEPT ![c] = "recv"]
          <5> HIDE DEF m
          <5>1. QED
            BY <3>2, <3>4, AnswerCases
        <4>3. msg'[c] = OutMsg /\ cpc'[c] = "recv"
          BY <1>1, <4>1, <4>2 DEF Types
        <4>4. OutMsg \in Message /\ Hdr \in Nat /\ OutLen \in Nat
          BY <1>1, OwnMessages, Assumptions
        <4>5. Reading(c)'
          <5>1. Bytes(OutMsg, Hdr + 1, Hdr) = <<>>
            BY <4>4, BytesEmpty
          <5>2. Len(done'[c]) = 0 /\ Hdr + Len(done'[c]) = Hdr
            BY <1>5, <3>1, <4>4
          <5>3. QED
            BY <1>4, <3>1, <4>3, <4>4, <5>1, <5>2 DEF Reading
        <4>6. Left(c)'
          <5>1. Len(done'[c]) = 0 /\ Hdr + Len(done'[c]) = Hdr /\ Hdr + Len(done'[c]) + 1 = Hdr + 1
            BY <1>5, <3>1, <4>4
          <5>2. toC'[c] = Bytes(OutMsg', Hdr + Len(done'[c]) + 1, q) /\ q \in Hdr + Len(done'[c]) .. Hdr + OutLen
            BY <1>4, <3>1, <4>1, <5>1
          <5>3. QED
            BY <4>3, <5>2 DEF Left
        <4>7. Len(toC'[c]) <= SockBuf
          <5>1. Len(Rest(toC[c], bs)) <= Len(toC[c])
            BY <1>7, HeaderType
          <5>2. QED
            BY <1>5, <1>7, <3>1, <5>1
        <4>8. QED
          BY <1>5, <1>6, <3>1, <4>5, <4>6, <4>7
      <3>5. QED
        BY <3>3, <3>4
    <2>4. CASE ~(IsHeader(bs) /\ Answers(c, bs[1][1]))
      BY <1>1, <1>8, <2>1, <2>4, ClientEnd
    <2>5. QED
      BY <2>3, <2>4
  <1>13. ASSUME SendReply(c) PROVE Goal
    <2>1. PICK k \in Nat :
           LET bs == Bytes(msg[c], Len(done[c]) + 1, Len(done[c]) + k) IN
           /\ cpc[c] = "send" /\ k >= 1 /\ Len(done[c]) + k <= Total(msg[c]) /\ bs \in Seq(Byte) /\ Len(bs) = k
           /\ toS' = IF Up THEN [toS EXCEPT ![c] = @ \o bs] ELSE toS
           /\ done' = [done EXCEPT ![c] = @ \o bs]
           /\ cpc' = [cpc EXCEPT ![c] = IF Len(done[c]) + k < Total(msg[c]) THEN "send" ELSE "wait"]
           /\ UNCHANGED <<server, msg, size, gen, delivered, backlog, toC, setup, killed>>
      BY <1>1, <1>13, SendReplyTurn
    <2> DEFINE bs == Bytes(msg[c], Len(done[c]) + 1, Len(done[c]) + k)
    <2>2. toC[c] = <<>>
      BY <1>2, <2>1 DEF Left
    <2>3. cpc'[c] \in {"send", "wait"} /\ toS' = toS /\ toC' = toC /\ msg' = msg
      BY <1>1, <2>1 DEF Types
    <2> HIDE DEF bs
    <2>4. Len(done'[c]) = Len(done[c]) + k
      <3>1. bs \in Seq(Byte) /\ Len(bs) = k /\ done[c] \in Seq(Byte) /\ done'[c] = done[c] \o bs
        BY <1>1, <2>1 DEF Types, bs
      <3>2. QED
        BY <3>1, BytesAppended
    <2>5. QED
      BY <1>2, <1>5, <2>1, <2>2, <2>3, <2>4 DEF Left
  <1>14. ASSUME RecvOutput(c) PROVE Goal
    <2>1. cpc[c] = "recv" /\ Reading(c)
      BY <1>2, <1>14 DEF RecvOutput
    <2>2. OutMsg \in Message /\ Hdr \in Nat /\ OutLen \in Nat /\ Total(OutMsg) = Hdr + OutLen /\ Len(done[c]) \in Nat
      <3>1. OutMsg \in Message /\ OutMsg.len = OutLen
        BY <1>1, OwnMessages
      <3>2. Len(done[c]) \in Nat
        BY <1>1 DEF Types
      <3>3. QED
        BY <3>1, <3>2, Assumptions DEF Total
    <2>3. toC[c] # <<>>
      <3>1. \E bs : bs \in Received(toC[c], Chunk(OutLen - Len(done[c])))
        BY <1>1, <1>14, <2>1, RecvOutputTurn
      <3>2. Chunk(OutLen - Len(done[c])) \in Nat
        <4>1. OutLen - Len(done[c]) \in Nat
          BY <2>1, <2>2 DEF Reading
        <4>2. QED
          BY <4>1, ChunkBound
      <3>3. QED
        BY <3>1, <3>2, NothingReceived
    <2>4. PICK q \in Hdr + Len(done[c]) .. Hdr + OutLen : toC[c] = Bytes(OutMsg, Hdr + Len(done[c]) + 1, q)
      BY <1>2, <2>1, <2>3 DEF Left
    <2>5. PICK e \in Nat : q = Hdr + e /\ Len(done[c]) <= e /\ e <= OutLen
      <3>1. q - Hdr \in Nat /\ q = Hdr + (q - Hdr) /\ Len(done[c]) <= q - Hdr /\ q - Hdr <= OutLen
        BY <2>2
      <3>2. QED
        BY <3>1
    <2>6. PICK k \in Nat :
           /\ k > Len(done[c]) /\ k <= e /\ k <= OutLen
           /\ Len(done'[c]) = k /\ done'[c] = Bytes(OutMsg, Hdr + 1, Hdr + k)
           /\ toC'[c] = Bytes(OutMsg, Hdr + k + 1, Hdr + e)
           /\ IF k < OutLen THEN cpc' = cpc /\ delivered' = delivered
              ELSE cpc'[c] = "ack" /\ delivered' = taken
           /\ cpc[c] = "recv" /\ Len(toC'[c]) <= Len(toC[c])
           /\ UNCHANGED <<server, msg, size, gen, backlog, toS, setup, killed>>
      BY <1>1, <1>14, <2>1, <2>4, <2>5, OutputTurn
    <2>7. msg'[c] = OutMsg /\ toS'[c] = <<>> /\ Len(toC'[c]) <= SockBuf /\ Len(done'[c]) <= Total(msg'[c])
      <3>1. msg'[c] = OutMsg /\ toS'[c] = <<>>
        BY <1>2, <2>1, <2>6 DEF Reading
      <3>2. Len(toC'[c]) <= SockBuf
        BY <1>5, <1>7, <2>6
      <3>3. QED
        BY <2>2, <2>6, <3>1, <3>2
    <2>8. Reading(c)'
      BY <1>4, <2>6, <2>7 DEF Reading
    <2>9. Left(c)'
      <3>1. CASE k < OutLen
        <4>1. cpc'[c] = "recv" /\ Hdr + e \in Hdr + Len(done'[c]) .. Hdr + OutLen
          BY <2>2, <2>5, <2>6, <3>1
        <4>2. QED
          BY <1>4, <2>6, <4>1 DEF Left
      <3>2. CASE ~(k < OutLen)
        <4>1. k = OutLen /\ e = OutLen /\ Hdr + OutLen \in Nat
          BY <2>2, <2>5, <2>6, <3>2
        <4>2. Bytes(OutMsg, Hdr + OutLen + 1, Hdr + OutLen) = <<>>
          BY <2>2, <4>1, BytesEmpty
        <4>3. QED
          BY <2>6, <4>1, <4>2 DEF Left
      <3>3. QED
        BY <3>1, <3>2
    <2>10. QED
      BY <2>7, <2>8, <2>9
  <1>15. ASSUME SendAck(c) PROVE Goal
    <2>1. /\ cpc[c] = "ack" /\ cpc'[c] = "wait"
          /\ toC' = toC /\ toS' = toS /\ msg' = msg /\ done' = done
      BY <1>1, <1>15 DEF SendAck, ClientSends, Types
    <2>2. QED
      BY <1>2, <1>5, <2>1 DEF Left
  <1>16. ASSUME ClientSeesEnd(c) \/ KillClient(c) PROVE Goal
    BY <1>1, <1>8, <1>16, ClientEnd DEF ClientSeesEnd, KillClient
  <1>17. Goal
    BY <1>9, <1>11, <1>12, <1>13, <1>14, <1>15, <1>16 DEF ClientStep
  <1> HIDE DEF Goal
  <1>18. Aftermath'
    <2>1. ASSUME NEW e \in Clients PROVE toS'[e] = <<>> /\ Left(e)' /\ (cpc'[e] = "recv" => Reading(e)')
      <3>1. CASE e = c
        BY <1>17, <3>1 DEF Goal
      <3>2. CASE e # c
        <4>1. /\ toS'[e] = toS[e] /\ toC'[e] = toC[e] /\ cpc'[e] = cpc[e] /\ msg'[e] = msg[e] /\ done'[e] = done[e]
          BY <1>1, <3>2 DEF Moves
        <4>2. toS[e] = <<>> /\ Left(e) /\ (cpc[e] = "recv" => Reading(e))
          BY <1>1 DEF Aftermath
        <4>3. Left(e)'
          BY <1>4, <4>1, <4>2 DEF Left, IsHeader
        <4>4. QED
          BY <1>4, <4>1, <4>2, <4>3 DEF Reading
      <3>3. QED
        BY <3>1, <3>2
    <2>2. QED
      BY <2>1 DEF Aftermath
  <1>19. Lengths'
    <2>1. Len(toS'[c]) <= SockBuf
      BY <1>5, <1>17 DEF Goal
    <2>2. QED
      BY <1>1, <1>17, <2>1, LengthsKept DEF Goal
  <1>20. QED
    BY <1>3, <1>4, <1>18, <1>19 DEF Inv

-----------------------------------------------------------------------------
(* Steps of the server *)

\* What the end of the server leaves to its clients.
LEMMA ServerEnd ==
  ASSUME Inv, Up, ServerExits, UNCHANGED client, UNCHANGED <<backlog, setup>>,
         killed' \subseteq Clients \cup {"server"}
  PROVE  Inv'
  <1>1. Types /\ Lengths /\ Session
    BY DEF Inv
  <1>2. /\ spc' = "exited" /\ toS' = [c \in Clients |-> <<>>]
        /\ UNCHANGED <<step, accepted, fd, cur, need, got, n, dataBuf, taken, acked>>
        /\ UNCHANGED <<cpc, msg, done, size, gen, delivered>>
    BY DEF ServerExits, client
  <1>3. toC' \in [Clients -> Seq(Byte)] /\ \A c \in Clients : toC'[c] = <<>> \/ toC'[c] = toC[c]
    <2>1. PICK reset \in SUBSET {c \in Clients : toS[c] # <<>>} :
            toC' = [c \in Clients |-> IF c \in reset THEN <<>> ELSE toC[c]]
      BY DEF ServerExits
    <2>2. \A c \in Clients : (IF c \in reset THEN <<>> ELSE toC[c]) \in Seq(Byte)
      BY <1>1 DEF Types
    <2>3. QED
      BY <2>1, <2>2
  <1>4. Types'
    <2>1. toS' \in [Clients -> Seq(Byte)]
      <3>1. <<>> \in Seq(Byte)
        OBVIOUS
      <3>2. QED
        BY <1>2, <3>1
    <2>2. QED
      BY <1>1, <1>2, <1>3, <2>1 DEF Types, setup
  <1>5. Lengths'
    <2>1. ASSUME NEW c \in Clients
          PROVE  Len(done'[c]) <= Total(msg'[c]) /\ Len(toS'[c]) <= SockBuf /\ Len(toC'[c]) <= SockBuf
      <3>1. toS'[c] = <<>> /\ Len(<<>>) = 0 /\ SockBuf \in Nat
        BY <1>2, Assumptions
      <3>2. Len(toC'[c]) <= SockBuf
        BY <1>1, <1>3, <3>1 DEF Lengths
      <3>3. QED
        BY <1>1, <1>2, <3>1, <3>2 DEF Lengths
    <2>2. QED
      BY <2>1 DEF Lengths, Total
  <1>6. Aftermath'
    <2>1. OutMsg' = OutMsg
      BY <1>2 DEF OutMsg
    <2>2. ASSUME NEW c \in Clients PROVE toS'[c] = <<>> /\ Left(c)' /\ (cpc'[c] = "recv" => Reading(c)')
      <3>1. toS'[c] = <<>>
        BY <1>2
      <3>2. cpc[c] = "recv" => Reading(c)'
        BY <1>1, <1>2, <2>1, Situation DEF Taking, Reading
      <3>3. Left(c)'
        <4>1. CASE toC'[c] = <<>>
          BY <4>1 DEF Left
        <4>2. CASE toC'[c] # <<>>
          <5>1. toC'[c] = toC[c] /\ toC[c] # <<>>
            BY <1>3, <4>2
          <5>2. CASE Identifying(c)
            <6>1. cpc[c] = "ident" /\ toC[c] = Bytes(WhoAreYou, 1, Hdr)
              BY <1>1, <5>1, <5>2 DEF Session, Identification, Identifying
            <6>2. WhoAreYou \in Message /\ WhoAreYou.kind # "or"
              BY <1>1, OwnMessages
            <6>3. IsHeader(toC[c]) /\ toC[c][1][1] = WhoAreYou
              BY <6>1, <6>2, MessageHeader
            <6>4. QED
              BY <1>2, <5>1, <6>1, <6>2, <6>3 DEF Left, IsHeader
          <5>3. CASE Talking(c) /\ spc \in {"header", "payload"}
            <6>1. Asked(c) /\ step # "o"
              BY <1>1, <5>1, <5>3 DEF Session, Exchange, Talking, Answering
            <6>2. RequestMsg \in Message /\ RequestMsg.kind # "or"
              BY <1>1, <6>1, RequestMessage
            <6>3. IsHeader(toC[c]) /\ toC[c][1][1] = RequestMsg
              BY <6>1, <6>2, MessageHeader DEF Asked
            <6>4. QED
              BY <1>2, <5>1, <6>1, <6>2, <6>3 DEF Left, IsHeader, Asked
          <5>4. CASE Talking(c) /\ spc \in {"output", "ack"}
            <6>1. Unread(c) \/ Taking(c)
              BY <1>1, <5>1, <5>4 DEF Session, Handover, Talking, HasAll, Acking, Gone
            <6>2. need \in Nat /\ need <= OutLen /\ OutLen \in Nat /\ Hdr \in Nat
              BY <1>1, <5>4, Assumptions DEF Types, Session, Handover
            <6>3. CASE Unread(c)
              <7>1. Sent \in Hdr .. Hdr + OutLen
                BY <6>2 DEF Sent
              <7>2. QED
                BY <1>2, <2>1, <5>1, <6>3, <7>1 DEF Left, Unread
            <6>4. CASE Taking(c)
              <7>1. Len(done[c]) \in Nat /\ Len(done[c]) <= need
                BY <1>1, <6>4 DEF Types, Taking
              <7>2. Sent \in Hdr + Len(done[c]) .. Hdr + OutLen
                BY <6>2, <7>1 DEF Sent
              <7>3. cpc'[c] = "recv" /\ toC'[c] = Bytes(OutMsg', Hdr + Len(done'[c]) + 1, Sent) /\ done'[c] = done[c]
                BY <1>2, <2>1, <5>1, <6>4 DEF Taking
              <7>4. QED
                BY <7>2, <7>3 DEF Left
            <6>5. QED
              BY <6>1, <6>3, <6>4
          <5>5. Talking(c) \/ Identifying(c)
            BY <1>1, <5>1 DEF Session, Silence, Quiet
          <5>6. QED
            BY <5>2, <5>3, <5>4, <5>5 DEF Talking
        <4>3. QED
          BY <4>1, <4>2
      <3>4. QED
        BY <1>2, <3>1, <3>2, <3>3
    <2>3. QED
      BY <2>2 DEF Aftermath
  <1>7. ~Up'
    BY <1>2 DEF Up
  <1>8. QED
    BY <1>4, <1>5, <1>6, <1>7 DEF Inv

\* The server's sends and receives.
LEMMA SendKeepsStreams ==
  ASSUME Types, Lengths, NEW c \in Clients, NEW bs \in Seq(Byte), ServerSends(c, bs),
         Len(toC[c]) + Len(bs) <= SockBuf
  PROVE  /\ toC' \in [Clients -> Seq(Byte)] /\ \A e \in Clients : Len(toC'[e]) <= SockBuf
         /\ \A e \in Clients : e # c => toC'[e] = toC[e]
         /\ toC'[c] = IF Closed(c) THEN toC[c] ELSE toC[c] \o bs
  <1>1. toC \in [Clients -> Seq(Byte)] /\ \A e \in Clients : Len(toC[e]) <= SockBuf
    BY DEF Types, Lengths
  <1>2. toC[c] \o bs \in Seq(Byte) /\ Len(toC[c] \o bs) <= SockBuf
    BY <1>1, BytesAppended
  <1>3. CASE Closed(c)
    BY <1>1, <1>3 DEF ServerSends
  <1>4. CASE ~Closed(c)
    <2>1. toC' = [toC EXCEPT ![c] = toC[c] \o bs]
      BY <1>4 DEF ServerSends
    <2>2. QED
      BY <1>1, <1>2, <1>4, <2>1
  <1>5. QED
    BY <1>3, <1>4

\* Taking bytes off a connection.
LEMMA TakeKeepsStreams ==
  ASSUME Types, Lengths, NEW c \in Clients, NEW y \in Seq(Byte), Len(y) <= Len(toS[c]),
         toS' = [toS EXCEPT ![c] = y]
  PROVE  /\ toS' \in [Clients -> Seq(Byte)] /\ \A e \in Clients : Len(toS'[e]) <= SockBuf
         /\ \A e \in Clients : e # c => toS'[e] = toS[e]
         /\ toS'[c] = y
  <1>1. toS \in [Clients -> Seq(Byte)] /\ \A e \in Clients : Len(toS[e]) <= SockBuf
    BY DEF Types, Lengths
  <1>2. Len(y) <= SockBuf
    <2>1. Len(y) \in Nat /\ Len(toS[c]) \in Nat /\ Len(toS[c]) <= SockBuf /\ SockBuf \in Nat
      BY <1>1, Assumptions
    <2>2. QED
      BY <2>1
  <1>3. QED
    BY <1>1, <1>2

\* A step inside the rounds concerns the peer of its exchange alone.
LEMMA RoundStep ==
  ASSUME Types, Session, InRounds, InRounds', UNCHANGED <<fd, cur, accepted, backlog, cpc>>,
         NEW p \in Clients, p = Peer, \A e \in Clients : e # p => toS'[e] = toS[e] /\ toC'[e] = toC[e]
  PROVE  /\ Members' /\ Queue' /\ Identification'
         /\ Talking(p)' \/ Quiet(p)' => Silence'
  <1>1. \A e : Serving(e)' = Serving(e)
    BY DEF Serving
  <1>2. /\ \A e \in Clients : ~Identifying(e) /\ ~Identifying(e)'
        /\ spc \notin {"accept", "ident"} /\ spc' \notin {"accept", "ident"}
    BY DEF InRounds, Identifying
  <1>3. Members'
    <2>1. Count("d")' = Count("d") /\ Count("s")' = Count("s") /\ Count("o")' = Count("o")
      BY DEF Count
    <2>2. QED
      BY <1>1, <1>2, <2>1 DEF Session, Members
  <1>4. Queue'
    <2>1. \A k \in 1 .. Len(backlog) : backlog[k] \in Clients
      BY DEF Types
    <2>2. QED
      BY <1>1, <1>2, <2>1 DEF Session, Queue
  <1>5. Identification'
    BY <1>2 DEF Identification
  <1>6. ASSUME Talking(p)' \/ Quiet(p)' PROVE Silence'
    <2>1. ASSUME NEW e \in Clients, ~Talking(e)' PROVE Quiet(e)'
      <3>1. CASE e = p
        BY <1>6, <2>1, <3>1
      <3>2. CASE e # p
        <4>1. ~Talking(e) /\ ~Identifying(e)
          BY <1>2, <3>2 DEF Talking
        <4>2. Quiet(e)
          BY <4>1 DEF Session, Silence
        <4>3. QED
          BY <1>1, <3>2, <4>2 DEF Quiet
      <3>3. QED
        BY <3>1, <3>2
    <2>2. QED
      BY <2>1 DEF Silence
  <1>7. QED
    BY <1>3, <1>4, <1>5, <1>6

\* Bounds kept by a step of the server.
LEMMA ServerLengths ==
  ASSUME Lengths, UNCHANGED client, \A e \in Clients : Len(toS'[e]) <= SockBuf /\ Len(toC'[e]) <= SockBuf
  PROVE  Lengths'
  BY DEF Lengths, client, Total

\* A queue of connections, its head and what is behind it.
LEMMA Queued ==
  ASSUME NEW q \in Seq(Clients), q # <<>>
  PROVE  /\ Len(q) \in Nat /\ Len(q) >= 1 /\ q[1] = Head(q) /\ Head(q) \in Clients
         /\ Tail(q) \in Seq(Clients) /\ Len(Tail(q)) = Len(q) - 1
         /\ \A k \in 1 .. Len(q) - 1 : Tail(q)[k] = q[k + 1] /\ q[k + 1] \in Clients
  <1>1. Len(q) \in Nat /\ Len(q) >= 1 /\ q[1] = Head(q) /\ Head(q) \in Clients
    BY EmptySeq
  <1>2. Tail(q) \in Seq(Clients) /\ Len(Tail(q)) = Len(q) - 1
    BY HeadTailProperties
  <1>3. ASSUME NEW k \in 1 .. Len(q) - 1
        PROVE  Tail(q)[k] = q[k + 1] /\ q[k + 1] \in Clients
    BY <1>1, <1>2, <1>3, HeadTailProperties
  <1>4. QED
    BY <1>1, <1>2, <1>3

\* A connection is taken from the queue and asked who it is.
LEMMA AcceptKeepsInv ==
  ASSUME Inv, Accept
  PROVE  Inv' /\ Up'
  <1> DEFINE c == Head(backlog)
  <1>1. Types /\ Lengths /\ Session /\ Up
    BY DEF Inv, Accept, Up
  <1>2. /\ spc = "accept" /\ spc' = "ident" /\ backlog # <<>> /\ cur' = c /\ backlog' = Tail(backlog)
        /\ ServerSends(c, Bytes(WhoAreYou, 1, Hdr))
        /\ UNCHANGED <<step, accepted, fd, need, got, n, dataBuf, taken, acked>>
        /\ UNCHANGED client /\ UNCHANGED <<toS, setup, killed>>
    BY DEF Accept, WhoAreYou
  <1>3. /\ backlog \in Seq(Clients) /\ Len(backlog) \in Nat /\ Len(backlog) >= 1 /\ backlog[1] = c /\ c \in Clients
        /\ backlog' \in Seq(Clients) /\ Len(backlog') = Len(backlog) - 1
        /\ \A k \in 1 .. Len(backlog) - 1 : backlog'[k] = backlog[k + 1] /\ backlog[k + 1] \in Clients
    <2>1. backlog \in Seq(Clients) /\ backlog # <<>>
      BY <1>1, <1>2 DEF Types
    <2>2. QED
      BY <1>2, <2>1, Queued
  <1> HIDE DEF c
  <1>4. ~Serving(c) /\ ~Identifying(c) /\ cpc[c] # "new"
    BY <1>1, <1>3 DEF Session, Queue
  <1>5. \A e \in Clients : Quiet(e)
    BY <1>1, <1>2 DEF Session, Silence, Talking, Identifying
  <1>6. cpc[c] = "ident" \/ cpc[c] = "exited"
    BY <1>1, <1>3, <1>4, <1>5 DEF Quiet, Types
  <1>7. WhoAreYou \in Message
    BY <1>1, OwnMessages
  <1>8. Bytes(WhoAreYou, 1, Hdr) \in Seq(Byte) /\ Len(Bytes(WhoAreYou, 1, Hdr)) = Hdr
    BY <1>7, WholeHeader
  <1>9. /\ toC' \in [Clients -> Seq(Byte)] /\ \A e \in Clients : Len(toC'[e]) <= SockBuf
        /\ \A e \in Clients : e # c => toC'[e] = toC[e]
        /\ toC'[c] = IF Closed(c) THEN <<>> ELSE Bytes(WhoAreYou, 1, Hdr)
    <2>1. toC[c] = <<>> /\ Len(<<>>) = 0 /\ Hdr <= SockBuf /\ Hdr \in Nat
      BY <1>3, <1>5, Assumptions DEF Quiet
    <2>2. Len(toC[c]) + Len(Bytes(WhoAreYou, 1, Hdr)) <= SockBuf
      BY <1>8, <2>1
    <2>3. <<>> \o Bytes(WhoAreYou, 1, Hdr) = Bytes(WhoAreYou, 1, Hdr)
      BY <1>8, NothingBefore
    <2>4. /\ toC' \in [Clients -> Seq(Byte)] /\ \A e \in Clients : Len(toC'[e]) <= SockBuf
          /\ \A e \in Clients : e # c => toC'[e] = toC[e]
          /\ toC'[c] = IF Closed(c) THEN toC[c] ELSE toC[c] \o Bytes(WhoAreYou, 1, Hdr)
      BY <1>1, <1>2, <1>3, <1>8, <2>2, SendKeepsStreams
    <2>5. QED
      BY <2>1, <2>3, <2>4
  <1>10. cpc' = cpc /\ gen' = gen /\ toS' = toS
    BY <1>2 DEF client
  <1>11. Types'
    BY <1>1, <1>2, <1>3, <1>9 DEF Types, client, setup
  <1>12. Lengths'
    BY <1>1, <1>2, <1>9, ServerLengths DEF Lengths
  <1>13. \A e : Serving(e)' = Serving(e)
    BY <1>2 DEF Serving
  <1>14. Members'
    <2>1. Count("d")' = Count("d") /\ Count("s")' = Count("s") /\ Count("o")' = Count("o")
      BY <1>2 DEF Count
    <2>2. ~(fd'[Role[cur']] = cur')
      BY <1>2, <1>4 DEF Serving
    <2>3. QED
      BY <1>1, <1>2, <1>3, <1>4, <1>10, <1>13, <2>1, <2>2 DEF Session, Members, Serving
  <1>15. Queue'
    <2>1. ASSUME NEW k \in 1 .. Len(backlog')
          PROVE  /\ k + 1 \in 1 .. Len(backlog) /\ backlog'[k] = backlog[k + 1] /\ backlog'[k] # c
                 /\ backlog'[k] \in Clients /\ ~Serving(backlog[k + 1]) /\ cpc[backlog[k + 1]] # "new"
      <3>1. k + 1 \in 1 .. Len(backlog) /\ 1 \in 1 .. Len(backlog) /\ k + 1 # 1 /\ k \in 1 .. Len(backlog) - 1
        BY <1>3
      <3>2. backlog[k + 1] # backlog[1] /\ ~Serving(backlog[k + 1]) /\ cpc[backlog[k + 1]] # "new"
        BY <1>1, <3>1 DEF Session, Queue
      <3>3. QED
        BY <1>3, <3>1, <3>2
    <2>2. ASSUME NEW k \in 1 .. Len(backlog')
          PROVE  ~(fd'[Role[backlog'[k]]] = backlog'[k]) /\ ~(spc' = "ident" /\ cur' = backlog'[k]) /\ cpc'[backlog'[k]] # "new"
      BY <1>2, <1>10, <2>1 DEF Serving
    <2>3. ASSUME NEW j \in 1 .. Len(backlog'), NEW k \in 1 .. Len(backlog'), backlog'[j] = backlog'[k]
          PROVE  j = k
      <3>1. j + 1 = k + 1
        BY <1>1, <2>1, <2>3 DEF Session, Queue
      <3>2. QED
        BY <1>3, <3>1
    <2>4. QED
      BY <2>2, <2>3 DEF Queue, Serving, Identifying
  <1>16. Silence'
    <2>1. ASSUME NEW e \in Clients, ~Identifying(e)' PROVE Quiet(e)'
      <3>1. e # c
        BY <1>2, <2>1 DEF Identifying
      <3>2. QED
        BY <1>5, <1>9, <1>10, <1>13, <3>1 DEF Quiet
    <2>2. QED
      BY <2>1 DEF Silence
  <1>17. Identification'
    <2>1. WhoAreYou' = WhoAreYou /\ toS'[c] = <<>>
      BY <1>3, <1>5, <1>10 DEF WhoAreYou, Quiet
    <2>2. \/ cpc'[c] = "ident" /\ toC'[c] = Bytes(WhoAreYou', 1, Hdr) /\ toS'[c] = <<>>
          \/ cpc'[c] = "exited" /\ toC'[c] = <<>> /\ toS'[c] = <<>>
      BY <1>6, <1>9, <1>10, <2>1 DEF Closed
    <2>3. QED
      BY <1>2, <2>2 DEF Identification
  <1>18. Exchange' /\ Handover' /\ Offers'
    BY <1>2 DEF Exchange, Handover, Offers, InRounds
  <1>19. Round'
    <2>1. Follows(taken[1])' = Follows(taken[1])
      BY <1>2 DEF Follows
    <2>2. QED
      BY <1>1, <1>2, <1>10, <2>1 DEF Session, Round, setup
  <1>20. Up'
    BY <1>2 DEF Up
  <1>21. QED
    BY <1>11, <1>12, <1>14, <1>15, <1>16, <1>17, <1>18, <1>19, <1>20 DEF Inv, Session

\* A client is identified as what it is, and nothing of its answer remains.
LEMMA IdentifyKeepsInv ==
  ASSUME Inv, Identify
  PROVE  /\ Inv'
         /\ ~fragment /\ OneClientPerRole => Up'
  <1>1. Types /\ Lengths /\ Session /\ Up
    BY DEF Inv, Identify, Up
  <1>2. spc = "ident" /\ UNCHANGED client /\ UNCHANGED <<backlog, setup, killed>>
    BY DEF Identify
  <1>3. PICK bs \in ReceivedHeader(toS[cur]) :
          LET r == bs[1][1].kind IN
          IF IsHeader(bs) /\ r \in Roles /\ MayServe(r)
          THEN /\ fd' = [fd EXCEPT ![r] = cur]
               /\ accepted' = accepted + 1
               /\ spc' = IF accepted' < 3 THEN "accept" ELSE "request"
               /\ toS' = [toS EXCEPT ![cur] = Rest(@, bs)]
               /\ UNCHANGED <<step, cur, need, got, n, dataBuf, taken, acked, toC>>
          ELSE ServerExits
    BY DEF Identify
  <1>4. cur \in Clients /\ ~Serving(cur) /\ cpc[cur] # "new"
    BY <1>1, <1>2 DEF Session, Members
  <1>5. toS[cur] # <<>>
    <2>1. \A w \in Nat : toS[cur] = <<>> => ReceivedHeader(toS[cur]) = {}
      BY NothingReceived
    <2>2. QED
      BY <1>3, <2>1
  <1>6. cpc[cur] \in {"wait", "exited"} /\ toC[cur] = <<>> /\ toS[cur] = Bytes(RoleMsg(cur), 1, Hdr)
    BY <1>1, <1>2, <1>5 DEF Session, Identification
  <1>7. RoleMsg(cur) \in Message /\ RoleMsg(cur).kind = Role[cur] /\ Role[cur] \in Roles
    BY <1>4, RoleMessage
  <1>8. bs[1][1] = RoleMsg(cur) /\ (~fragment => IsHeader(bs)) /\ (IsHeader(bs) => Rest(toS[cur], bs) = <<>>)
    BY <1>3, <1>6, <1>7, WholeHeader
  <1>c. PICK c \in Clients, r \in Roles : c = cur /\ r = Role[c]
    BY <1>4, <1>7
  <1>9. CASE IsHeader(bs) /\ MayServe(r)
    <2>1. /\ fd' = [fd EXCEPT ![r] = c] /\ accepted' = accepted + 1 /\ fd[r] = None
          /\ spc' = IF accepted' < 3 THEN "accept" ELSE "request"
          /\ toS' = [toS EXCEPT ![c] = <<>>]
          /\ UNCHANGED <<step, cur, need, got, n, dataBuf, taken, acked, toC>>
      BY <1>3, <1>7, <1>8, <1>9, <1>c DEF MayServe
    <2>2. c \in Clients /\ r \in Roles /\ r = Role[c] /\ c # None /\ ~Serving(c) /\ cpc[c] \in {"wait", "exited"}
      BY <1>4, <1>6, <1>c, Assumptions
    <2>3. \A e \in Clients : e # c => ~Identifying(e) /\ ~Talking(e) /\ Quiet(e)
      BY <1>1, <1>2, <1>c DEF Session, Silence, Identifying, Talking
    <2>4. cpc' = cpc /\ gen' = gen /\ size' = size /\ toC' = toC
      BY <1>2, <2>1 DEF client
    <2>5. /\ toS' \in [Clients -> Seq(Byte)] /\ \A e \in Clients : Len(toS'[e]) <= SockBuf
          /\ \A e \in Clients : e # c => toS'[e] = toS[e]
          /\ toS'[c] = <<>>
      <3>1. <<>> \in Seq(Byte) /\ Len(<<>>) = 0 /\ toS[c] \in Seq(Byte)
        BY <1>1, <2>2 DEF Types
      <3>2. Len(<<>>) <= Len(toS[c])
        BY <3>1
      <3>3. QED
        BY <1>1, <2>1, <2>2, <3>1, <3>2, TakeKeepsStreams
    <2>6. accepted \in 0 .. 2 /\ accepted' \in 1 .. 3
      <3>1. accepted \in 0 .. 3
        BY <1>1 DEF Types
      <3>2. accepted < 3
        BY <1>1, <1>2 DEF Session, Members
      <3>3. QED
        BY <2>1, <3>1, <3>2
    <2>7. Types'
      <3>1. fd' \in [Roles -> Clients \cup {None}]
        BY <1>1, <2>1, <2>2 DEF Types
      <3>2. spc' \in {"accept", "request"} /\ accepted' \in 0 .. 3
        BY <2>1, <2>6
      <3>3. QED
        BY <1>1, <1>2, <2>1, <2>5, <3>1, <3>2 DEF Types, client, setup
    <2>8. Lengths'
      BY <1>1, <1>2, <2>4, <2>5, ServerLengths DEF Lengths
    <2>9. /\ fd'[r] = c /\ \A x \in Roles : x # r => fd'[x] = fd[x]
      BY <1>1, <2>1, <2>2 DEF Types
    <2>10. \A e \in Clients : e # c => Serving(e)' = Serving(e)
      <3>1. \A e \in Clients : Role[e] \in Roles
        BY Assumptions
      <3>2. QED
        BY <1>4, <2>1, <2>2, <2>9, <3>1, Assumptions DEF Serving
    <2>11. Serving(c)'
      BY <2>2, <2>9 DEF Serving
    <2>12. Members'
      <3>1. \A x \in Roles : fd'[x] # None => Role[fd'[x]] = x
        BY <1>1, <2>2, <2>9 DEF Session, Members
      <3>2. accepted' = Count("d")' + Count("s")' + Count("o")'
        <4>1. accepted = Count("d") + Count("s") + Count("o")
          BY <1>1 DEF Session, Members
        <4>2. r = "d" \/ r = "s" \/ r = "o"
          BY <2>2 DEF Roles
        <4>3. "d" \in Roles /\ "s" \in Roles /\ "o" \in Roles
          BY DEF Roles
        <4>4. CASE r = "d"
          <5>1. Count("d") = 0 /\ Count("d")' = 1 /\ Count("s")' = Count("s") /\ Count("o")' = Count("o")
            BY <2>1, <2>2, <2>9, <4>3, <4>4 DEF Count
          <5>2. Count("s") \in {0, 1} /\ Count("o") \in {0, 1}
            BY DEF Count
          <5>3. QED
            BY <2>1, <4>1, <5>1, <5>2
        <4>5. CASE r = "s"
          <5>1. Count("s") = 0 /\ Count("s")' = 1 /\ Count("d")' = Count("d") /\ Count("o")' = Count("o")
            BY <2>1, <2>2, <2>9, <4>3, <4>5 DEF Count
          <5>2. Count("d") \in {0, 1} /\ Count("o") \in {0, 1}
            BY DEF Count
          <5>3. QED
            BY <2>1, <4>1, <5>1, <5>2
        <4>6. CASE r = "o"
          <5>1. Count("o") = 0 /\ Count("o")' = 1 /\ Count("s")' = Count("s") /\ Count("d")' = Count("d")
            BY <2>1, <2>2, <2>9, <4>3, <4>6 DEF Count
          <5>2. Count("s") \in {0, 1} /\ Count("d") \in {0, 1}
            BY DEF Count
          <5>3. QED
            BY <2>1, <4>1, <5>1, <5>2
        <4>7. QED
          BY <4>2, <4>4, <4>5, <4>6
      <3>3. spc' \in {"accept", "ident"} <=> accepted' < 3
        BY <2>1
      <3>4. spc' # "ident"
        BY <2>1
      <3>5. ASSUME NEW e \in Clients, Serving(e)' PROVE cpc'[e] \notin {"new", "ident"}
        <4>1. CASE e = c
          BY <2>2, <2>4, <4>1
        <4>2. CASE e # c
          BY <1>1, <2>4, <2>10, <3>5, <4>2 DEF Session, Members
        <4>3. QED
          BY <4>1, <4>2
      <3>6. QED
        BY <3>1, <3>2, <3>3, <3>4, <3>5 DEF Members
    <2>13. Queue'
      <3>1. ASSUME NEW k \in 1 .. Len(backlog)
            PROVE  /\ backlog[k] \in Clients /\ backlog[k] # c /\ ~Serving(backlog[k]) /\ cpc[backlog[k]] # "new"
        <4>1. backlog[k] \in Clients
          BY <1>1 DEF Types
        <4>2. ~Serving(backlog[k]) /\ ~Identifying(backlog[k]) /\ cpc[backlog[k]] # "new"
          BY <1>1 DEF Session, Queue
        <4>3. backlog[k] # c
          BY <1>2, <1>c, <4>2 DEF Identifying
        <4>4. QED
          BY <4>1, <4>2, <4>3
      <3>2. spc' # "ident"
        BY <2>1
      <3>3. ASSUME NEW k \in 1 .. Len(backlog)
            PROVE  ~(fd'[Role[backlog[k]]] = backlog[k])
        BY <2>10, <3>1 DEF Serving
      <3>4. QED
        BY <1>1, <1>2, <2>4, <3>1, <3>2, <3>3 DEF Session, Queue, Identifying, Serving
    <2>14. Silence'
      <3>1. ASSUME NEW e \in Clients PROVE Quiet(e)'
        <4>1. CASE e = c
          <5>1. toC[c] = <<>>
            BY <1>6, <1>c
          <5>2. QED
            BY <2>2, <2>4, <2>5, <2>11, <4>1, <5>1 DEF Quiet
        <4>2. CASE e # c
          BY <2>3, <2>4, <2>5, <2>10, <4>2 DEF Quiet
        <4>3. QED
          BY <4>1, <4>2
      <3>2. QED
        BY <3>1 DEF Silence
    <2>15. Identification' /\ Exchange' /\ Handover'
      <3>1. spc' \in {"accept", "request"}
        BY <2>1
      <3>2. QED
        BY <3>1 DEF Identification, Exchange, Handover
    <2>16. /\ step = "c" /\ dataBuf = 0 /\ taken = <<0, 0>> /\ acked = taken /\ \A e \in Clients : gen[e] = 0
      BY <1>1, <1>2 DEF Session, Round
    <2>17. Round'
      <3>1. spc' \in {"accept", "request"}
        BY <2>1
      <3>2. QED
        BY <2>1, <2>4, <2>16, <3>1 DEF Round
    <2>18. Offers'
      <3>1. ~Replied' /\ step' = "c" /\ dataBuf' = 0 /\ taken'[2] = 0
        BY <2>1, <2>16 DEF Replied
      <3>2. ASSUME InRounds' PROVE fd'["d"] \in Clients /\ fd'["s"] \in Clients
        <4>1. accepted' = 3
          BY <2>1, <2>6, <3>2 DEF InRounds
        <4>2. Count("d")' \in {0, 1} /\ Count("s")' \in {0, 1} /\ Count("o")' \in {0, 1}
          BY DEF Count
        <4>3. Count("d")' = 1 /\ Count("s")' = 1
          BY <2>12, <4>1, <4>2 DEF Members
        <4>4. fd'["d"] # None /\ fd'["s"] # None
          BY <4>3 DEF Count
        <4>5. QED
          BY <2>7, <4>4 DEF Types, Roles
      <3>3. QED
        BY <2>4, <2>16, <3>1, <3>2 DEF Offers
    <2>19. Up'
      BY <2>1 DEF Up
    <2>20. QED
      BY <2>7, <2>8, <2>12, <2>13, <2>14, <2>15, <2>17, <2>18, <2>19 DEF Inv, Session
  <1>10. CASE ~(IsHeader(bs) /\ MayServe(r))
    <2>1. Inv'
      <3>1. ServerExits
        BY <1>3, <1>7, <1>8, <1>10, <1>c
      <3>2. killed' \subseteq Clients \cup {"server"}
        BY <1>1, <1>2 DEF Types
      <3>3. QED
        BY <1>1, <1>2, <3>1, <3>2, ServerEnd
    <2>2. ASSUME OneClientPerRole PROVE MayServe(r)
      <3>1. ASSUME fd[r] # None PROVE FALSE
        <4>1. fd[r] \in Clients /\ Role[fd[r]] = r /\ Serving(fd[r])
          BY <1>1, <3>1 DEF Types, Session, Members, Serving
        <4>2. fd[r] # cur /\ cpc[fd[r]] # "new"
          BY <1>1, <1>4, <4>1 DEF Session, Members
        <4>3. QED
          BY <1>4, <1>c, <2>2, <4>1, <4>2 DEF OneClientPerRole
      <3>2. QED
        BY <3>1 DEF MayServe
    <2>3. QED
      BY <1>8, <1>10, <2>1, <2>2
  <1>11. QED
    BY <1>9, <1>10

\* What the clients offer next, over a step of the server alone.
LEMMA OffersKept ==
  ASSUME Offers, InRounds, UNCHANGED <<cpc, size, gen, fd, step, dataBuf, taken>>,
         step = "o" \/ Closed(Peer) \/ (Replied' <=> Replied)
  PROVE  Offers'
  <1>1. Follows(dataBuf)' = Follows(dataBuf) /\ Follows(taken[2])' = Follows(taken[2])
    BY DEF Follows
  <1>2. /\ step \in {"c", "d"} => Peer = fd["d"]
        /\ step = "s" => Peer = fd["s"]
    BY DEF Peer
  <1>3. ASSUME ~Closed(fd["d"])
        PROVE  /\ step = "d" \/ (step = "c" /\ Replied') => size[fd["d"]] = DataLen
               /\ gen[fd["d"]] = IF step = "d" /\ Replied' THEN Follows(dataBuf) ELSE dataBuf
    BY <1>2, <1>3 DEF Offers
  <1>4. ASSUME ~Closed(fd["s"])
        PROVE  gen[fd["s"]] = IF step = "s" /\ Replied' THEN Follows(taken[2]) ELSE taken[2]
    BY <1>2, <1>4 DEF Offers
  <1>5. Closed(fd["d"])' = Closed(fd["d"]) /\ Closed(fd["s"])' = Closed(fd["s"])
    BY DEF Closed
  <1>6. QED
    BY <1>1, <1>3, <1>4, <1>5 DEF Offers

\* A request starts an exchange on silent connections.
LEMMA RequestKeepsInv ==
  ASSUME Inv, Request
  PROVE  Inv' /\ Up'
  <1>1. Types /\ Lengths /\ Session /\ InRounds
    BY DEF Inv, Request, Up, InRounds
  <1>2. /\ spc = "request" /\ spc' = "header" /\ step # "o" /\ Len(toC[Peer]) + Hdr <= SockBuf
        /\ ServerSends(Peer, Bytes(RequestMsg, 1, Hdr))
        /\ UNCHANGED <<step, accepted, fd, cur, need, got, n, dataBuf, taken, acked>>
        /\ UNCHANGED client /\ UNCHANGED <<backlog, toS, setup, killed>>
    BY DEF Request, RequestMsg, Room
  <1>3. PICK p \in Clients : p = Peer /\ Serving(p)
    BY <1>1, RolesServed DEF Session
  <1>4. Quiet(p) /\ cpc[p] \in {"wait", "exited"}
    <2>1. Quiet(p)
      BY <1>1, <1>2 DEF Session, Silence, Talking, Identifying
    <2>2. cpc[p] \notin {"new", "ident"}
      BY <1>1, <1>3 DEF Session, Members
    <2>3. QED
      BY <1>1, <2>1, <2>2 DEF Quiet, Types
  <1>5. /\ Peer' = p /\ Reply' = Reply /\ RequestMsg' = RequestMsg /\ Read' = 0 /\ InRounds' /\ Up'
    <2>1. Requested' = Requested
      BY <1>2, Zenon DEF Requested
    <2>2. QED
      BY <1>2, <1>3, <2>1 DEF Peer, Reply, RequestMsg, Read, InRounds, Up
  <1>6. RequestMsg \in Message /\ Reply \in Message
    BY <1>1, <1>2, RequestMessage, ReplyMessage
  <1>7. /\ toC' \in [Clients -> Seq(Byte)] /\ \A e \in Clients : Len(toC'[e]) <= SockBuf
        /\ \A e \in Clients : e # p => toC'[e] = toC[e]
        /\ toC'[p] = IF Closed(p) THEN <<>> ELSE Bytes(RequestMsg, 1, Hdr)
    <2>1. Bytes(RequestMsg, 1, Hdr) \in Seq(Byte) /\ Len(Bytes(RequestMsg, 1, Hdr)) = Hdr
      BY <1>6, WholeHeader
    <2>2. toC[p] = <<>> /\ <<>> \o Bytes(RequestMsg, 1, Hdr) = Bytes(RequestMsg, 1, Hdr)
      BY <1>4, <2>1, NothingBefore DEF Quiet
    <2>3. /\ toC' \in [Clients -> Seq(Byte)] /\ \A e \in Clients : Len(toC'[e]) <= SockBuf
          /\ \A e \in Clients : e # p => toC'[e] = toC[e]
          /\ toC'[p] = IF Closed(p) THEN toC[p] ELSE toC[p] \o Bytes(RequestMsg, 1, Hdr)
      BY <1>1, <1>2, <1>3, <2>1, SendKeepsStreams
    <2>4. QED
      BY <2>2, <2>3
  <1>8. cpc' = cpc /\ gen' = gen /\ size' = size /\ toS' = toS
    BY <1>2 DEF client
  <1>9. Types'
    BY <1>1, <1>2, <1>7 DEF Types, client, setup
  <1>10. Lengths'
    BY <1>1, <1>2, <1>7, ServerLengths DEF Lengths
  <1>11. Members' /\ Queue' /\ Identification' /\ Silence'
    <2>1. Talking(p)'
      BY <1>2, <1>5 DEF Talking
    <2>2. QED
      BY <1>1, <1>2, <1>3, <1>5, <1>7, <1>8, <2>1, RoundStep
  <1>12. Asked(p)' \/ Answering(p)'
    <2>1. CASE Closed(p)
      <3>1. Bytes(Reply, Read' + 1, 0) = <<>> /\ toS'[p] = <<>> /\ toC'[p] = <<>> /\ cpc'[p] = "exited"
        <4>1. Bytes(Reply, 0 + 1, 0) = <<>>
          BY <1>6, BytesEmpty
        <4>2. QED
          BY <1>4, <1>5, <1>7, <1>8, <2>1, <4>1 DEF Quiet, Closed
      <3>2. Total(Reply) \in Nat
        BY <1>6, Assumptions DEF Total, Message
      <3>3. 0 \in Read' .. Total(Reply')
        BY <1>5, <3>2
      <3>4. QED
        BY <1>5, <3>1, <3>3 DEF Answering
    <2>2. CASE ~Closed(p)
      BY <1>2, <1>4, <1>5, <1>7, <1>8, <2>2 DEF Asked, Quiet, Closed
    <2>3. QED
      BY <2>1, <2>2
  <1>13. Exchange' /\ Handover'
    BY <1>2, <1>3, <1>5, <1>12 DEF Exchange, Handover
  <1>14. Round'
    <2>1. Follows(taken[1])' = Follows(taken[1])
      BY <1>2 DEF Follows
    <2>2. QED
      BY <1>1, <1>2, <1>8, <2>1 DEF Session, Round, setup
  <1>15. Offers'
    <2>1. Closed(Peer) \/ (~Replied /\ ~Replied')
      <3>1. Bytes(RequestMsg, 1, Hdr) # <<>>
        BY <1>6, WholeHeader
      <3>2. QED
        BY <1>2, <1>3, <1>5, <1>7, <3>1 DEF Replied
    <2>2. QED
      BY <1>1, <1>2, <1>8, <2>1, OffersKept DEF Session
  <1>16. QED
    BY <1>5, <1>9, <1>10, <1>11, <1>13, <1>14, <1>15 DEF Inv, Session

\* The header of the reply is the one the server waits for.
LEMMA RecvHeaderKeepsInv ==
  ASSUME Inv, RecvHeader
  PROVE  Inv' /\ (~fragment => Up')
  <1>1. Types /\ Lengths /\ Session /\ InRounds /\ Up
    BY DEF Inv, RecvHeader, Up, InRounds
  <1>2. spc = "header" /\ UNCHANGED client /\ UNCHANGED <<backlog, setup, killed>>
    BY DEF RecvHeader
  <1>3. PICK p \in Clients : p = Peer /\ Serving(p)
    BY <1>1, RolesServed DEF Session
  <1>4. PICK bs \in ReceivedHeader(toS[p]) :
          IF IsHeader(bs) /\ bs[1][1].kind = step
          THEN /\ need' = bs[1][1].len /\ got' = <<>>
               /\ toS' = [toS EXCEPT ![p] = Rest(@, bs)]
               /\ spc' = "payload"
               /\ UNCHANGED <<step, accepted, fd, cur, n, dataBuf, taken, acked, toC>>
          ELSE ServerExits
    BY <1>3 DEF RecvHeader
  <1>5. toS[p] # <<>>
    <2>1. \A w \in Nat : toS[p] = <<>> => ReceivedHeader(toS[p]) = {}
      BY NothingReceived
    <2>2. QED
      BY <1>4, <2>1
  <1>6. step # "o" /\ Answering(p) /\ Read = 0
    BY <1>1, <1>2, <1>3, <1>5 DEF Session, Exchange, Asked, Read
  <1>7. /\ Reply \in Message /\ Reply.kind = step /\ Reply.len \in Nat /\ Hdr \in Nat
        /\ Total(Reply) = Hdr + Reply.len
    BY <1>1, <1>6, ReplyMessage, Assumptions DEF Total
  <1>8. PICK k \in 0 .. Total(Reply) :
          /\ toS[p] = Bytes(Reply, 0 + 1, k)
          /\ cpc[p] = "send" => k = Len(done[p]) /\ k < Total(Reply) /\ msg[p] = Reply
          /\ cpc[p] = "wait" => k = Total(Reply)
    BY <1>6 DEF Answering
  <1>9. /\ bs[1][1] = Reply /\ (~fragment => IsHeader(bs))
        /\ IsHeader(bs) => Hdr <= k /\ Rest(toS[p], bs) = Bytes(Reply, Hdr + 1, k)
    <2>1. k \in Nat
      BY <1>7
    <2>2. bs \in ReceivedHeader(Bytes(Reply, 1, k)) /\ toS[p] = Bytes(Reply, 1, k)
      BY <1>4, <1>8
    <2>3. QED
      BY <1>7, <2>1, <2>2, HeaderReceived
  <1>10. CASE IsHeader(bs)
    <2>1. /\ need' = Reply.len /\ got' = <<>> /\ spc' = "payload"
          /\ toS' = [toS EXCEPT ![p] = Bytes(Reply, Hdr + 1, k)]
          /\ UNCHANGED <<step, accepted, fd, cur, n, dataBuf, taken, acked, toC>>
      BY <1>4, <1>7, <1>9, <1>10
    <2>2. cpc' = cpc /\ gen' = gen /\ size' = size /\ done' = done /\ msg' = msg
      BY <1>2 DEF client
    <2>3. Bytes(Reply, Hdr + 1, k) \in Seq(Byte) /\ Len(Bytes(Reply, Hdr + 1, k)) <= Len(toS[p])
      <3>1. k \in Nat /\ Hdr <= k /\ 0 <= k
        BY <1>7, <1>9, <1>10
      <3>2. Bytes(Reply, Hdr + 1, k) \in Seq(Byte) /\ Len(Bytes(Reply, Hdr + 1, k)) = k - Hdr
        BY <1>7, <3>1, BytesType
      <3>3. Len(toS[p]) = k - 0
        <4>1. \A q \in Nat : q <= k => Len(Bytes(Reply, q + 1, k)) = k - q
          BY <1>7, <3>1, BytesType
        <4>2. Len(Bytes(Reply, 0 + 1, k)) = k - 0
          BY <3>1, <4>1
        <4>3. QED
          BY <1>8, <4>2
      <3>4. QED
        BY <1>7, <3>1, <3>2, <3>3
    <2>4. /\ toS' \in [Clients -> Seq(Byte)] /\ \A e \in Clients : Len(toS'[e]) <= SockBuf
          /\ \A e \in Clients : e # p => toS'[e] = toS[e]
          /\ toS'[p] = Bytes(Reply, Hdr + 1, k)
      BY <1>1, <2>1, <2>3, TakeKeepsStreams
    <2>5. Peer' = p /\ Reply' = Reply /\ Read' = Hdr + 0 /\ InRounds' /\ Up'
      <3>1. Len(got') = 0
        BY <2>1
      <3>2. QED
        BY <1>3, <2>1, <3>1 DEF Peer, Reply, Read, InRounds, Up
    <2>6. Types'
      <3>1. got' \in Seq(Byte) /\ need' \in Nat
        BY <1>7, <2>1
      <3>2. QED
        BY <1>1, <1>2, <2>1, <2>4, <3>1 DEF Types, client, setup
    <2>7. Lengths'
      BY <1>1, <1>2, <2>1, <2>4, ServerLengths DEF Lengths
    <2>8. Members' /\ Queue' /\ Identification' /\ Silence'
      <3>1. Talking(p)'
        BY <2>1, <2>5 DEF Talking
      <3>2. QED
        BY <1>1, <1>2, <1>3, <2>1, <2>2, <2>4, <2>5, <3>1, RoundStep
    <2>9. Answering(p)'
      <3>1. k \in Hdr + 0 .. Total(Reply) /\ Hdr + 0 + 1 = Hdr + 1
        BY <1>7, <1>9, <1>10
      <3>2. cpc[p] \in {"send", "wait", "exited"} /\ toC[p] = <<>>
        BY <1>6 DEF Answering
      <3>3. k \in Read' .. Total(Reply') /\ toS'[p] = Bytes(Reply', Read' + 1, k)
        BY <2>4, <2>5, <3>1
      <3>4. QED
        BY <1>8, <2>1, <2>2, <2>5, <3>2, <3>3 DEF Answering
    <2>10. Exchange'
      <3>1. Len(got') = 0 /\ Hdr + Len(got') = Hdr
        BY <1>7, <2>1
      <3>2. Bytes(Reply, Hdr + 1, Hdr) = <<>>
        BY <1>7, BytesEmpty
      <3>3. QED
        BY <1>6, <1>7, <2>1, <2>5, <2>9, <3>1, <3>2 DEF Exchange
    <2>11. Handover'
      BY <2>1 DEF Handover
    <2>12. Round'
      <3>1. Follows(taken[1])' = Follows(taken[1])
        BY <2>1 DEF Follows
      <3>2. QED
        BY <1>1, <1>2, <2>1, <3>1 DEF Session, Round, setup
    <2>13. Offers'
      <3>1. Replied' <=> Replied
        BY <1>2, <1>3, <2>1, <2>5 DEF Replied
      <3>2. QED
        BY <1>1, <2>1, <2>2, <3>1, OffersKept DEF Session
    <2>14. QED
      BY <2>5, <2>6, <2>7, <2>8, <2>10, <2>11, <2>12, <2>13 DEF Inv, Session
  <1>11. CASE ~IsHeader(bs)
    <2>1. ServerExits
      BY <1>4, <1>11
    <2>2. killed' \subseteq Clients \cup {"server"}
      BY <1>1, <1>2 DEF Types
    <2>3. Inv'
      BY <1>1, <1>2, <2>1, <2>2, ServerEnd
    <2>4. QED
      BY <1>9, <1>11, <2>3
  <1>12. QED
    BY <1>10, <1>11

\* The loop over the payload appends what it receives to what it has.
LEMMA RecvPayloadKeepsInv ==
  ASSUME Inv, RecvPayload
  PROVE  Inv' /\ Up'
  <1>1. Types /\ Lengths /\ Session /\ InRounds /\ Up
    BY DEF Inv, RecvPayload, Up, InRounds
  <1>2. /\ spc = "payload" /\ Len(got) < need
        /\ UNCHANGED <<spc, step, accepted, fd, cur, need, n, dataBuf, taken, acked>>
        /\ UNCHANGED client /\ UNCHANGED <<backlog, toC, setup, killed>>
    BY DEF RecvPayload
  <1>3. PICK p \in Clients : p = Peer /\ Serving(p)
    BY <1>1, RolesServed DEF Session
  <1>4. PICK bs \in Received(toS[p], Chunk(need - Len(got))) :
          got' = got \o bs /\ toS' = [toS EXCEPT ![p] = Rest(@, bs)]
    BY <1>3 DEF RecvPayload
  <1>5. /\ step # "o" /\ Answering(p) /\ need = Reply.len /\ got = Bytes(Reply, Hdr + 1, Hdr + Len(got))
        /\ Read = Hdr + Len(got)
    BY <1>1, <1>2, <1>3 DEF Session, Exchange, Asked, Read
  <1>6. /\ Reply \in Message /\ Reply.len \in Nat /\ Hdr \in Nat /\ Total(Reply) = Hdr + Reply.len
        /\ Len(got) \in Nat /\ need - Len(got) \in Nat
    <2>1. Reply \in Message /\ Reply.len \in Nat /\ Hdr \in Nat /\ Total(Reply) = Hdr + Reply.len
      BY <1>1, <1>5, ReplyMessage, Assumptions DEF Total
    <2>2. Len(got) \in Nat /\ need \in Nat
      BY <1>1 DEF Types
    <2>3. QED
      BY <1>2, <2>1, <2>2
  <1>7. Chunk(need - Len(got)) \in Nat /\ Chunk(need - Len(got)) <= need - Len(got)
    BY <1>6, ChunkBound
  <1>8. PICK k \in Read .. Total(Reply) :
          /\ toS[p] = Bytes(Reply, Hdr + Len(got) + 1, k)
          /\ cpc[p] = "send" => k = Len(done[p]) /\ k < Total(Reply) /\ msg[p] = Reply
          /\ cpc[p] = "wait" => k = Total(Reply)
    BY <1>5 DEF Answering
  <1>9. k \in Nat /\ Hdr + Len(got) \in Nat /\ Hdr + Len(got) <= k /\ k <= Total(Reply)
    BY <1>5, <1>6
  <1>10. PICK j \in Nat : /\ 1 <= j /\ j <= need - Len(got) /\ Hdr + Len(got) + j <= k
                          /\ bs = Bytes(Reply, Hdr + Len(got) + 1, Hdr + Len(got) + j) /\ Len(bs) = j
                          /\ Rest(toS[p], bs) = Bytes(Reply, Hdr + Len(got) + j + 1, k)
    <2>1. bs \in Received(Bytes(Reply, Hdr + Len(got) + 1, k), Chunk(need - Len(got)))
      BY <1>4, <1>8
    <2>2. \E j \in Nat : /\ 1 <= j /\ j <= Chunk(need - Len(got)) /\ Hdr + Len(got) + j <= k
                         /\ bs = Bytes(Reply, Hdr + Len(got) + 1, Hdr + Len(got) + j) /\ Len(bs) = j
                         /\ Rest(Bytes(Reply, Hdr + Len(got) + 1, k), bs) = Bytes(Reply, Hdr + Len(got) + j + 1, k)
      <3>1. \A h \in Nat, w \in Nat : h <= k => \A x \in Received(Bytes(Reply, h + 1, k), w) :
              \E j \in Nat : /\ 1 <= j /\ j <= w /\ h + j <= k
                             /\ x = Bytes(Reply, h + 1, h + j) /\ Len(x) = j
                             /\ Rest(Bytes(Reply, h + 1, k), x) = Bytes(Reply, h + j + 1, k)
        BY <1>6, <1>9, BytesReceived
      <3>2. QED
        BY <1>7, <1>9, <2>1, <3>1
    <2>3. QED
      BY <1>6, <1>7, <1>8, <2>2
  <1>11. toS[p] \in Seq(Byte)
    BY <1>1 DEF Types
  <1>12. bs \in Seq(Byte) /\ Rest(toS[p], bs) \in Seq(Byte) /\ Len(Rest(toS[p], bs)) <= Len(toS[p])
    <2>1. /\ bs \in Seq(Byte) /\ Len(bs) >= 1 /\ Rest(toS[p], bs) \in Seq(Byte)
          /\ Len(Rest(toS[p], bs)) = Len(toS[p]) - Len(bs)
      BY <1>4, <1>7, <1>11, ReceivedType
    <2>2. Len(toS[p]) \in Nat /\ Len(bs) \in Nat
      BY <1>11, <2>1
    <2>3. QED
      BY <2>1, <2>2
  <1>13. /\ toS' \in [Clients -> Seq(Byte)] /\ \A e \in Clients : Len(toS'[e]) <= SockBuf
         /\ \A e \in Clients : e # p => toS'[e] = toS[e]
         /\ toS'[p] = Bytes(Reply, Hdr + Len(got) + j + 1, k)
    <2>1. toS' = [toS EXCEPT ![p] = Rest(toS[p], bs)]
      BY <1>4
    <2>2. QED
      BY <1>1, <1>10, <1>12, <2>1, TakeKeepsStreams
  <1>14. /\ got' \in Seq(Byte) /\ Len(got') = Len(got) + j
         /\ got' = Bytes(Reply, Hdr + 1, Hdr + (Len(got) + j))
    <2>1. got \in Seq(Byte)
      BY <1>1 DEF Types
    <2>2. got \o bs \in Seq(Byte) /\ Len(got \o bs) = Len(got) + Len(bs)
      BY <1>12, <2>1, BytesAppended
    <2>3. Bytes(Reply, Hdr + 1, Hdr + Len(got)) \o Bytes(Reply, Hdr + Len(got) + 1, Hdr + Len(got) + j)
            = Bytes(Reply, Hdr + 1, Hdr + Len(got) + j)
      <3>1. Hdr + Len(got) + j \in Nat /\ Hdr <= Hdr + Len(got) /\ Hdr + Len(got) <= Hdr + Len(got) + j
        BY <1>6, <1>10
      <3>2. \A p1 \in Nat, q \in Nat, r \in Nat : p1 <= q /\ q <= r =>
              Bytes(Reply, p1 + 1, q) \o Bytes(Reply, q + 1, r) = Bytes(Reply, p1 + 1, r)
        <4>1. Reply \in Message
          BY <1>6
        <4>2. QED
          BY ONLY <4>1, BytesConcat
      <3>3. QED
        BY <1>6, <1>9, <3>1, <3>2
    <2>4. Hdr + Len(got) + j = Hdr + (Len(got) + j)
      BY <1>6
    <2>5. got \o bs = Bytes(Reply, Hdr + 1, Hdr + (Len(got) + j))
      BY <1>5, <1>10, <2>3, <2>4
    <2>6. QED
      BY <1>4, <1>10, <2>2, <2>5
  <1>15. cpc' = cpc /\ gen' = gen /\ size' = size /\ done' = done /\ msg' = msg
    BY <1>2 DEF client
  <1>16. Peer' = p /\ Reply' = Reply /\ Read' = Hdr + (Len(got) + j) /\ InRounds' /\ Up'
    BY <1>2, <1>3, <1>14 DEF Peer, Reply, Read, InRounds, Up
  <1>17. Types'
    BY <1>1, <1>2, <1>13, <1>14 DEF Types, client, setup
  <1>18. Lengths'
    BY <1>1, <1>2, <1>13, ServerLengths DEF Lengths
  <1>19. Members' /\ Queue' /\ Identification' /\ Silence'
    <2>1. Talking(p)'
      BY <1>2, <1>16 DEF Talking
    <2>2. QED
      BY <1>1, <1>2, <1>3, <1>13, <1>15, <1>16, <2>1, RoundStep
  <1>20. Answering(p)'
    <2>1. k \in Hdr + (Len(got) + j) .. Total(Reply) /\ Hdr + (Len(got) + j) + 1 = Hdr + Len(got) + j + 1
      BY <1>6, <1>9, <1>10
    <2>2. cpc[p] \in {"send", "wait", "exited"} /\ toC[p] = <<>>
      BY <1>5 DEF Answering
    <2>3. k \in Read' .. Total(Reply') /\ toS'[p] = Bytes(Reply', Read' + 1, k)
      BY <1>13, <1>16, <2>1
    <2>4. QED
      BY <1>2, <1>8, <1>15, <1>16, <2>2, <2>3 DEF Answering
  <1>21. Exchange'
    <2>1. need' = Reply'.len /\ Len(got') <= need' /\ got' = Bytes(Reply', Hdr + 1, Hdr + Len(got'))
      BY <1>2, <1>5, <1>6, <1>10, <1>14, <1>16, SMTT(30)
    <2>2. QED
      BY <1>2, <1>5, <1>16, <1>20, <2>1 DEF Exchange
  <1>22. Handover'
    BY <1>2 DEF Handover
  <1>23. Round'
    <2>1. Follows(taken[1])' = Follows(taken[1])
      BY <1>2 DEF Follows
    <2>2. QED
      BY <1>1, <1>2, <2>1 DEF Session, Round, setup
  <1>24. Offers'
    <2>1. Replied' <=> Replied
      BY <1>2, <1>3, <1>16 DEF Replied
    <2>2. QED
      BY <1>1, <1>2, <1>15, <2>1, OffersKept DEF Session
  <1>25. QED
    BY <1>16, <1>17, <1>18, <1>19, <1>21, <1>22, <1>23, <1>24 DEF Inv, Session

\* What the server does with a reply it has in full: the command line gives
\* it the length of the data, the data are new, and so is the seed.
Taken ==
  /\ CASE step = "c" -> n' = DataLen /\ spc' = "request" /\ step' = "d" /\ UNCHANGED <<dataBuf, taken>>
       [] step = "d" -> /\ dataBuf' = Follows(dataBuf) /\ spc' = "request" /\ step' = AfterData
                        /\ n' = (IF dryRun THEN 0 ELSE n) /\ UNCHANGED taken
       [] step = "s" -> /\ taken' = <<dataBuf, Follows(taken[2])>> /\ spc' = "extract" /\ step' = "o"
                        /\ UNCHANGED <<n, dataBuf>>
  /\ UNCHANGED <<accepted, fd, cur, need, got, acked, toS, toC>>

\* When a reply is complete, both directions are empty.
LEMMA ReplyTaken ==
  ASSUME Inv, TakeReply
  PROVE  /\ step # "o" /\ Taken /\ toS[Peer] = <<>> /\ toC[Peer] = <<>>
         /\ cpc[Peer] \in {"wait", "exited"}
  <1>1. Types /\ Session /\ InRounds
    BY DEF Inv, TakeReply, Up, InRounds
  <1>2. spc = "payload" /\ Len(got) >= need
    BY DEF TakeReply
  <1>3. /\ step # "o" /\ Answering(Peer) /\ need = Reply.len /\ Len(got) <= need
        /\ got = Bytes(Reply, Hdr + 1, Hdr + Len(got)) /\ Read = Hdr + Len(got)
    BY <1>1, <1>2 DEF Session, Exchange, Asked, Read
  <1>4. /\ Reply \in Message /\ Reply.len \in Nat /\ Reply.len >= 1 /\ Hdr \in Nat
        /\ Total(Reply) = Hdr + Reply.len
    BY <1>1, <1>3, ReplyMessage, Assumptions DEF Total
  <1>5. Len(got) = Reply.len
    <2>1. Len(got) \in Nat /\ need \in Nat
      BY <1>1 DEF Types
    <2>2. QED
      BY <1>2, <1>3, <2>1
  <1>6. PICK k \in Read .. Total(Reply) :
          /\ toS[Peer] = Bytes(Reply, Read + 1, k)
          /\ cpc[Peer] = "send" => k < Total(Reply)
    BY <1>3 DEF Answering
  <1>7. k = Total(Reply) /\ Read = Total(Reply) /\ Total(Reply) \in Nat
    BY <1>3, <1>4, <1>5, <1>6
  <1>8. toS[Peer] = <<>>
    BY <1>4, <1>6, <1>7, BytesEmpty
  <1>9. toC[Peer] = <<>> /\ cpc[Peer] \in {"wait", "exited"}
    BY <1>3, <1>6, <1>7 DEF Answering
  <1>10. Content(got) = Reply.tag
    BY <1>3, <1>4, <1>5, ContentIsTag
  <1>11. step = "c" \/ step = "d" \/ step = "s"
    BY <1>1, <1>3 DEF Types
  <1>12. Len(got) >= Needed
    <2>1. CASE step = "c"
      BY <1>1, <1>3, <1>5, <2>1, ReplyMessage, Assumptions DEF Needed
    <2>2. CASE step = "d"
      <3>1. Needed = n
        BY <2>2, Zenon DEF Needed, Requested
      <3>2. n = DataLen /\ Reply.len = DataLen /\ DataLen \in Nat
        BY <1>1, <1>3, <2>2, ReplyMessage, Assumptions DEF Session, Round
      <3>3. QED
        BY <1>5, <3>1, <3>2
    <2>3. CASE step = "s"
      <3>1. Needed = SeedLen
        BY <2>3, Zenon DEF Needed, Requested
      <3>2. Reply.len = SeedLen /\ SeedLen \in Nat
        BY <1>1, <1>3, <2>3, ReplyMessage, Assumptions
      <3>3. QED
        BY <1>5, <3>1, <3>2
    <2>4. QED
      BY <1>11, <2>1, <2>2, <2>3
  <1>13. /\ CASE step = "c" -> /\ n' = Content(got)[1] /\ spc' = "request" /\ step' = "d"
                               /\ UNCHANGED <<dataBuf, taken>>
              [] step = "d" -> /\ dataBuf' = Content(got)[1] /\ spc' = "request"
                               /\ step' = AfterData /\ n' = (IF dryRun THEN 0 ELSE n)
                               /\ UNCHANGED taken
              [] step = "s" -> /\ taken' = Inputs(Content(got)[1])
                               /\ spc' = "extract" /\ step' = "o"
                               /\ UNCHANGED <<n, dataBuf>>
         /\ UNCHANGED <<accepted, fd, cur, need, got, acked, toS, toC>>
    <2>1. ~(Len(got) < Needed)
      <3>1. Needed \in Int
        <4>1. n \in Int /\ MinCmd \in Int /\ SeedLen \in Int
          BY <1>1, Assumptions DEF Types
        <4>2. CASE step = "c"
          BY <4>1, <4>2 DEF Needed
        <4>3. CASE step = "d"
          <5>1. Needed = n
            BY <4>3, Zenon DEF Needed, Requested
          <5>2. QED
            BY <4>1, <5>1
        <4>4. CASE step = "s"
          <5>1. Needed = SeedLen
            BY <4>4, Zenon DEF Needed, Requested
          <5>2. QED
            BY <4>1, <5>1
        <4>5. QED
          BY <1>11, <4>2, <4>3, <4>4
      <3>2. QED
        BY <1>4, <1>5, <1>12, <3>1
    <2>2. QED
      BY <2>1, Zenon DEF TakeReply
  <1>14. CASE step = "c"
    <2>1. Content(got)[1] = DataLen
      BY <1>1, <1>3, <1>10, <1>14, ReplyMessage
    <2>2. Taken
      BY <1>13, <1>14, <2>1, Zenon DEF Taken
    <2>3. QED
      BY <1>3, <1>8, <1>9, <2>2
  <1>15. CASE step = "d"
    <2>1. Content(got)[1] = Follows(dataBuf)
      BY <1>1, <1>3, <1>10, <1>15, ReplyMessage
    <2>2. Taken
      BY <1>13, <1>15, <2>1, Zenon DEF Taken
    <2>3. QED
      BY <1>3, <1>8, <1>9, <2>2
  <1>16. CASE step = "s"
    <2>1. Content(got)[1] = Follows(taken[2])
      BY <1>1, <1>3, <1>10, <1>16, ReplyMessage
    <2>2. Inputs(Content(got)[1]) = <<dataBuf, Follows(taken[2])>>
      BY <2>1 DEF Inputs
    <2>3. Taken
      BY <1>13, <1>16, <2>2, Zenon DEF Taken
    <2>4. QED
      BY <1>3, <1>8, <1>9, <2>3
  <1>17. QED
    BY <1>11, <1>14, <1>15, <1>16

\* When the reply is complete nothing of the exchange remains.
LEMMA TakeReplyKeepsInv ==
  ASSUME Inv, TakeReply
  PROVE  Inv' /\ Up'
  <1>1. Types /\ Lengths /\ Session /\ InRounds
    BY DEF Inv, TakeReply, Up, InRounds
  <1>2. spc = "payload" /\ UNCHANGED client /\ UNCHANGED <<backlog, setup, killed>>
    BY DEF TakeReply
  <1>3. PICK p \in Clients : p = Peer /\ Serving(p)
    BY <1>1, RolesServed DEF Session
  <1>4. step # "o" /\ Taken /\ toS[p] = <<>> /\ toC[p] = <<>> /\ cpc[p] \in {"wait", "exited"}
    BY <1>3, ReplyTaken
  <1>5. UNCHANGED <<accepted, fd, cur, need, got, acked, toS, toC>>
    BY <1>4, Zenon DEF Taken
  <1>6. step \in {"c", "d", "s"}
    BY <1>1, <1>4 DEF Types
  <1>7. \/ step = "c" /\ n' = DataLen /\ spc' = "request" /\ step' = "d" /\ dataBuf' = dataBuf /\ taken' = taken
        \/ /\ step = "d" /\ dataBuf' = Follows(dataBuf) /\ spc' = "request" /\ step' = AfterData
           /\ n' = (IF dryRun THEN 0 ELSE n) /\ taken' = taken
        \/ /\ step = "s" /\ taken' = <<dataBuf, Follows(taken[2])>> /\ spc' = "extract" /\ step' = "o"
           /\ n' = n /\ dataBuf' = dataBuf
    <2>1. CASE step = "c"
      BY <1>4, <2>1, Zenon DEF Taken
    <2>2. CASE step = "d"
      BY <1>4, <2>2, Zenon DEF Taken
    <2>3. CASE step = "s"
      BY <1>4, <2>3, Zenon DEF Taken
    <2>4. QED
      BY <1>6, <2>1, <2>2, <2>3
  <1>8. spc' \in {"request", "extract"} /\ step' \in {"c", "d", "s", "o"} /\ (spc' = "extract" <=> step' = "o")
    BY <1>7 DEF AfterData
  <1>9. cpc' = cpc /\ gen' = gen /\ size' = size
    BY <1>2 DEF client
  <1>10. InRounds' /\ Up' /\ ~Replied'
    BY <1>8 DEF InRounds, Up, Replied
  <1>11. Types'
    <2>1. Follows(dataBuf) \in Nat /\ Follows(taken[2]) \in Nat /\ DataLen \in Nat
      BY <1>1, FollowsType, Assumptions DEF Types
    <2>2. n' \in Nat /\ dataBuf' \in Nat /\ taken' \in Nat \X Nat
      <3>1. n \in Nat /\ 0 \in Nat /\ dataBuf \in Nat /\ taken \in Nat \X Nat
        BY <1>1 DEF Types
      <3>2. <<dataBuf, Follows(taken[2])>> \in Nat \X Nat
        BY <2>1, <3>1
      <3>3. n' \in Nat
        BY <1>7, <2>1, <3>1
      <3>4. dataBuf' \in Nat
        BY <1>7, <2>1, <3>1
      <3>5. taken' \in Nat \X Nat
        BY <1>7, <3>1, <3>2
      <3>6. QED
        BY <3>3, <3>4, <3>5
    <2>3. spc' \in {"accept", "ident", "request", "header", "payload", "extract", "output", "ack", "exited"}
      BY <1>8
    <2>4. QED
      BY <1>1, <1>2, <1>5, <1>8, <2>2, <2>3 DEF Types, client, setup
  <1>12. Lengths'
    BY <1>1, <1>2, <1>5, ServerLengths DEF Lengths
  <1>13. Members' /\ Queue' /\ Identification' /\ Silence'
    <2>1. Quiet(p)'
      BY <1>3, <1>4, <1>5, <1>9 DEF Quiet, Serving
    <2>2. QED
      BY <1>1, <1>2, <1>3, <1>5, <1>9, <1>10, <2>1, RoundStep
  <1>14. Exchange' /\ Handover'
    BY <1>8 DEF Exchange, Handover
  <1>15. Round'
    <2>1. dryRun' = dryRun /\ acked' = acked /\ spc' \notin {"accept", "ident", "output", "ack"}
      BY <1>2, <1>5, <1>8 DEF setup
    <2>2. /\ (step = "s" => ~dryRun) /\ (step \in {"c", "d"} /\ ~dryRun => dataBuf = taken[1])
          /\ (step = "s" => dataBuf = Follows(taken[1])) /\ acked = taken
      BY <1>1, <1>4 DEF Session, Round
    <2>3. ~(step' # "o") \/ acked' = taken'
      BY <1>7, <2>1, <2>2
    <2>4. /\ step' \in {"s", "o"} => ~dryRun
          /\ (step' \in {"c", "d"} /\ ~dryRun) \/ step' = "o" => dataBuf' = taken'[1]
          /\ step' = "s" => dataBuf' = Follows(taken'[1])
          /\ step' = "d" => n' = DataLen
      <3>1. CASE step = "c"
        BY <1>7, <2>2, <3>1
      <3>2. CASE step = "d"
        BY <1>7, <2>2, <3>2 DEF AfterData
      <3>3. CASE step = "s"
        <4>1. step' = "o" /\ dataBuf' = dataBuf /\ taken'[1] = dataBuf
          BY <1>7, <3>3
        <4>2. QED
          BY <2>2, <3>3, <4>1
      <3>4. QED
        BY <1>6, <3>1, <3>2, <3>3
    <2>5. Follows(taken[1])' = Follows(taken'[1])
      BY DEF Follows
    <2>6. QED
      BY <1>8, <2>1, <2>3, <2>4, <2>5 DEF Round
  <1>16. Offers'
    <2>1. Replied
      BY <1>2, <1>3, <1>4 DEF Replied
    <2>2. fd' = fd /\ Closed(fd["d"])' = Closed(fd["d"]) /\ Closed(fd["s"])' = Closed(fd["s"])
      BY <1>5, <1>9 DEF Closed
    <2>3. ASSUME ~Closed(fd["d"]) PROVE (step' = "d" => size[fd["d"]] = DataLen) /\ gen[fd["d"]] = dataBuf'
      <3>1. CASE step = "c"
        BY <1>1, <1>7, <2>1, <2>3, <3>1 DEF Session, Offers
      <3>2. CASE step = "d"
        BY <1>1, <1>7, <2>1, <2>3, <3>2 DEF Session, Offers, AfterData
      <3>3. CASE step = "s"
        BY <1>1, <1>7, <2>1, <2>3, <3>3 DEF Session, Offers
      <3>4. QED
        BY <1>6, <3>1, <3>2, <3>3
    <2>4. ASSUME ~Closed(fd["s"]) PROVE gen[fd["s"]] = taken'[2]
      <3>1. CASE step = "s"
        BY <1>1, <1>7, <2>1, <2>4, <3>1 DEF Session, Offers
      <3>2. CASE step # "s"
        BY <1>1, <1>7, <2>1, <2>4, <3>2 DEF Session, Offers
      <3>3. QED
        BY <3>1, <3>2
    <2>5. QED
      BY <1>9, <1>10, <2>2, <2>3, <2>4 DEF Offers
  <1>17. QED
    BY <1>10, <1>11, <1>12, <1>13, <1>14, <1>15, <1>16 DEF Inv, Session

\* The header of the output is sent whole.
LEMMA SendOutHeaderKeepsInv ==
  ASSUME Inv, SendOutHeader
  PROVE  Inv' /\ Up'
  <1>1. Types /\ Lengths /\ Session /\ InRounds
    BY DEF Inv, SendOutHeader, Up, InRounds
  <1>2. /\ spc = "extract" /\ spc' = "output" /\ need' = 0 /\ Len(toC[Peer]) + Hdr <= SockBuf
        /\ ServerSends(Peer, Bytes(OutMsg, 1, Hdr))
        /\ UNCHANGED <<step, accepted, fd, cur, got, n, dataBuf, taken, acked>>
        /\ UNCHANGED client /\ UNCHANGED <<backlog, toS, setup, killed>>
    BY DEF SendOutHeader, Room
  <1>3. PICK p \in Clients : p = Peer /\ Serving(p)
    BY <1>1, RolesServed DEF Session
  <1>4. Quiet(p) /\ cpc[p] \in {"wait", "exited"} /\ step = "o"
    <2>1. Quiet(p)
      BY <1>1, <1>2 DEF Session, Silence, Talking, Identifying
    <2>2. cpc[p] \notin {"new", "ident"}
      BY <1>1, <1>3 DEF Session, Members
    <2>3. QED
      BY <1>1, <1>2, <2>1, <2>2 DEF Quiet, Types, Session, Round
  <1>5. Peer' = p /\ OutMsg' = OutMsg /\ Sent' = Hdr + 0 /\ InRounds' /\ Up'
    BY <1>2, <1>3 DEF Peer, OutMsg, Sent, InRounds, Up
  <1>6. OutMsg \in Message /\ Hdr \in Nat /\ Hdr + 0 = Hdr /\ OutLen \in Nat /\ OutLen >= 1
    BY <1>1, OwnMessages, Assumptions
  <1>7. /\ toC' \in [Clients -> Seq(Byte)] /\ \A e \in Clients : Len(toC'[e]) <= SockBuf
        /\ \A e \in Clients : e # p => toC'[e] = toC[e]
        /\ toC'[p] = IF Closed(p) THEN <<>> ELSE Bytes(OutMsg, 1, Hdr)
    <2>1. Bytes(OutMsg, 1, Hdr) \in Seq(Byte) /\ Len(Bytes(OutMsg, 1, Hdr)) = Hdr
      BY <1>6, WholeHeader
    <2>2. toC[p] = <<>> /\ <<>> \o Bytes(OutMsg, 1, Hdr) = Bytes(OutMsg, 1, Hdr)
      BY <1>4, <2>1, NothingBefore DEF Quiet
    <2>3. /\ toC' \in [Clients -> Seq(Byte)] /\ \A e \in Clients : Len(toC'[e]) <= SockBuf
          /\ \A e \in Clients : e # p => toC'[e] = toC[e]
          /\ toC'[p] = IF Closed(p) THEN toC[p] ELSE toC[p] \o Bytes(OutMsg, 1, Hdr)
      BY <1>1, <1>2, <1>3, <2>1, SendKeepsStreams
    <2>4. QED
      BY <2>2, <2>3
  <1>8. cpc' = cpc /\ gen' = gen /\ size' = size /\ toS' = toS
    BY <1>2 DEF client
  <1>9. Types'
    BY <1>1, <1>2, <1>7 DEF Types, client, setup
  <1>10. Lengths'
    BY <1>1, <1>2, <1>7, ServerLengths DEF Lengths
  <1>11. Members' /\ Queue' /\ Identification' /\ Silence'
    <2>1. Talking(p)'
      BY <1>2, <1>5 DEF Talking
    <2>2. QED
      BY <1>1, <1>2, <1>3, <1>5, <1>7, <1>8, <2>1, RoundStep
  <1>12. Unread(p)' \/ Gone(p)'
    <2>1. CASE Closed(p)
      BY <1>4, <1>7, <1>8, <2>1 DEF Gone, Quiet, Closed
    <2>2. CASE ~Closed(p)
      BY <1>4, <1>5, <1>6, <1>7, <1>8, <2>2 DEF Unread, Quiet, Closed
    <2>3. QED
      BY <2>1, <2>2
  <1>13. Handover'
    <2>1. need' <= OutLen /\ ~(need' = OutLen) /\ spc' # "ack"
      BY <1>2, <1>6
    <2>2. QED
      BY <1>2, <1>5, <1>12, <2>1 DEF Handover
  <1>14. Exchange'
    BY <1>2 DEF Exchange
  <1>15. Round'
    <2>1. Follows(taken[1])' = Follows(taken[1])
      BY <1>2 DEF Follows
    <2>2. QED
      BY <1>1, <1>2, <1>4, <2>1 DEF Session, Round, setup
  <1>16. Offers'
    BY <1>1, <1>2, <1>4, <1>8, OffersKept DEF Session
  <1>17. QED
    BY <1>5, <1>9, <1>10, <1>11, <1>13, <1>14, <1>15, <1>16 DEF Inv, Session

\* The send loop over the output goes on where it stopped.
LEMMA SendOutputKeepsInv ==
  ASSUME Inv, SendOutput
  PROVE  Inv' /\ Up'
  <1>1. Types /\ Lengths /\ Session /\ InRounds
    BY DEF Inv, SendOutput, Up, InRounds
  <1>2. /\ spc = "output" /\ spc' = IF need' < OutLen THEN "output" ELSE "ack"
        /\ need < OutLen
        /\ UNCHANGED <<step, accepted, fd, cur, got, n, dataBuf, taken, acked>>
        /\ UNCHANGED client /\ UNCHANGED <<backlog, toS, setup, killed>>
    BY DEF SendOutput
  <1>3. PICK p \in Clients : p = Peer /\ Serving(p)
    BY <1>1, RolesServed DEF Session
  <1>4. PICK k \in 1 .. Chunk(OutLen - need) :
          /\ Len(toC[p]) + k <= SockBuf /\ need' = need + k
          /\ ServerSends(p, Bytes(OutMsg, Hdr + need + 1, Hdr + need + k))
    BY <1>3 DEF SendOutput, Room
  <1>5. /\ OutMsg \in Message /\ Hdr \in Nat /\ OutLen \in Nat /\ need \in Nat /\ k \in Nat /\ k >= 1
        /\ need + k <= OutLen
    <2>1. OutMsg \in Message /\ Hdr \in Nat /\ OutLen \in Nat /\ need \in Nat
      BY <1>1, OwnMessages, Assumptions DEF Types
    <2>2. OutLen - need \in Nat
      BY <1>2, <2>1
    <2>3. Chunk(OutLen - need) \in Nat /\ Chunk(OutLen - need) <= OutLen - need
      BY <2>2, ChunkBound
    <2>4. QED
      BY <2>1, <2>2, <2>3
  <1>6. /\ step = "o" /\ Peer' = p /\ OutMsg' = OutMsg /\ Sent = Hdr + need /\ Sent' = Hdr + need + k
        /\ InRounds' /\ Up' /\ spc' \in {"output", "ack"} /\ (spc' = "ack" <=> need' = OutLen)
        /\ need' \in Nat /\ need' <= OutLen
    <2>1. step = "o"
      BY <1>1, <1>2 DEF Session, Round
    <2>2. need' \in Nat /\ need' <= OutLen /\ Hdr + (need + k) = Hdr + need + k
      BY <1>4, <1>5
    <2>3. need' < OutLen \/ need' = OutLen
      BY <1>5, <2>2
    <2>4. spc' \in {"output", "ack"} /\ (spc' = "ack" <=> need' = OutLen)
      BY <1>2, <1>5, <2>2, <2>3
    <2>5. QED
      BY <1>2, <1>3, <1>4, <2>1, <2>2, <2>4 DEF Peer, OutMsg, Sent, InRounds, Up
  <1> DEFINE bs == Bytes(OutMsg, Hdr + need + 1, Hdr + need + k)
  <1>7. bs \in Seq(Byte) /\ Len(bs) = k
    <2>1. \A q, r \in Nat : q <= r => /\ Bytes(OutMsg, q + 1, r) \in Seq(Byte)
                                      /\ Len(Bytes(OutMsg, q + 1, r)) = r - q
      BY <1>5, BytesType
    <2>2. Hdr + need \in Nat /\ Hdr + need + k \in Nat /\ Hdr + need <= Hdr + need + k
          /\ (Hdr + need + k) - (Hdr + need) = k
      BY <1>5
    <2>3. QED
      BY <2>1, <2>2
  <1>8. /\ toC' \in [Clients -> Seq(Byte)] /\ \A e \in Clients : Len(toC'[e]) <= SockBuf
        /\ \A e \in Clients : e # p => toC'[e] = toC[e]
        /\ toC'[p] = IF Closed(p) THEN toC[p] ELSE toC[p] \o bs
    <2>1. ServerSends(p, bs) /\ Len(toC[p]) + Len(bs) <= SockBuf
      BY <1>4, <1>7
    <2> HIDE DEF bs
    <2>2. QED
      BY <1>1, <1>7, <2>1, SendKeepsStreams
  <1>9. /\ cpc' = cpc /\ gen' = gen /\ size' = size /\ toS' = toS /\ msg' = msg /\ done' = done
        /\ delivered' = delivered
    BY <1>2 DEF client
  <1>10. Types'
    <2>1. spc' \in {"accept", "ident", "request", "header", "payload", "extract", "output", "ack", "exited"}
      BY <1>6
    <2>2. QED
      BY <1>1, <1>2, <1>6, <1>8, <2>1 DEF Types, client, setup
  <1>11. Lengths'
    BY <1>1, <1>2, <1>8, ServerLengths DEF Lengths
  <1>12. Members' /\ Queue' /\ Identification' /\ Silence'
    <2>1. Talking(p)'
      BY <1>6 DEF Talking
    <2>2. QED
      BY <1>1, <1>2, <1>3, <1>6, <1>8, <1>9, <2>1, RoundStep
  <1>13. \A q \in Nat : q <= Hdr + need =>
           Bytes(OutMsg, q + 1, Hdr + need) \o bs = Bytes(OutMsg, q + 1, Hdr + need + k)
    <2>1. \A q \in Nat, r \in Nat, z \in Nat : q <= r /\ r <= z =>
            Bytes(OutMsg, q + 1, r) \o Bytes(OutMsg, r + 1, z) = Bytes(OutMsg, q + 1, z)
      <3>1. OutMsg \in Message
        BY <1>5
      <3>2. QED
        BY ONLY <3>1, BytesConcat
    <2>2. Hdr + need \in Nat /\ Hdr + need + k \in Nat /\ Hdr + need <= Hdr + need + k
      BY <1>5
    <2>3. QED
      BY <2>1, <2>2
  <1> HIDE DEF bs
  <1>14. Unread(p)' \/ Taking(p)' \/ Gone(p)'
    <2>1. Unread(p) \/ Taking(p) \/ Gone(p)
      BY <1>1, <1>2, <1>3 DEF Session, Handover, HasAll, Acking
    <2>2. CASE Gone(p)
      BY <1>8, <1>9, <2>2 DEF Gone, Closed
    <2>3. CASE Unread(p)
      <3>1. Bytes(OutMsg, 0 + 1, Hdr + need) \o bs = Bytes(OutMsg, 0 + 1, Hdr + need + k)
        <4>1. 0 \in Nat /\ 0 <= Hdr + need
          BY <1>5
        <4>2. QED
          BY <1>13, <4>1
      <3>2. toC'[p] = Bytes(OutMsg, 1, Hdr + need + k)
        BY <1>6, <1>8, <2>3, <3>1 DEF Unread, Closed
      <3>3. QED
        BY <1>6, <1>9, <2>3, <3>2 DEF Unread
    <2>4. CASE Taking(p)
      <3>1. Len(done[p]) \in Nat /\ Len(done[p]) <= need /\ Hdr + Len(done[p]) \in Nat
            /\ Hdr + Len(done[p]) <= Hdr + need /\ Len(done[p]) <= need + k
        <4>1. Len(done[p]) \in Nat
          BY <1>1 DEF Types
        <4>2. QED
          BY <1>5, <2>4, <4>1 DEF Taking
      <3>2. toC'[p] = Bytes(OutMsg, Hdr + Len(done[p]) + 1, Hdr + need + k)
        BY <1>6, <1>8, <1>13, <2>4, <3>1 DEF Taking, Closed
      <3>3. QED
        BY <1>4, <1>6, <1>9, <2>4, <3>1, <3>2 DEF Taking, Reading
    <2>5. QED
      BY <2>1, <2>2, <2>3, <2>4
  <1>15. Handover'
    BY <1>6, <1>14 DEF Handover
  <1>16. Exchange'
    BY <1>6 DEF Exchange
  <1>17. Round'
    <2>1. Follows(taken[1])' = Follows(taken[1])
      BY <1>2 DEF Follows
    <2>2. QED
      BY <1>1, <1>2, <1>6, <2>1 DEF Session, Round, setup
  <1>18. Offers'
    BY <1>1, <1>2, <1>6, <1>9, OffersKept DEF Session
  <1>19. QED
    BY <1>6, <1>10, <1>11, <1>12, <1>15, <1>16, <1>17, <1>18 DEF Inv, Session

\* The acknowledgement is the one the server waits for; it ends the round.
LEMMA RecvAckKeepsInv ==
  ASSUME Inv, RecvAck
  PROVE  Inv' /\ (~fragment => Up')
  <1>1. Types /\ Lengths /\ Session /\ InRounds /\ Up
    BY DEF Inv, RecvAck, Up, InRounds
  <1>2. spc = "ack" /\ UNCHANGED client /\ UNCHANGED <<backlog, setup, killed>>
    BY DEF RecvAck
  <1>3. PICK p \in Clients : p = Peer /\ Serving(p)
    BY <1>1, RolesServed DEF Session
  <1>4. PICK bs \in ReceivedHeader(toS[p]) :
          IF IsHeader(bs) /\ bs[1][1].kind = "oa" /\ bs[1][1].len = OutLen
          THEN /\ toS' = [toS EXCEPT ![p] = Rest(@, bs)]
               /\ acked' = taken /\ spc' = "request" /\ step' = "c" /\ n' = 0
               /\ UNCHANGED <<accepted, fd, cur, need, got, dataBuf, taken, toC>>
          ELSE ServerExits
    BY <1>3 DEF RecvAck
  <1>5. toS[p] # <<>>
    <2>1. \A w \in Nat : toS[p] = <<>> => ReceivedHeader(toS[p]) = {}
      BY NothingReceived
    <2>2. QED
      BY <1>4, <2>1
  <1>6. Acking(p)
    BY <1>1, <1>2, <1>3, <1>5 DEF Session, Handover, Unread, Taking, HasAll, Gone
  <1>7. AckMsg \in Message /\ AckMsg.kind = "oa" /\ AckMsg.len = OutLen
    BY <1>1, OwnMessages
  <1>8. bs[1][1] = AckMsg /\ (~fragment => IsHeader(bs)) /\ (IsHeader(bs) => Rest(toS[p], bs) = <<>>)
    <2>1. bs \in ReceivedHeader(Bytes(AckMsg, 1, Hdr)) /\ toS[p] = Bytes(AckMsg, 1, Hdr)
      BY <1>4, <1>6 DEF Acking
    <2>2. QED
      BY <1>7, <2>1, WholeHeader
  <1>9. CASE IsHeader(bs)
    <2>1. /\ toS' = [toS EXCEPT ![p] = <<>>]
          /\ acked' = taken /\ spc' = "request" /\ step' = "c" /\ n' = 0
          /\ UNCHANGED <<accepted, fd, cur, need, got, dataBuf, taken, toC>>
      BY <1>4, <1>7, <1>8, <1>9
    <2>2. cpc' = cpc /\ gen' = gen /\ size' = size
      BY <1>2 DEF client
    <2>3. /\ toS' \in [Clients -> Seq(Byte)] /\ \A e \in Clients : Len(toS'[e]) <= SockBuf
          /\ \A e \in Clients : e # p => toS'[e] = toS[e]
          /\ toS'[p] = <<>>
      <3>1. <<>> \in Seq(Byte) /\ Len(<<>>) = 0 /\ toS[p] \in Seq(Byte)
        BY <1>1 DEF Types
      <3>2. Len(<<>>) <= Len(toS[p])
        BY <3>1
      <3>3. QED
        BY <1>1, <2>1, <3>1, <3>2, TakeKeepsStreams
    <2>4. InRounds' /\ Up' /\ ~Replied'
      BY <2>1 DEF InRounds, Up, Replied
    <2>5. Types'
      <3>1. taken \in Nat \X Nat
        BY <1>1 DEF Types
      <3>2. n' \in Nat /\ spc' \in {"accept", "ident", "request", "header", "payload", "extract", "output", "ack", "exited"}
        BY <2>1
      <3>3. QED
        BY <1>1, <1>2, <2>1, <2>3, <3>1, <3>2 DEF Types, client, setup
    <2>6. Lengths'
      BY <1>1, <1>2, <2>1, <2>3, ServerLengths DEF Lengths
    <2>7. Members' /\ Queue' /\ Identification' /\ Silence'
      <3>1. Quiet(p)'
        BY <1>3, <1>6, <2>1, <2>2, <2>3 DEF Quiet, Serving, Acking
      <3>2. QED
        BY <1>1, <1>2, <1>3, <2>1, <2>2, <2>3, <2>4, <3>1, RoundStep
    <2>8. Exchange' /\ Handover'
      BY <2>1 DEF Exchange, Handover
    <2>9. step = "o" /\ dataBuf = taken[1]
      BY <1>1, <1>2 DEF Session, Round
    <2>10. Round'
      BY <1>1, <2>1, <2>9 DEF Session, Round
    <2>11. Offers'
      <3>1. fd' = fd /\ Closed(fd["d"])' = Closed(fd["d"]) /\ Closed(fd["s"])' = Closed(fd["s"])
        BY <2>1, <2>2 DEF Closed
      <3>2. /\ ~Closed(fd["d"]) => gen[fd["d"]] = dataBuf
            /\ ~Closed(fd["s"]) => gen[fd["s"]] = taken[2]
        BY <1>1, <2>9 DEF Session, Offers
      <3>3. QED
        BY <2>1, <2>2, <2>4, <3>1, <3>2 DEF Offers
    <2>12. QED
      BY <2>4, <2>5, <2>6, <2>7, <2>8, <2>10, <2>11 DEF Inv, Session
  <1>10. CASE ~IsHeader(bs)
    <2>1. ServerExits
      BY <1>4, <1>10
    <2>2. killed' \subseteq Clients \cup {"server"}
      BY <1>1, <1>2 DEF Types
    <2>3. Inv'
      BY <1>1, <1>2, <2>1, <2>2, ServerEnd
    <2>4. QED
      BY <1>8, <1>10, <2>3
  <1>11. QED
    BY <1>9, <1>10

\* The server ends by itself only when the client it waits for has ended.
LEMMA ServerKeepsInv ==
  ASSUME Inv, ServerStep
  PROVE  /\ Inv' /\ Up
         /\ ~fragment /\ OneClientPerRole /\ ~ServerSeesEnd => Up'
  <1>1. CASE ServerSeesEnd
    <2>1. Up /\ ServerExits /\ UNCHANGED client /\ UNCHANGED <<backlog, setup, killed>>
      BY <1>1 DEF ServerSeesEnd, Up
    <2>2. killed' \subseteq Clients \cup {"server"}
      BY <2>1 DEF Inv, Types
    <2>3. QED
      BY <1>1, <2>1, <2>2, ServerEnd
  <1>2. CASE ~ServerSeesEnd
    <2>1. Up
      BY <1>2 DEF ServerStep, Up, Accept, Identify, Request, RecvHeader, RecvPayload, TakeReply, SendOutHeader,
                  SendOutput, RecvAck
    <2>2. CASE Accept \/ Identify
      BY <2>1, <2>2, AcceptKeepsInv, IdentifyKeepsInv
    <2>3. CASE Request \/ RecvHeader \/ RecvPayload \/ TakeReply
      BY <2>1, <2>3, RequestKeepsInv, RecvHeaderKeepsInv, RecvPayloadKeepsInv, TakeReplyKeepsInv
    <2>4. CASE SendOutHeader \/ SendOutput \/ RecvAck
      BY <2>1, <2>4, SendOutHeaderKeepsInv, SendOutputKeepsInv, RecvAckKeepsInv
    <2>5. QED
      BY <1>2, <2>2, <2>3, <2>4 DEF ServerStep
  <1>3. QED
    BY <1>1, <1>2

\* A stuttering step keeps everything.
LEMMA StutterKeepsInv ==
  ASSUME Inv, UNCHANGED vars
  PROVE  Inv'
  <1>1. /\ UNCHANGED server /\ UNCHANGED <<cpc, msg, done, size, gen, delivered, backlog, toS, toC>>
        /\ UNCHANGED <<fragment, dryRun, killed>>
    BY DEF vars, client, network, setup
  <1>2. /\ spc' = spc /\ step' = step /\ accepted' = accepted /\ fd' = fd /\ cur' = cur /\ need' = need
        /\ got' = got /\ n' = n /\ dataBuf' = dataBuf /\ taken' = taken /\ acked' = acked
    BY <1>1 DEF server
  <1>3. /\ Peer' = Peer /\ Up' = Up /\ InRounds' = InRounds /\ OutMsg' = OutMsg /\ Reply' = Reply
        /\ RequestMsg' = RequestMsg /\ Read' = Read /\ Sent' = Sent
    BY <1>1, ServerFrame
  <1>4. Types'
    BY <1>1, <1>2 DEF Inv, Types
  <1>5. Lengths'
    BY <1>1 DEF Inv, Lengths, Total
  <1>6. CASE ~Up
    <2>1. Aftermath'
      BY <1>1, <1>3, <1>6 DEF Inv, Aftermath, Left, Reading, IsHeader
    <2>2. QED
      BY <1>3, <1>4, <1>5, <1>6, <2>1 DEF Inv
  <1>7. CASE Up
    <2>1. Members' /\ Queue' /\ Identification' /\ Silence'
      BY <1>1, <1>2, <1>3, <1>7 DEF Inv, Session, Members, Queue, Identification, Silence, Count, Serving,
           Identifying, Talking, Quiet, WhoAreYou, RoleMsg
    <2>2. Exchange'
      BY <1>1, <1>2, <1>3, <1>7 DEF Inv, Session, Exchange, Asked, Answering, Total
    <2>3. Handover'
      BY <1>1, <1>2, <1>3, <1>7 DEF Inv, Session, Handover, Unread, Taking, HasAll, Acking, Gone, Reading, AckMsg
    <2>4. Round' /\ Offers'
      BY <1>1, <1>2, <1>3, <1>7 DEF Inv, Session, Round, Offers, Replied, Follows, Closed
    <2>5. QED
      BY <1>3, <1>4, <1>5, <1>7, <2>1, <2>2, <2>3, <2>4 DEF Inv, Session
  <1>8. QED
    BY <1>6, <1>7

\* Nobody is started.
LEMMA InvInitially == Init => Inv
  <1> SUFFICES ASSUME Init PROVE Inv
    OBVIOUS
  <1>1. Types
    <2>1. <<>> \in Seq(Byte) /\ <<>> \in Seq(Clients) /\ <<0, 0>> \in Nat \X Nat
      OBVIOUS
    <2>2. NoMsg \in Message
      <3>1. <<0, 0>> \in Int \X Int /\ "" \in Kinds /\ 0 \in Nat
        BY DEF Kinds
      <3>2. QED
        BY <3>1 DEF NoMsg, Msg, Message
    <2>3. size \in [Clients -> Int]
      <3>1. Garbage \cup {0} \subseteq Int
        BY Assumptions
      <3>2. size \in [Clients -> Garbage \cup {0}]
        BY DEF Init
      <3>3. QED
        BY <3>1, <3>2
    <2>4. fragment \in BOOLEAN /\ dryRun \in BOOLEAN /\ killed \subseteq Clients \cup {"server"}
      BY SessionAssumption DEF Init
    <2>5. fd \in [Roles -> Clients \cup {None}] /\ cur \in Clients \cup {None}
      BY DEF Init
    <2>6. /\ cpc \in [Clients -> {"new", "ident", "wait", "send", "recv", "ack", "exited"}]
          /\ gen \in [Clients -> Nat] /\ toS \in [Clients -> Seq(Byte)] /\ toC \in [Clients -> Seq(Byte)]
          /\ done \in [Clients -> Seq(Byte)] /\ msg \in [Clients -> Message]
      BY <2>1, <2>2 DEF Init
    <2>7. /\ spc = "accept" /\ step = "c" /\ accepted = 0 /\ backlog = <<>> /\ need = 0 /\ n = 0 /\ dataBuf = 0
          /\ taken = <<0, 0>> /\ got = <<>>
      BY DEF Init
    <2>8. accepted \in 0 .. 3
      BY <2>7
    <2>9. spc \in {"accept", "ident", "request", "header", "payload", "extract", "output", "ack", "exited"}
      BY <2>7
    <2>10. QED
      BY <2>1, <2>3, <2>4, <2>5, <2>6, <2>7, <2>8, <2>9 DEF Types
  <1>2. Lengths
    <2>1. Len(<<>>) = 0 /\ Hdr \in Nat /\ SockBuf \in Nat /\ NoMsg.len = 0
      BY <1>1, Assumptions, OwnMessages
    <2>2. QED
      BY <2>1 DEF Init, Lengths, Total
  <1>3. /\ spc = "accept" /\ step = "c" /\ accepted = 0 /\ backlog = <<>> /\ dataBuf = 0 /\ taken = <<0, 0>>
        /\ acked = taken /\ \A r \in Roles : fd[r] = None
        /\ \A c \in Clients : /\ toS[c] = <<>> /\ toC[c] = <<>> /\ cpc[c] = "new" /\ gen[c] = 0
    BY DEF Init
  <1>4. \A c \in Clients : ~Serving(c)
    <2>1. \A c \in Clients : Role[c] \in Roles /\ c # None
      BY Assumptions
    <2>2. QED
      BY <1>3, <2>1 DEF Serving
  <1>5. Members
    <2>1. Count("d") = 0 /\ Count("s") = 0 /\ Count("o") = 0
      BY <1>3 DEF Count, Roles
    <2>2. QED
      BY <1>3, <1>4, <2>1 DEF Members
  <1>6. Queue /\ Silence
    <2>1. Len(backlog) = 0
      BY <1>3
    <2>2. QED
      BY <1>3, <2>1 DEF Queue, Silence, Quiet
  <1>7. Identification /\ Exchange /\ Handover /\ Offers
    BY <1>3 DEF Identification, Exchange, Handover, Offers, InRounds
  <1>8. Round
    BY <1>3 DEF Round
  <1>9. Up
    BY <1>3 DEF Up
  <1>10. QED
    BY <1>1, <1>2, <1>5, <1>6, <1>7, <1>8, <1>9 DEF Inv, Session

\* Every step of the session keeps the invariant.
LEMMA NextKeepsInv ==
  ASSUME Inv, [Next]_vars
  PROVE  Inv'
  <1>1. CASE ServerStep
    BY <1>1, ServerKeepsInv
  <1>2. CASE KillServer
    <2>1. Up /\ ServerExits /\ UNCHANGED client /\ UNCHANGED <<backlog, setup>> /\ killed' = killed \cup {"server"}
      BY <1>2 DEF KillServer
    <2>2. killed' \subseteq Clients \cup {"server"}
      BY <2>1 DEF Inv, Types
    <2>3. QED
      BY <2>1, <2>2, ServerEnd
  <1>3. CASE AllExited \/ UNCHANGED vars
    BY <1>3, StutterKeepsInv DEF AllExited
  <1>4. ASSUME NEW c \in Clients, Connect(c) \/ ClientStep(c) \/ KillClient(c) PROVE Inv'
    BY <1>4, ClientKeepsInvUp, ClientKeepsInvDown
  <1>5. QED
    BY <1>1, <1>2, <1>3, <1>4 DEF Next

(***************************************************************************)
(* Whatever the clients and the network do, the bytes in flight on every   *)
(* connection are those of the message its two ends are exchanging.        *)
(***************************************************************************)
THEOREM Invariance == Spec => []Inv
  <1>1. Inv /\ [Next]_vars => Inv'
    BY NextKeepsInv
  <1>2. QED
    BY <1>1, InvInitially, PTL DEF Spec

-----------------------------------------------------------------------------
(* What follows from the invariant *)

\* The types are part of the invariant.
LEMMA InvImpliesTypeOK == Inv => TypeOK
  <1> SUFFICES ASSUME Inv PROVE TypeOK
    OBVIOUS
  <1>1. Types /\ Lengths
    BY DEF Inv
  <1>2. spc = "payload" => Len(got) <= need
    BY DEF Inv, Up, Session, Exchange
  <1>3. spc \in {"output", "ack"} => need <= OutLen
    BY DEF Inv, Up, Session, Handover
  <1>4. ASSUME NEW c \in Clients
        PROVE  /\ cpc[c] \in {"new", "ident", "wait", "send", "recv", "ack", "exited"}
               /\ \A k \in 1 .. Len(toS[c]) : IsByte(toS[c][k])
               /\ \A k \in 1 .. Len(toC[c]) : IsByte(toC[c][k])
    <2>1. toS[c] \in Seq(Byte) /\ toC[c] \in Seq(Byte)
      BY <1>1 DEF Types
    <2>2. /\ \A k \in 1 .. Len(toS[c]) : toS[c][k] \in Byte
          /\ \A k \in 1 .. Len(toC[c]) : toC[c][k] \in Byte
      BY <2>1
    <2>3. QED
      BY <1>1, <2>2, ByteForm DEF Types
  <1>5. QED
    BY <1>1, <1>2, <1>3, <1>4 DEF Types, Lengths, TypeOK

\* What has arrived of a payload is the beginning of the reply due.
LEMMA InvImpliesReplyFits == Inv => ReplyFitsRequest
  <1> SUFFICES ASSUME Inv, spc = "payload"
               PROVE  need = ReplyDue.len /\ got = Bytes(ReplyDue, Hdr + 1, Hdr + Len(got))
    BY DEF ReplyFitsRequest
  <1>1. /\ Types /\ step # "o" /\ (step = "d" => n = DataLen)
        /\ need = Reply.len /\ got = Bytes(Reply, Hdr + 1, Hdr + Len(got))
    BY DEF Inv, Up, Session, Exchange, Round
  <1>2. CASE step = "c"
    <2>1. ReplyDue = Reply
      BY <1>2, Zenon DEF ReplyDue, Reply
    <2>2. QED
      BY <1>1, <2>1
  <1>3. CASE step = "d"
    <2>1. Requested = n
      BY <1>3, Zenon DEF Requested
    <2>2. ReplyDue = Msg("d", Requested, <<Follows(dataBuf), 0>>)
      BY <1>3, Zenon DEF ReplyDue
    <2>3. Reply = Msg("d", DataLen, <<Follows(dataBuf), 0>>)
      BY <1>3, Zenon DEF Reply
    <2>4. ReplyDue = Reply
      BY ONLY <1>1, <1>3, <2>1, <2>2, <2>3, Zenon
    <2>5. QED
      BY <1>1, <2>4
  <1>4. CASE step = "s"
    <2>1. Requested = SeedLen
      BY <1>4, Zenon DEF Requested
    <2>2. ReplyDue = Msg("s", Requested, <<Follows(taken[2]), 0>>)
      BY <1>4, Zenon DEF ReplyDue
    <2>3. Reply = Msg("s", SeedLen, <<Follows(taken[2]), 0>>)
      BY <1>4, Zenon DEF Reply
    <2>4. ReplyDue = Reply
      BY ONLY <2>1, <2>2, <2>3, Zenon
    <2>5. QED
      BY <1>1, <2>4
  <1>5. QED
    BY <1>1, <1>2, <1>3, <1>4 DEF Types

\* Where the server is tells where its peer is.
LEMMA InvImpliesLockstep == Inv => Lockstep
  <1> SUFFICES ASSUME Inv PROVE Lockstep
    OBVIOUS
  <1> DEFINE working == {c \in Clients : cpc[c] \in {"send", "recv", "ack"}}
  <1>1. ASSUME spc \in {"request", "extract"}, NEW r \in Roles
        PROVE  toS[fd[r]] = <<>> /\ (~Closed(fd[r]) => cpc[fd[r]] = "wait")
    <2>1. Types /\ Session /\ InRounds
      BY <1>1 DEF Inv, Up, InRounds
    <2>2. PICK c \in Clients : c = fd[r] /\ Serving(c)
      BY <2>1, RolesServed DEF Session
    <2>3. Quiet(c)
      BY <1>1, <2>1 DEF Session, Silence, Talking, Identifying
    <2>4. cpc[c] \notin {"new", "ident"}
      BY <2>1, <2>2 DEF Session, Members
    <2>5. QED
      BY <2>1, <2>2, <2>3, <2>4 DEF Quiet, Closed, Types
  <1>2. ASSUME Up PROVE Cardinality(working) <= 1
    <2>1. Types /\ Session
      BY <1>2 DEF Inv
    <2>2. working \in SUBSET {Peer}
      BY <1>2, <2>1, Situation DEF Talking
    <2>3. IsFiniteSet({Peer}) /\ Cardinality({Peer}) = 1
      BY FS_Singleton
    <2> HIDE DEF working
    <2>4. Cardinality(working) <= Cardinality({Peer})
      BY <2>2, <2>3, FS_Subset
    <2>5. QED
      BY <2>3, <2>4
  <1>3. QED
    BY <1>1, <1>2 DEF Lockstep

(***************************************************************************)
(* The loops over header, payload and output never pass the length they    *)
(* were told, in any interleaving and however the network splits the       *)
(* bytes: accum <= len in stream_ops.cc and stream_tst_data.c.             *)
(***************************************************************************)
THEOREM TypeCorrect == Spec => []TypeOK
  BY Invariance, InvImpliesTypeOK, PTL

(***************************************************************************)
(* What the server has read of a payload is the beginning of the reply to  *)
(* its last request: the next block of the client it asked, in order, no   *)
(* byte missing or repeated, and as long as asked for, so that the buffer  *)
(* sized from the request holds it.                                        *)
(***************************************************************************)
THEOREM ReplyAlwaysFits == Spec => []ReplyFitsRequest
  BY Invariance, InvImpliesReplyFits, PTL

(***************************************************************************)
(* When the server sends a request nothing is left of an earlier exchange  *)
(* on any connection, and only the client it talks to is working.          *)
(***************************************************************************)
THEOREM LockstepKept == Spec => []Lockstep
  BY Invariance, InvImpliesLockstep, PTL

-----------------------------------------------------------------------------
(* Nobody ends by himself *)

\* The server's steps leave the clients' variables alone.
LEMMA ServerFrameClients ==
  ASSUME ServerStep
  PROVE  UNCHANGED client /\ UNCHANGED setup /\ UNCHANGED killed
  <1>1. CASE Accept \/ Identify \/ Request \/ RecvHeader \/ RecvPayload
    BY <1>1 DEF Accept, Identify, Request, RecvHeader, RecvPayload
  <1>2. CASE TakeReply \/ SendOutHeader \/ SendOutput \/ RecvAck \/ ServerSeesEnd
    BY <1>2 DEF TakeReply, SendOutHeader, SendOutput, RecvAck, ServerSeesEnd
  <1>3. QED
    BY <1>1, <1>2 DEF ServerStep

\* The client the server waits for is one of the clients.
LEMMA WaitingForClient ==
  ASSUME Inv, ServerSeesEnd
  PROVE  Waiting \in Clients /\ Closed(Waiting)
  <1>1. Types /\ Session /\ Closed(Waiting) /\ spc \notin {"accept", "exited"}
    BY DEF Inv, ServerSeesEnd, Up
  <1>2. CASE spc = "ident"
    BY <1>1, <1>2 DEF Session, Members, Waiting
  <1>3. CASE spc # "ident"
    BY <1>1, <1>3, RolesServed DEF InRounds, Session, Waiting
  <1>4. QED
    BY <1>1, <1>2, <1>3

\* While headers come whole and the server runs, no step of a client ends it.
LEMMA ClientStays ==
  ASSUME Inv, Up, ~fragment, NEW c \in Clients, ~Closed(c), Connect(c) \/ ClientStep(c)
  PROVE  cpc'[c] # "exited"
  <1>1. cpc \in [Clients -> {"new", "ident", "wait", "send", "recv", "ack", "exited"}] /\ cpc[c] # "exited"
    BY DEF Inv, Types, Closed
  <1>2. CASE Connect(c)
    BY <1>1, <1>2 DEF Connect
  <1>3. CASE TellRole(c) \/ RecvRequest(c)
    BY <1>3, TellRoleKeepsSession, RecvRequestKeepsSession
  <1>4. CASE SendReply(c)
    BY <1>1, <1>4 DEF SendReply
  <1>5. CASE RecvOutput(c)
    BY <1>1, <1>5 DEF RecvOutput
  <1>6. CASE SendAck(c)
    BY <1>1, <1>6 DEF SendAck
  <1>7. ~ClientSeesEnd(c)
    BY DEF ClientSeesEnd
  <1>8. QED
    BY <1>2, <1>3, <1>4, <1>5, <1>6, <1>7 DEF ClientStep

\* No step of a calm session ends a process.
LEMMA CalmKept ==
  ASSUME Calm, [Next]_vars
  PROVE  Calm'
  <1>1. Inv /\ Inv'
    BY NextKeepsInv DEF Calm
  <1>2. ASSUME ~fragment', killed' = {}, OneClientPerRole' PROVE NobodyExits'
    <2>1. CASE ServerStep
      <3>1. UNCHANGED client /\ UNCHANGED setup /\ UNCHANGED killed
        BY <2>1, ServerFrameClients
      <3>2. cpc' = cpc /\ fragment' = fragment /\ killed' = killed
        BY <3>1 DEF client, setup
      <3>3. OneClientPerRole
        BY <1>2, <3>2 DEF OneClientPerRole
      <3>4. NobodyExits
        BY <1>2, <3>2, <3>3 DEF Calm, NoSpontaneousExit
      <3>5. ~ServerSeesEnd
        BY <1>1, <3>4, WaitingForClient DEF NobodyExits
      <3>6. Up'
        BY <1>1, <1>2, <2>1, <3>2, <3>3, <3>5, ServerKeepsInv
      <3>7. QED
        BY <3>2, <3>4, <3>6 DEF NobodyExits, Closed
    <2>2. CASE KillServer
      BY <1>2, <2>2 DEF KillServer
    <2>3. CASE AllExited \/ UNCHANGED vars
      <3>1. UNCHANGED vars
        BY <2>3 DEF AllExited
      <3>2. cpc' = cpc /\ fragment' = fragment /\ killed' = killed /\ spc' = spc
        BY <3>1 DEF vars, client, server, setup
      <3>3. OneClientPerRole
        BY <1>2, <3>2 DEF OneClientPerRole
      <3>4. NobodyExits
        BY <1>2, <3>2, <3>3 DEF Calm, NoSpontaneousExit
      <3>5. QED
        BY <3>2, <3>4 DEF NobodyExits, Closed, Up
    <2>4. ASSUME NEW c \in Clients, KillClient(c) PROVE FALSE
      BY <1>2, <2>4 DEF KillClient
    <2>5. ASSUME NEW c \in Clients, Connect(c) \/ ClientStep(c) PROVE NobodyExits'
      <3>1. Moves(c) /\ killed' = killed
        <4>1. Moves(c)
          BY <1>1, <2>5, ClientStepMoves DEF Inv
        <4>2. killed' = killed
          BY <2>5 DEF Connect, ClientStep, TellRole, RecvRequest, SendReply, RecvOutput, SendAck, ClientSeesEnd
        <4>3. QED
          BY <4>1, <4>2
      <3>2. fragment' = fragment /\ spc' = spc /\ cpc'[c] # "new" /\ \A e \in Clients : e # c => cpc'[e] = cpc[e]
        BY <3>1 DEF Moves, setup, server
      <3>3. OneClientPerRole
        BY <1>2, <3>2 DEF OneClientPerRole
      <3>4. NobodyExits
        BY <1>2, <3>1, <3>2, <3>3 DEF Calm, NoSpontaneousExit
      <3>5. cpc'[c] # "exited"
        BY <1>1, <1>2, <2>5, <3>2, <3>4, ClientStays DEF NobodyExits
      <3>6. QED
        BY <3>2, <3>4, <3>5 DEF NobodyExits, Closed, Up
    <2>6. QED
      BY <2>1, <2>2, <2>3, <2>4, <2>5 DEF Next
  <1>3. NoSpontaneousExit'
    BY <1>2 DEF NoSpontaneousExit
  <1>4. QED
    BY <1>1, <1>3 DEF Calm

(***************************************************************************)
(* As long as headers come whole, no role is claimed twice and nothing is  *)
(* ended from outside, no check of a header, a length, a role or an        *)
(* acknowledgement fails: neither the server nor a client ever exits.      *)
(***************************************************************************)
THEOREM NobodyExitsAlone == Spec => []NoSpontaneousExit
  <1>1. Init => Calm
    <2>1. Init => NobodyExits
      <3> SUFFICES ASSUME Init PROVE NobodyExits
        OBVIOUS
      <3>1. spc = "accept" /\ \A c \in Clients : cpc[c] = "new"
        BY DEF Init
      <3>2. QED
        BY <3>1 DEF NobodyExits, Up, Closed
    <2>2. QED
      BY <2>1, InvInitially DEF Calm, NoSpontaneousExit
  <1>2. Calm /\ [Next]_vars => Calm'
    BY CalmKept
  <1>3. Calm => NoSpontaneousExit
    BY DEF Calm
  <1>4. QED
    BY <1>1, <1>2, <1>3, PTL DEF Spec

-----------------------------------------------------------------------------
(* The session implements the rounds of StreamRounds *)

\* What the output client ends up with is what the last extraction used.
LEMMA OutputDelivered ==
  ASSUME Inv, NEW c \in Clients, RecvOutput(c)
  PROVE  delivered' = delivered \/ delivered' = taken
  <1>1. Types /\ cpc[c] = "recv"
    BY DEF Inv, RecvOutput
  <1>2. /\ OutMsg \in Message /\ Hdr \in Nat /\ OutLen \in Nat /\ Len(done[c]) \in Nat /\ need \in Nat
    BY <1>1, OwnMessages, Assumptions DEF Types
  <1>3. Reading(c)
    <2>1. CASE Up
      BY <1>1, <2>1, Situation DEF Inv, Taking
    <2>2. CASE ~Up
      BY <1>1, <2>2 DEF Inv, Aftermath
    <2>3. QED
      BY <2>1, <2>2
  <1>4. toC[c] # <<>>
    <2>1. \E bs : bs \in Received(toC[c], Chunk(OutLen - Len(done[c])))
      BY <1>1, <1>3, RecvOutputTurn
    <2>2. Chunk(OutLen - Len(done[c])) \in Nat
      <3>1. OutLen - Len(done[c]) \in Nat
        BY <1>2, <1>3 DEF Reading
      <3>2. QED
        BY <3>1, ChunkBound
    <2>3. QED
      BY <2>1, <2>2, NothingReceived
  <1>5. PICK e \in Nat : Len(done[c]) <= e /\ toC[c] = Bytes(OutMsg, Hdr + Len(done[c]) + 1, Hdr + e)
    <2>1. CASE Up
      <3>1. Len(done[c]) <= need /\ toC[c] = Bytes(OutMsg, Hdr + Len(done[c]) + 1, Hdr + need)
        BY <1>1, <2>1, Situation DEF Inv, Taking, Sent
      <3>2. QED
        BY <1>2, <3>1
    <2>2. CASE ~Up
      <3>1. PICK q \in Hdr + Len(done[c]) .. Hdr + OutLen : toC[c] = Bytes(OutMsg, Hdr + Len(done[c]) + 1, q)
        BY <1>1, <1>4, <2>2 DEF Inv, Aftermath, Left
      <3>2. q - Hdr \in Nat /\ q = Hdr + (q - Hdr) /\ Len(done[c]) <= q - Hdr
        BY <1>2
      <3>3. QED
        BY <3>1, <3>2
    <2>3. QED
      BY <2>1, <2>2
  <1>6. \E k \in Nat : IF k < OutLen THEN cpc' = cpc /\ delivered' = delivered
                       ELSE cpc'[c] = "ack" /\ delivered' = taken
    BY <1>1, <1>3, <1>5, OutputTurn
  <1>7. QED
    BY <1>6

\* Of a client's steps StreamRounds sees only that the output has arrived.
LEMMA ClientStepRounds ==
  ASSUME Inv, NEW c \in Clients, Connect(c) \/ ClientStep(c) \/ KillClient(c)
  PROVE  [Rounds!Next]_Rounds!vars
  <1>1. UNCHANGED server
    BY ClientStepMoves DEF Inv, Moves
  <1>2. taken' = taken /\ acked' = acked /\ (~Up)' = ~Up
    BY <1>1 DEF server, Up
  <1>3. delivered' = delivered \/ delivered' = taken
    <2>1. CASE RecvOutput(c)
      BY <2>1, OutputDelivered
    <2>2. CASE ~RecvOutput(c)
      BY <2>2 DEF Connect, KillClient, ClientStep, TellRole, RecvRequest, SendReply, SendAck, ClientSeesEnd,
           ClientExits
    <2>3. QED
      BY <2>1, <2>2
  <1>4. CASE delivered' = delivered
    BY <1>2, <1>4 DEF Rounds!vars
  <1>5. CASE delivered' # delivered
    <2>1. Rounds!Deliver
      BY <1>2, <1>3, <1>5 DEF Rounds!Deliver
    <2>2. QED
      BY <2>1 DEF Rounds!Next
  <1>6. QED
    BY <1>4, <1>5

\* The end of the server is the end of the rounds.
LEMMA ServerEndRounds ==
  ASSUME Up, ServerExits, UNCHANGED client
  PROVE  [Rounds!Next]_Rounds!vars
  <1>1. taken' = taken /\ acked' = acked /\ delivered' = delivered /\ ~Up'
    BY DEF ServerExits, client, Up
  <1>2. Rounds!Stop
    BY <1>1 DEF Rounds!Stop
  <1>3. QED
    BY <1>2 DEF Rounds!Next

\* With the seed a round has taken its data and its seed.
LEMMA TakeReplyRounds ==
  ASSUME Inv, TakeReply
  PROVE  [Rounds!Next]_Rounds!vars
  <1>1. Types /\ Session /\ Up /\ Up'
    BY TakeReplyKeepsInv DEF Inv, TakeReply, Up
  <1>2. delivered' = delivered
    BY DEF TakeReply, client
  <1>3. step # "o" /\ Taken /\ acked' = acked
    <2>1. step # "o" /\ Taken
      BY ReplyTaken
    <2>2. QED
      BY <2>1, Zenon DEF Taken
  <1>4. CASE step = "s"
    <2>1. taken' = <<dataBuf, Follows(taken[2])>>
      BY <1>3, <1>4, Zenon DEF Taken
    <2>2. dataBuf = Follows(taken[1]) /\ acked = taken
      BY <1>1, <1>4 DEF Session, Round
    <2>3. taken' = Rounds!Fresh(taken)
      BY <2>1, <2>2 DEF Rounds!Fresh, Follows
    <2>4. Rounds!Take
      BY <1>1, <1>2, <1>3, <2>2, <2>3 DEF Rounds!Take
    <2>5. QED
      BY <2>4 DEF Rounds!Next
  <1>5. CASE step # "s"
    <2>1. taken' = taken
      <3>1. CASE step = "c"
        BY <1>3, <3>1, Zenon DEF Taken
      <3>2. CASE step = "d"
        BY <1>3, <3>2, Zenon DEF Taken
      <3>3. QED
        BY <1>1, <1>3, <1>5, <3>1, <3>2 DEF Types
    <2>2. QED
      BY <1>1, <1>2, <1>3, <2>1 DEF Rounds!vars
  <1>6. QED
    BY <1>4, <1>5

\* The round is acknowledged.
LEMMA RecvAckRounds ==
  ASSUME Inv, RecvAck
  PROVE  [Rounds!Next]_Rounds!vars
  <1>1. Types /\ Session /\ InRounds /\ Up /\ spc = "ack" /\ UNCHANGED client
    BY DEF Inv, RecvAck, Up, InRounds
  <1>2. PICK bs \in ReceivedHeader(toS[Peer]) :
          \/ acked' = taken /\ spc' = "request" /\ taken' = taken
          \/ ServerExits
    BY DEF RecvAck
  <1>3. CASE ServerExits
    BY <1>1, <1>3, ServerEndRounds
  <1>4. CASE ~ServerExits
    <2>1. acked' = taken /\ taken' = taken /\ Up' /\ delivered' = delivered
      BY <1>1, <1>2, <1>4 DEF Up, client
    <2>2. toS[Peer] # <<>>
      <3>1. \A w \in Nat : toS[Peer] = <<>> => ReceivedHeader(toS[Peer]) = {}
        BY NothingReceived
      <3>2. QED
        BY <1>2, <3>1
    <2>3. delivered = taken
      BY <1>1, <2>2 DEF Session, Handover, Unread, Taking, HasAll, Gone, Acking
    <2>4. CASE acked = delivered
      BY <1>1, <2>1, <2>3, <2>4 DEF Rounds!vars
    <2>5. CASE acked # delivered
      <3>1. Rounds!Acknowledge
        BY <1>1, <2>1, <2>3, <2>5 DEF Rounds!Acknowledge
      <3>2. QED
        BY <3>1 DEF Rounds!Next
    <2>6. QED
      BY <2>4, <2>5
  <1>5. QED
    BY <1>3, <1>4

\* Every step of the server.
LEMMA ServerStepRounds ==
  ASSUME Inv, ServerStep
  PROVE  [Rounds!Next]_Rounds!vars
  <1>1. Up /\ UNCHANGED client
    BY ServerKeepsInv, ServerFrameClients
  <1>2. CASE ServerExits
    BY <1>1, <1>2, ServerEndRounds
  <1>3. CASE ~ServerExits /\ ~TakeReply /\ ~RecvAck
    <2>1. spc' # "exited" /\ taken' = taken /\ acked' = acked
      <3>1. CASE Accept
        BY <3>1 DEF Accept
      <3>2. CASE Identify
        BY <1>3, <3>2 DEF Identify
      <3>3. CASE Request
        BY <3>3 DEF Request
      <3>4. CASE RecvHeader
        BY <1>3, <3>4 DEF RecvHeader
      <3>5. CASE RecvPayload
        BY <3>5 DEF RecvPayload
      <3>6. CASE SendOutHeader \/ SendOutput
        BY <3>6 DEF SendOutHeader, SendOutput
      <3>7. ~ServerSeesEnd
        BY <1>3 DEF ServerSeesEnd
      <3>8. QED
        BY <1>3, <3>1, <3>2, <3>3, <3>4, <3>5, <3>6, <3>7 DEF ServerStep
    <2>2. delivered' = delivered /\ Up'
      BY <1>1, <2>1 DEF client, Up
    <2>3. QED
      BY <1>1, <2>1, <2>2 DEF Rounds!vars
  <1>4. QED
    BY <1>2, <1>3, TakeReplyRounds, RecvAckRounds

\* Every step.
LEMMA StepRounds ==
  ASSUME Inv, [Next]_vars
  PROVE  [Rounds!Next]_Rounds!vars
  <1>1. CASE ServerStep
    BY <1>1, ServerStepRounds
  <1>2. CASE KillServer
    BY <1>2, ServerEndRounds DEF KillServer
  <1>3. CASE AllExited \/ UNCHANGED vars
    <2>1. UNCHANGED vars
      BY <1>3 DEF AllExited
    <2>2. taken' = taken /\ acked' = acked /\ delivered' = delivered /\ spc' = spc
      BY <2>1 DEF vars, server, client
    <2>3. QED
      BY <2>2 DEF Rounds!vars, Up
  <1>4. ASSUME NEW c \in Clients, Connect(c) \/ ClientStep(c) \/ KillClient(c) PROVE [Rounds!Next]_Rounds!vars
    BY <1>4, ClientStepRounds
  <1>5. QED
    BY <1>1, <1>2, <1>3, <1>4 DEF Next

(***************************************************************************)
(* The session implements the rounds: every output handed over was         *)
(* computed from the one fresh data block and the one fresh seed of its    *)
(* round, and was acknowledged before the next round takes anything.       *)
(***************************************************************************)
THEOREM SessionImplementsRounds == Spec => ImplementsStreamRounds
  <1>1. Init => Rounds!Init
    BY DEF Init, Rounds!Init, Up
  <1>2. Inv /\ [Next]_vars => [Rounds!Next]_Rounds!vars
    BY StepRounds
  <1>3. QED
    BY <1>1, <1>2, Invariance, PTL DEF Spec, ImplementsStreamRounds, Rounds!Spec

=============================================================================
