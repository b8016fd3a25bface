------------------------- MODULE Socks5_reply_proofs -------------------------
(***************************************************************************)
(* Proofs about the bytes Socks5() reads: on a build where plain char is   *)
(* unsigned, a handshake that returns true has read exactly one RFC 1928   *)
(* reply, and no read of the bound address overruns pchRet3.  On a signed  *)
(* build both fail (the two signed-build runs); the byte-counting         *)
(* GotShape below holds on both.                                           *)
(***************************************************************************)
EXTENDS Socks5_proofs

\* 05 00 then 05 00 00 ATYP with a known address type: the header checks passed.
Header(g) ==
    /\ Len(g) >= 6
    /\ g[1] = 5 /\ g[2] = 0 /\ g[3] = 5 /\ g[4] = 0 /\ g[5] = 0
    /\ g[6] \in {1, 3, 4}

\* The bytes read before the bound address: the header, and a domain's length byte.
HdrLen(g) == IF g[6] = 3 THEN 7 ELSE 6

\* The length the code asks recv() for: 4, 16, or the length byte read as a char.
AddrNeed(g) == CASE g[6] = 1 -> 4
                 [] g[6] = 4 -> 16
                 [] OTHER    -> AsChar(g[7])

\* What a read of n bytes that returned n added to the stream read so far.
Pos(n) == IF n > 0 THEN n ELSE 0

(***************************************************************************)
(* What Socks5() has read at each statement: nothing before the method     *)
(* reply, 05 00 up to the reply header, the checked header (and length     *)
(* byte) when it asks for the bound address, and exactly nRecv more bytes  *)
(* from then on, plus the 2-byte port on success.                          *)
(***************************************************************************)
GotShape ==
    /\ pc \in {"request", "replyHdr"} => got = <<5, 0>>
    /\ pc = "dlen" => got = <<5, 0, 5, 0, 0, 3>>
    /\ pc \in {"addr", "port"} \/ result = "ok" =>
          /\ Header(got) /\ Len(got) >= HdrLen(got)
          /\ nRecv = AddrNeed(got)
    /\ pc = "addr" => Len(got) = HdrLen(got)
    /\ pc = "port" => Len(got) = HdrLen(got) + Pos(nRecv)
    /\ result = "ok" => Len(got) = HdrLen(got) + Pos(nRecv) + 2

\* On an unsigned build nRecv is never negative and no read overruns pchRet3.
UnsignedRead == ~CharSigned => nRecv \in 0..255 /\ ~overrun

RInv == IInv /\ GotShape /\ UnsignedRead

-----------------------------------------------------------------------------
\* Reading more bytes after a checked header keeps the header, and what it says.
LEMMA AppendAfterHeader ==
    ASSUME NEW g \in Seq(Byte), NEW t \in Seq(Byte), Header(g), Len(g) >= HdrLen(g)
    PROVE  /\ Header(g \o t)
           /\ HdrLen(g \o t) = HdrLen(g)
           /\ AddrNeed(g \o t) = AddrNeed(g)
           /\ Len(g \o t) = Len(g) + Len(t)
<1>1. \A i \in 1..Len(g) : (g \o t)[i] = g[i]
    OBVIOUS
<1>2. Len(g \o t) = Len(g) + Len(t)
    OBVIOUS
<1>3. g[6] = 3 => 7 \in 1..Len(g)
    BY DEF HdrLen, Header
<1> QED
    BY <1>1, <1>2, <1>3 DEF Header, HdrLen, AddrNeed

\* Appending bytes to bytes gives bytes, as long as both together.
LEMMA ConcatBytes ==
    ASSUME NEW a \in Seq(Byte), NEW b \in Seq(Byte)
    PROVE  a \o b \in Seq(Byte) /\ Len(a \o b) = Len(a) + Len(b)
OBVIOUS

\* Two sequences of bytes of the same length and the same elements are equal.
LEMMA SeqEqual ==
    ASSUME NEW a \in Seq(Byte), NEW b \in Seq(Byte), Len(a) = Len(b),
           \A i \in 1..Len(a) : a[i] = b[i]
    PROVE  a = b
OBVIOUS

\* A handshake starts in RInv.
LEMMA RInvInit == Init => RInv
<1> SUFFICES ASSUME Init PROVE RInv
    OBVIOUS
<1>1. IInv
    BY IInvInit
<1>2. GotShape
    BY DEF Init, GotShape
<1>3. UnsignedRead
    BY DEF Init, UnsignedRead
<1> QED
    BY <1>1, <1>2, <1>3 DEF RInv

\* A read of at most n bytes, n a length byte or a fixed length, returns at most n.
LEMMA RecvAtMost ==
    ASSUME NEW n \in 0..255, rx \in Seq(Byte), NEW r \in RecvResults(n)
    PROVE  r <= n
BY DEF RecvResults, MinOf

\* The steps that read nothing: the length check, the two sends, and the proxy's.
LEMMA QuietStep ==
    ASSUME RInv, UNCHANGED <<got, nRecv, overrun>>, result' # "ok",
           \/ pc' \in {"check", "greet", "greetReply", "done"}
           \/ pc' = "replyHdr" /\ pc = "request"
           \/ pc' = pc
    PROVE  GotShape' /\ UnsignedRead'
BY DEF RInv, IInv, GotShape, UnsignedRead

\* RecvGreetingReply: the method reply 05 00 is the first thing read.
LEMMA GreetReplyStep ==
    ASSUME RInv, RecvGreetingReply
    PROVE  GotShape' /\ UnsignedRead'
<1>1. PICK r \in RecvResults(2) :
         /\ Consume(r)
         /\ IF r = 2 /\ Taken(r) = <<5, 0>>
              THEN pc' = "request" /\ UNCHANGED <<sock, result>>
              ELSE CloseAndFail
    BY DEF RecvGreetingReply
<1>2. got = <<>> /\ UNCHANGED <<nRecv, overrun>>
    BY DEF RecvGreetingReply, RInv, IInv
<1>3. CASE r = 2 /\ Taken(r) = <<5, 0>>
    <2>1. got' = <<5, 0>> /\ pc' = "request" /\ result' = "none"
        BY <1>1, <1>2, <1>3 DEF Consume, RInv, IInv, RecvGreetingReply
    <2> QED
        BY <1>2, <2>1 DEF RInv, GotShape, UnsignedRead
<1>4. CASE ~(r = 2 /\ Taken(r) = <<5, 0>>)
    BY <1>1, <1>2, <1>4 DEF CloseAndFail, RInv, GotShape, UnsignedRead
<1> QED
    BY <1>3, <1>4

\* RecvReplyHeader: four more bytes, checked, then a length byte or the address.
LEMMA ReplyHdrStep ==
    ASSUME RInv, RecvReplyHeader
    PROVE  GotShape' /\ UnsignedRead'
<1>0. /\ got = <<5, 0>> /\ rx \in Seq(Byte) /\ result = "none" /\ UNCHANGED overrun
    BY DEF RecvReplyHeader, RInv, IInv, GotShape, TypeOK
<1>1. PICK r \in RecvResults(4) :
         LET h == Taken(r) IN
         /\ Consume(r)
         /\ IF r = 4 /\ h[1] = 5 /\ h[2] = 0 /\ h[3] = 0 /\ h[4] \in {1, 3, 4}
              THEN /\ pc' = IF h[4] = 3 THEN "dlen" ELSE "addr"
                   /\ nRecv' = IF h[4] = 1 THEN 4 ELSE IF h[4] = 4 THEN 16 ELSE 0
                   /\ UNCHANGED <<sock, result>>
              ELSE CloseAndFail /\ UNCHANGED nRecv
    BY DEF RecvReplyHeader
<1>2. CASE r = 4 /\ Taken(r)[1] = 5 /\ Taken(r)[2] = 0 /\ Taken(r)[3] = 0 /\ Taken(r)[4] \in {1, 3, 4}
    <2>1. r \in -1..Len(rx)
        BY RecvRange, <1>0
    <2>2. Len(Taken(r)) = 4 /\ Taken(r) \in Seq(Byte)
        <3>1. r = 4
            BY <1>2
        <3>2. Len(Taken(r)) = r /\ Taken(r) \in Seq(Byte)
            BY <1>0, <2>1, <3>1 DEF Taken
        <3> QED
            BY <3>1, <3>2
    <2>3. got' = <<5, 0>> \o Taken(r)
        BY <1>0, <1>1 DEF Consume
    <2>4. /\ Len(got') = 6 /\ got' \in Seq(Byte)
          /\ got'[1] = 5 /\ got'[2] = 0 /\ got'[3] = 5 /\ got'[4] = 0 /\ got'[5] = 0
          /\ got'[6] = Taken(r)[4]
        <3>0. <<5, 0>> \in Seq(Byte)
            BY DEF Byte
        <3>a. <<5, 0>> \o Taken(r) \in Seq(Byte)
            BY <2>2, <3>0, ConcatBytes
        <3>b. Len(<<5, 0>> \o Taken(r)) = 6
            <4>1. Len(<<5, 0>> \o Taken(r)) = Len(<<5, 0>>) + Len(Taken(r))
                BY <2>2, <3>0, ConcatBytes
            <4>2. Len(<<5, 0>>) = 2
                OBVIOUS
            <4> QED
                BY <2>2, <4>1, <4>2
        <3>1. got' \in Seq(Byte) /\ Len(got') = 6
            BY <2>3, <3>a, <3>b
        <3> QED
            BY <1>2, <2>2, <2>3, <3>1
    <2>5. result' = "none"
        BY <1>0, <1>1, <1>2
    <2>6. CASE Taken(r)[4] = 3
        <3>1. got' = <<5, 0, 5, 0, 0, 3>> /\ pc' = "dlen" /\ nRecv' = 0
            BY <1>1, <1>2, <2>4, <2>6
        <3> QED
            BY <1>0, <2>5, <3>1 DEF RInv, GotShape, UnsignedRead
    <2>7. CASE Taken(r)[4] # 3
        <3>1. pc' = "addr" /\ nRecv' = IF Taken(r)[4] = 1 THEN 4 ELSE 16
            BY <1>1, <1>2, <2>7
        <3>2. Header(got') /\ HdrLen(got') = 6 /\ AddrNeed(got') = nRecv'
            BY <1>2, <2>4, <2>7, <3>1 DEF Header, HdrLen, AddrNeed
        <3> QED
            BY <1>0, <2>4, <2>5, <3>1, <3>2 DEF RInv, GotShape, UnsignedRead
    <2> QED
        BY <2>6, <2>7
<1>3. CASE ~(r = 4 /\ Taken(r)[1] = 5 /\ Taken(r)[2] = 0 /\ Taken(r)[3] = 0 /\ Taken(r)[4] \in {1, 3, 4})
    BY <1>0, <1>1, <1>3 DEF CloseAndFail, RInv, GotShape, UnsignedRead
<1> QED
    BY <1>2, <1>3

\* RecvDomainLen: one length byte, which becomes nRecv through a plain char.
LEMMA DomainLenStep ==
    ASSUME RInv, RecvDomainLen
    PROVE  GotShape' /\ UnsignedRead'
<1>0. /\ got = <<5, 0, 5, 0, 0, 3>> /\ rx \in Seq(Byte) /\ result = "none"
      /\ UNCHANGED overrun /\ (~CharSigned => ~overrun)
    BY DEF RecvDomainLen, RInv, IInv, GotShape, TypeOK, UnsignedRead
<1>1. PICK r \in RecvResults(1) :
         /\ Consume(r)
         /\ IF r = 1
              THEN /\ nRecv' = AsChar(Taken(r)[1])
                   /\ pc' = "addr"
                   /\ UNCHANGED <<sock, result>>
              ELSE CloseAndFail /\ UNCHANGED nRecv
    BY DEF RecvDomainLen
<1>2. CASE r = 1
    <2>1. Len(Taken(r)) = 1 /\ Taken(r) \in Seq(Byte)
        BY <1>0, <1>2, RecvRange DEF Taken
    <2>2. got' = <<5, 0, 5, 0, 0, 3>> \o Taken(r)
        BY <1>0, <1>1 DEF Consume
    <2>3. <<5, 0, 5, 0, 0, 3>> \in Seq(Byte)
        BY DEF Byte
    <2>4. got' \in Seq(Byte) /\ Len(got') = 7
        <3>1. Len(<<5, 0, 5, 0, 0, 3>>) = 6
            OBVIOUS
        <3>2. <<5, 0, 5, 0, 0, 3>> \o Taken(r) \in Seq(Byte)
            BY <2>1, <2>3, ConcatBytes
        <3>3. Len(<<5, 0, 5, 0, 0, 3>> \o Taken(r))
                = Len(<<5, 0, 5, 0, 0, 3>>) + Len(Taken(r))
            BY <2>1, <2>3, ConcatBytes
        <3> QED
            BY <2>1, <2>2, <3>1, <3>2, <3>3
    <2>5. /\ got'[1] = 5 /\ got'[2] = 0 /\ got'[3] = 5 /\ got'[4] = 0 /\ got'[5] = 0
          /\ got'[6] = 3 /\ got'[7] = Taken(r)[1]
        BY <2>1, <2>2, <2>4
    <2>6. Header(got') /\ HdrLen(got') = 7 /\ AddrNeed(got') = nRecv'
        BY <1>1, <1>2, <2>4, <2>5 DEF Header, HdrLen, AddrNeed
    <2>7. ~CharSigned => nRecv' \in 0..255
        <3>1. Taken(r)[1] \in Byte
            BY <2>1
        <3>2. nRecv' = AsChar(Taken(r)[1])
            BY <1>1, <1>2
        <3> QED
            BY <3>1, <3>2 DEF AsChar, Byte
    <2> QED
        BY <1>0, <1>1, <1>2, <2>4, <2>6, <2>7 DEF GotShape, UnsignedRead
<1>3. CASE r # 1
    BY <1>0, <1>1, <1>3 DEF CloseAndFail, RInv, GotShape, UnsignedRead
<1> QED
    BY <1>2, <1>3

\* RecvBoundAddr: nRecv more bytes.  On an unsigned build nRecv <= 255, so
\* recv() writes at most 255 of pchRet3's 256 bytes.
LEMMA BoundAddrStep ==
    ASSUME RInv, RecvBoundAddr
    PROVE  GotShape' /\ UnsignedRead'
<1>0. /\ Header(got) /\ Len(got) = HdrLen(got) /\ nRecv = AddrNeed(got)
      /\ got \in Seq(Byte) /\ rx \in Seq(Byte) /\ nRecv \in -128..255
      /\ result = "none" /\ UNCHANGED nRecv /\ (~CharSigned => nRecv \in 0..255 /\ ~overrun)
    BY DEF RecvBoundAddr, RInv, IInv, GotShape, TypeOK, UnsignedRead
<1>1. PICK r \in RecvResults(nRecv) :
         /\ Consume(r)
         /\ overrun' = (overrun \/ r > BufSize)
         /\ IF r = nRecv
              THEN pc' = "port" /\ UNCHANGED <<sock, result>>
              ELSE CloseAndFail
    BY DEF RecvBoundAddr
<1>2. r \in -1..Len(rx)
    BY <1>0, RecvRange
<1>3. UnsignedRead'
    <2> SUFFICES ASSUME ~CharSigned PROVE nRecv' \in 0..255 /\ ~overrun'
        BY DEF UnsignedRead
    <2>1. nRecv \in 0..255 /\ ~overrun
        BY <1>0
    <2>2. r <= nRecv
        BY <1>0, <2>1, RecvAtMost
    <2>3. ~(r > BufSize)
        BY <1>2, <2>1, <2>2 DEF BufSize
    <2>4. ~overrun'
        BY <1>1, <2>1, <2>3
    <2> QED
        BY <1>0, <2>1, <2>4
<1>4. CASE r = nRecv
    <2>1. Taken(r) \in Seq(Byte) /\ Len(Taken(r)) = Pos(nRecv)
        BY <1>0, <1>2, <1>4 DEF Taken, Pos
    <2>2. got' = got \o Taken(r)
        BY <1>1 DEF Consume
    <2>3. /\ Header(got') /\ HdrLen(got') = HdrLen(got) /\ AddrNeed(got') = AddrNeed(got)
          /\ Len(got') = Len(got) + Len(Taken(r))
        BY <1>0, <2>1, <2>2, AppendAfterHeader
    <2>4. pc' = "port" /\ result' = "none"
        BY <1>0, <1>1, <1>4
    <2>5. GotShape'
        BY <1>0, <2>1, <2>3, <2>4 DEF GotShape
    <2> QED
        BY <1>3, <2>5
<1>5. CASE r # nRecv
    <2>1. pc' = "done" /\ result' = "fail"
        BY <1>1, <1>5 DEF CloseAndFail
    <2> QED
        BY <1>3, <2>1 DEF GotShape
<1> QED
    BY <1>4, <1>5

\* RecvBoundPort: the 2-byte port, and Socks5() returns true.
LEMMA BoundPortStep ==
    ASSUME RInv, RecvBoundPort
    PROVE  GotShape' /\ UnsignedRead'
<1>0. /\ Header(got) /\ Len(got) = HdrLen(got) + Pos(nRecv) /\ nRecv = AddrNeed(got)
      /\ Len(got) >= HdrLen(got) /\ nRecv \in -128..255
      /\ got \in Seq(Byte) /\ rx \in Seq(Byte) /\ UNCHANGED <<nRecv, overrun>>
      /\ UnsignedRead
    BY DEF RecvBoundPort, RInv, IInv, GotShape, TypeOK
<1>1. PICK r \in RecvResults(2) :
         /\ Consume(r)
         /\ IF r = 2
              THEN result' = "ok" /\ pc' = "done" /\ UNCHANGED sock
              ELSE CloseAndFail
    BY DEF RecvBoundPort
<1>2. UnsignedRead'
    BY <1>0 DEF UnsignedRead
<1>3. CASE r = 2
    <2>1. Taken(r) \in Seq(Byte) /\ Len(Taken(r)) = 2
        BY <1>0, <1>3, RecvRange DEF Taken
    <2>2. got' = got \o Taken(r)
        BY <1>1 DEF Consume
    <2>3. /\ Header(got') /\ HdrLen(got') = HdrLen(got) /\ AddrNeed(got') = AddrNeed(got)
          /\ Len(got') = Len(got) + 2
        BY <1>0, <2>1, <2>2, AppendAfterHeader
    <2>4. pc' = "done" /\ result' = "ok"
        BY <1>1, <1>3
    <2>5. /\ Header(got') /\ nRecv' = AddrNeed(got')
          /\ Len(got') = HdrLen(got') + Pos(nRecv') + 2
        BY <1>0, <2>3
    <2>6. Len(got') >= HdrLen(got')
        BY <2>5, <1>0 DEF Pos, HdrLen
    <2>7. GotShape'
        BY <2>4, <2>5, <2>6 DEF GotShape
    <2> QED
        BY <1>2, <2>7
<1>4. CASE r # 2
    <2>1. pc' = "done" /\ result' = "fail"
        BY <1>1, <1>4 DEF CloseAndFail
    <2> QED
        BY <1>2, <2>1 DEF GotShape
<1> QED
    BY <1>3, <1>4

\* CheckDest, SendGreeting and SendRequest read nothing and never return true.
LEMMA SendStep ==
    ASSUME RInv, CheckDest \/ SendGreeting \/ SendRequest
    PROVE  GotShape' /\ UnsignedRead'
<1>0. UNCHANGED <<got, nRecv, overrun>>
    BY DEF CheckDest, SendGreeting, SendRequest
<1>1. CASE CheckDest
    <2>1. (pc' = "done" /\ result' = "fail") \/ (pc' = "greet" /\ result' = "none")
        BY <1>1 DEF CheckDest, CloseAndFail, RInv, IInv
    <2> QED
        BY <1>0, <2>1, QuietStep
<1>2. CASE SendGreeting
    <2>1. PICK r \in SendResults(3) :
             IF r = 3
               THEN /\ tx' = Append(tx, Greeting)
                    /\ pc' = "greetReply"
                    /\ UNCHANGED <<sock, result>>
               ELSE CloseAndFail /\ UNCHANGED tx
        BY <1>2 DEF SendGreeting
    <2>2. (pc' = "done" /\ result' = "fail") \/ (pc' = "greetReply" /\ result' = "none")
        BY <1>2, <2>1 DEF SendGreeting, CloseAndFail, RInv, IInv
    <2> QED
        BY <1>0, <2>2, QuietStep
<1>3. CASE SendRequest
    <2>1. PICK r \in SendResults(7 + destLen) :
             IF r = 7 + destLen
               THEN /\ tx' = Append(tx, [kind |-> "connect",
                                         lenByte |-> MinOf(destLen, 255),
                                         nameLen |-> destLen])
                    /\ pc' = "replyHdr"
                    /\ UNCHANGED <<sock, result>>
               ELSE CloseAndFail /\ UNCHANGED tx
        BY <1>3 DEF SendRequest
    <2>2. \/ pc' = "done" /\ result' = "fail"
          \/ pc' = "replyHdr" /\ pc = "request" /\ result' = "none"
        BY <1>3, <2>1 DEF SendRequest, CloseAndFail, RInv, IInv
    <2> QED
        BY <1>0, <2>2, QuietStep
<1> QED
    BY <1>1, <1>2, <1>3

\* The proxy's close or reset, and a stutter, leave everything RInv reads alone.
LEMMA FrozenStep ==
    ASSUME RInv, UNCHANGED <<pc, result, got, nRecv, overrun>>
    PROVE  GotShape' /\ UnsignedRead'
BY DEF RInv, GotShape, UnsignedRead

\* Every step of the handshake keeps RInv.
LEMMA RInvStep == RInv /\ [Next]_vars => RInv'
<1> SUFFICES ASSUME RInv, [Next]_vars PROVE RInv'
    OBVIOUS
<1>1. IInv'
    BY IInvStep DEF RInv
<1>2. GotShape' /\ UnsignedRead'
    <2>1. CASE CheckDest \/ SendGreeting \/ SendRequest
        BY <2>1, SendStep
    <2>2. CASE RecvGreetingReply
        BY <2>2, GreetReplyStep
    <2>3. CASE RecvReplyHeader
        BY <2>3, ReplyHdrStep
    <2>4. CASE RecvDomainLen
        BY <2>4, DomainLenStep
    <2>5. CASE RecvBoundAddr
        BY <2>5, BoundAddrStep
    <2>6. CASE RecvBoundPort
        BY <2>6, BoundPortStep
    <2>7. CASE Proxy \/ UNCHANGED vars
        BY <2>7, FrozenStep DEF Proxy, ProxyClose, ProxyReset, vars
    <2> QED
        BY <2>1, <2>2, <2>3, <2>4, <2>5, <2>6, <2>7 DEF Next, Client
<1> QED
    BY <1>1, <1>2 DEF RInv

(***************************************************************************)
(* RInv holds in every reachable state, on either build: the byte counts   *)
(* of every recv() in Socks5() add up to what GotShape says.               *)
(***************************************************************************)
THEOREM ReplyInvariant == Spec => []RInv
BY RInvInit, RInvStep, PTL DEF Spec

\* With an unsigned length byte, the bytes GotShape counts are one RFC 1928 reply.
LEMMA ShapeIsReply ==
    ASSUME RInv, ~CharSigned, result = "ok"
    PROVE  IsSocks5Reply(got)
<1>0. /\ Header(got) /\ Len(got) = HdrLen(got) + Pos(nRecv) + 2
      /\ nRecv = AddrNeed(got) /\ nRecv \in 0..255 /\ got \in Seq(Byte)
    BY DEF RInv, IInv, TypeOK, GotShape, UnsignedRead
<1>1. Pos(nRecv) = nRecv
    <2>1. nRecv \in 0..255
        BY <1>0
    <2> QED
        BY <2>1 DEF Pos
<1>2. Len(got) >= 6 /\ got[1] = 5 /\ got[2] = 0 /\ got[3] = 5 /\ got[4] = 0 /\ got[5] = 0
      /\ got[6] \in {1, 3, 4}
    BY <1>0 DEF Header
<1>3. Len(got) = 6 + BoundAddrLen(got) + 2
    <2>1. CASE got[6] = 3
        <3>1. HdrLen(got) = 7 /\ BoundAddrLen(got) = 1 + got[7]
            BY <2>1 DEF HdrLen, BoundAddrLen
        <3>2. nRecv = AsChar(got[7])
            BY <1>0, <2>1 DEF AddrNeed
        <3>3. AsChar(got[7]) = got[7]
            BY DEF AsChar
        <3> QED
            BY <1>0, <1>1, <3>1, <3>2, <3>3
    <2>2. CASE got[6] = 1
        <3>1. HdrLen(got) = 6 /\ BoundAddrLen(got) = 4 /\ AddrNeed(got) = 4
            BY <2>2 DEF HdrLen, BoundAddrLen, AddrNeed
        <3> QED
            BY <1>0, <1>1, <3>1
    <2>3. CASE got[6] = 4
        <3>1. HdrLen(got) = 6 /\ BoundAddrLen(got) = 16 /\ AddrNeed(got) = 16
            BY <2>3 DEF HdrLen, BoundAddrLen, AddrNeed
        <3> QED
            BY <1>0, <1>1, <3>1
    <2> QED
        BY <1>2, <2>1, <2>2, <2>3
<1>4. SubSeq(got, 1, 5) = <<5, 0, 5, 0, 0>>
    <2>1. Len(SubSeq(got, 1, 5)) = 5
        BY <1>0, <1>2
    <2>2. \A i \in 1..5 : SubSeq(got, 1, 5)[i] = <<5, 0, 5, 0, 0>>[i]
        BY <1>0, <1>2
    <2>3. SubSeq(got, 1, 5) \in Seq(Byte)
        BY <1>0, <1>2
    <2>4. <<5, 0, 5, 0, 0>> \in Seq(Byte)
        BY DEF Byte
    <2> QED
        BY <2>1, <2>2, <2>3, <2>4, SeqEqual
<1>5. Len(got) >= 7
    <2>1. HdrLen(got) \in {6, 7} /\ nRecv \in 0..255
        BY <1>0 DEF HdrLen
    <2>2. Len(got) = HdrLen(got) + Pos(nRecv) + 2
        BY <1>0
    <2> QED
        BY <1>1, <2>1, <2>2
<1> QED
    BY <1>2, <1>3, <1>4, <1>5 DEF IsSocks5Reply

(***************************************************************************)
(* Where plain char is unsigned, Socks5() returns true only after reading  *)
(* exactly one well-formed method reply and CONNECT reply, for every       *)
(* script of the proxy and every destination length.                       *)
(***************************************************************************)
THEOREM UnsignedWellFormedReply ==
    ASSUME ~CharSigned
    PROVE  Spec => []SuccessImpliesWellFormedReply
<1>1. RInv => SuccessImpliesWellFormedReply
    BY ShapeIsReply DEF SuccessImpliesWellFormedReply
<1> QED
    BY ReplyInvariant, <1>1, PTL

(***************************************************************************)
(* Where plain char is unsigned, no recv() of the bound address writes     *)
(* past the end of pchRet3[256].                                           *)
(***************************************************************************)
THEOREM UnsignedNoBufferOverrun ==
    ASSUME ~CharSigned
    PROVE  Spec => []NoBufferOverrun
<1>1. RInv => NoBufferOverrun
    BY DEF RInv, UnsignedRead, NoBufferOverrun
<1> QED
    BY ReplyInvariant, <1>1, PTL
=============================================================================
