---------------------------- MODULE Socks5_proofs ----------------------------
(***************************************************************************)
(* Proofs about the SOCKS5 client handshake, for every set of proxy        *)
(* replies, every hostname length and both signedness of char.            *)
(***************************************************************************)
EXTENDS Socks5, TLAPS

USE ScriptsAssumption, DestLensAssumption, CharSignedAssumption

\* The proxy's method reply 05 00 is the first thing the client has read.
AcceptedGreeting(g) == Len(g) >= 2 /\ g[1] = 5 /\ g[2] = 0

(***************************************************************************)
(* The inductive invariant.  SocketOwnership and RequestSequence are not   *)
(* inductive alone: they need to know, at each statement, what has been   *)
(* sent and read so far, and that strDest passed the length check.        *)
(***************************************************************************)
IInv ==
    /\ TypeOK
    /\ pc # "done" => result = "none"
    /\ SocketOwnership
    /\ pc \in {"check", "greet", "greetReply"} => got = <<>>
    /\ pc \in {"check", "greet"} => tx = <<>>
    /\ pc = "greetReply" => tx = <<Greeting>>
    /\ pc = "request" => tx = <<Greeting>> /\ AcceptedGreeting(got)
    /\ pc \in {"greet", "greetReply", "request"} => destLen <= 255
    /\ pc \in {"replyHdr", "dlen", "addr", "port"} =>
           Len(tx) = 2 /\ tx[2].kind = "connect"
    /\ Len(tx) <= 2
    /\ RequestSequence

-----------------------------------------------------------------------------
(* Lemmas about the helpers *)

LEMMA RecvRange ==
    ASSUME NEW n \in Int, rx \in Seq(Byte), NEW r \in RecvResults(n)
    PROVE  r \in -1..Len(rx)
BY DEF RecvResults, MinOf

LEMMA TakenFacts ==
    ASSUME rx \in Seq(Byte), NEW r \in -1..Len(rx)
    PROVE  /\ Taken(r) \in Seq(Byte)
           /\ SubSeq(rx, IF r > 0 THEN r + 1 ELSE 1, Len(rx)) \in Seq(Byte)
           /\ r > 0 => Len(Taken(r)) = r /\ \A i \in 1..r : Taken(r)[i] = rx[i]
BY DEF Taken

LEMMA ConsumeType ==
    ASSUME rx \in Seq(Byte), got \in Seq(Byte), NEW r \in -1..Len(rx), Consume(r)
    PROVE  rx' \in Seq(Byte) /\ got' \in Seq(Byte)
BY TakenFacts DEF Consume

LEMMA AcceptedGrows ==
    ASSUME NEW g \in Seq(Byte), NEW s \in Seq(Byte), AcceptedGreeting(g)
    PROVE  AcceptedGreeting(g \o s)
BY DEF AcceptedGreeting

LEMMA AsCharRange ==
    ASSUME NEW b \in Byte
    PROVE  AsChar(b) \in -128..255
BY DEF AsChar, Byte

-----------------------------------------------------------------------------

\* Every initial state is well typed.
LEMMA TypeInit == Init => TypeOK
<1> SUFFICES ASSUME Init PROVE TypeOK
  OBVIOUS
<1>1. rx \in Seq(Byte)
  BY DEF Init
<1>2. <<>> \in Seq(Byte) /\ <<>> \in Seq(Msgs)
  OBVIOUS
<1>3. nRecv \in -128..255
  BY DEF Init
<1>4. overrun \in BOOLEAN
  BY Zenon DEF Init
<1>5. QED
  BY <1>1, <1>2, <1>3, <1>4 DEF Init, TypeOK, Pcs

\* Every step of the handshake or of the proxy keeps the types.
LEMMA TypeStep == TypeOK /\ [Next]_vars => TypeOK'
<1> SUFFICES ASSUME TypeOK, [Next]_vars PROVE TypeOK'
  OBVIOUS
<1> USE DEF TypeOK, Pcs
<1>1. CASE CheckDest
  BY <1>1 DEF CheckDest, CloseAndFail
<1>2. CASE SendGreeting
  <2>1. PICK r \in SendResults(3) :
           IF r = 3
             THEN /\ tx' = Append(tx, Greeting)
                  /\ pc' = "greetReply"
                  /\ UNCHANGED <<sock, result>>
             ELSE CloseAndFail /\ UNCHANGED tx
    BY <1>2 DEF SendGreeting
  <2>2. Greeting \in Msgs
    BY DEF Greeting, Msgs, Byte
  <2>3. CASE r = 3
    <3>1. tx' = Append(tx, Greeting) /\ pc' = "greetReply" /\ UNCHANGED <<sock, result>>
      BY <2>1, <2>3
    <3>2. tx' \in Seq(Msgs)
      BY <3>1, <2>2
    <3>3. QED
      BY <1>2, <3>1, <3>2 DEF SendGreeting
  <2>4. CASE r # 3
    BY <1>2, <2>1, <2>4 DEF SendGreeting, CloseAndFail
  <2>5. QED
    BY <2>3, <2>4
<1>3. CASE RecvGreetingReply
  <2>1. PICK r \in RecvResults(2) : Consume(r) /\
           IF r = 2 /\ Taken(r) = <<5, 0>>
             THEN pc' = "request" /\ UNCHANGED <<sock, result>>
             ELSE CloseAndFail
    BY <1>3 DEF RecvGreetingReply
  <2>2. r \in -1..Len(rx)
    BY RecvRange
  <2>3. rx' \in Seq(Byte) /\ got' \in Seq(Byte)
    BY <2>1, <2>2, ConsumeType
  <2>4. CASE r = 2 /\ Taken(r) = <<5, 0>>
    BY <1>3, <2>1, <2>3, <2>4 DEF RecvGreetingReply
  <2>5. CASE ~(r = 2 /\ Taken(r) = <<5, 0>>)
    BY <1>3, <2>1, <2>3, <2>5 DEF RecvGreetingReply, CloseAndFail
  <2>6. QED
    BY <2>4, <2>5
<1>4. CASE SendRequest
  <2>1. PICK r \in SendResults(7 + destLen) :
           IF r = 7 + destLen
             THEN /\ tx' = Append(tx, [kind |-> "connect",
                                       lenByte |-> MinOf(destLen, 255),
                                       nameLen |-> destLen])
                  /\ pc' = "replyHdr"
                  /\ UNCHANGED <<sock, result>>
             ELSE CloseAndFail /\ UNCHANGED tx
    BY <1>4 DEF SendRequest
  <2>2. [kind |-> "connect", lenByte |-> MinOf(destLen, 255), nameLen |-> destLen] \in Msgs
    BY DEF Msgs, MinOf, Byte
  <2>3. CASE r = 7 + destLen
    <3>1. /\ tx' = Append(tx, [kind |-> "connect", lenByte |-> MinOf(destLen, 255),
                               nameLen |-> destLen])
          /\ pc' = "replyHdr" /\ UNCHANGED <<sock, result>>
      BY <2>1, <2>3
    <3>2. tx' \in Seq(Msgs)
      BY <3>1, <2>2
    <3>3. QED
      BY <1>4, <3>1, <3>2 DEF SendRequest
  <2>4. CASE r # 7 + destLen
    BY <1>4, <2>1, <2>4 DEF SendRequest, CloseAndFail
  <2>5. QED
    BY <2>3, <2>4
<1>5. CASE RecvReplyHeader
  <2>1. PICK r \in RecvResults(4) :
           LET h == Taken(r) IN
           /\ Consume(r)
           /\ IF r = 4 /\ h[1] = 5 /\ h[2] = 0 /\ h[3] = 0 /\ h[4] \in {1, 3, 4}
                THEN /\ pc' = IF h[4] = 3 THEN "dlen" ELSE "addr"
                     /\ nRecv' = IF h[4] = 1 THEN 4 ELSE IF h[4] = 4 THEN 16 ELSE 0
                     /\ UNCHANGED <<sock, result>>
                ELSE CloseAndFail /\ UNCHANGED nRecv
    BY <1>5 DEF RecvReplyHeader
  <2>2. r \in -1..Len(rx)
    BY RecvRange
  <2>3. rx' \in Seq(Byte) /\ got' \in Seq(Byte)
    BY <2>1, <2>2, ConsumeType
  <2>4. CASE r = 4 /\ Taken(r)[1] = 5 /\ Taken(r)[2] = 0 /\ Taken(r)[3] = 0
                /\ Taken(r)[4] \in {1, 3, 4}
    <3>1. pc' \in {"dlen", "addr"} /\ nRecv' \in {0, 4, 16} /\ UNCHANGED <<sock, result>>
      BY <2>1, <2>4
    <3>2. QED
      BY <1>5, <2>3, <3>1 DEF RecvReplyHeader
  <2>5. CASE ~(r = 4 /\ Taken(r)[1] = 5 /\ Taken(r)[2] = 0 /\ Taken(r)[3] = 0
                /\ Taken(r)[4] \in {1, 3, 4})
    <3>1. CloseAndFail /\ UNCHANGED nRecv
      BY <2>1, <2>5
    <3>2. QED
      BY <1>5, <2>3, <3>1 DEF RecvReplyHeader, CloseAndFail
  <2>6. QED
    BY <2>4, <2>5
<1>6. CASE RecvDomainLen
  <2>1. PICK r \in RecvResults(1) :
           /\ Consume(r)
           /\ IF r = 1
                THEN /\ nRecv' = AsChar(Taken(r)[1])
                     /\ pc' = "addr"
                     /\ UNCHANGED <<sock, result>>
                ELSE CloseAndFail /\ UNCHANGED nRecv
    BY <1>6 DEF RecvDomainLen
  <2>2. r \in -1..Len(rx)
    BY RecvRange
  <2>3. rx' \in Seq(Byte) /\ got' \in Seq(Byte)
    BY <2>1, <2>2, ConsumeType
  <2>4. r = 1 => Taken(r)[1] \in Byte
    BY <2>2, TakenFacts
  <2>5. r = 1 => nRecv' \in -128..255
    BY <2>1, <2>4, AsCharRange
  <2>6. CASE r = 1
    <3>1. pc' = "addr" /\ UNCHANGED <<sock, result>>
      BY <2>1, <2>6
    <3>2. QED
      BY <1>6, <2>3, <2>5, <2>6, <3>1 DEF RecvDomainLen
  <2>7. CASE r # 1
    <3>1. CloseAndFail /\ UNCHANGED nRecv
      BY <2>1, <2>7
    <3>2. QED
      BY <1>6, <2>3, <3>1 DEF RecvDomainLen, CloseAndFail
  <2>8. QED
    BY <2>6, <2>7
<1>7. CASE RecvBoundAddr
  <2>1. PICK r \in RecvResults(nRecv) :
           /\ Consume(r)
           /\ overrun' = (overrun \/ r > BufSize)
           /\ IF r = nRecv
                THEN pc' = "port" /\ UNCHANGED <<sock, result>>
                ELSE CloseAndFail
    BY <1>7 DEF RecvBoundAddr
  <2>2. r \in -1..Len(rx)
    BY RecvRange
  <2>3. rx' \in Seq(Byte) /\ got' \in Seq(Byte)
    BY <2>1, <2>2, ConsumeType
  <2>4. overrun' \in BOOLEAN
    BY <2>1
  <2>5. CASE r = nRecv
    BY <1>7, <2>1, <2>3, <2>4, <2>5 DEF RecvBoundAddr
  <2>6. CASE r # nRecv
    BY <1>7, <2>1, <2>3, <2>4, <2>6 DEF RecvBoundAddr, CloseAndFail
  <2>7. QED
    BY <2>5, <2>6
<1>8. CASE RecvBoundPort
  <2>1. PICK r \in RecvResults(2) :
           /\ Consume(r)
           /\ IF r = 2
                THEN result' = "ok" /\ pc' = "done" /\ UNCHANGED sock
                ELSE CloseAndFail
    BY <1>8 DEF RecvBoundPort
  <2>2. r \in -1..Len(rx)
    BY RecvRange
  <2>3. rx' \in Seq(Byte) /\ got' \in Seq(Byte)
    BY <2>1, <2>2, ConsumeType
  <2>4. CASE r = 2
    BY <1>8, <2>1, <2>3, <2>4 DEF RecvBoundPort
  <2>5. CASE r # 2
    BY <1>8, <2>1, <2>3, <2>5 DEF RecvBoundPort, CloseAndFail
  <2>6. QED
    BY <2>4, <2>5
<1>9. CASE ProxyClose
  BY <1>9 DEF ProxyClose
<1>10. CASE ProxyReset
  BY <1>10 DEF ProxyReset
<1>11. CASE UNCHANGED vars
  BY <1>11 DEF vars
<1>12. QED
  BY <1>1, <1>2, <1>3, <1>4, <1>5, <1>6, <1>7, <1>8, <1>9, <1>10, <1>11
     DEF Next, Client, Proxy

(***************************************************************************)
(* The handshake's variables keep their types: in particular nRecv, the    *)
(* length the bound-address read asks for, stays within what a char and   *)
(* the fixed address lengths give.                                         *)
(***************************************************************************)
THEOREM TypeCorrect == Spec => []TypeOK
BY TypeInit, TypeStep, PTL DEF Spec

-----------------------------------------------------------------------------
(***************************************************************************)
(* What the reads of the CONNECT reply have in common: each consumes what *)
(* recv() returned, sends nothing, and either moves on to the next read,   *)
(* or closes the socket and fails, or (the port read) returns true.        *)
(***************************************************************************)
ReplyRead ==
    /\ pc \in {"replyHdr", "dlen", "addr", "port"}
    /\ \E r \in -1..Len(rx) : Consume(r)
    /\ UNCHANGED <<tx, destLen>>
    /\ \/ pc' \in {"dlen", "addr", "port"} /\ UNCHANGED <<sock, result>>
       \/ CloseAndFail
       \/ result' = "ok" /\ pc' = "done" /\ UNCHANGED sock

LEMMA ReplyReadShape ==
    ASSUME TypeOK,
           RecvReplyHeader \/ RecvDomainLen \/ RecvBoundAddr \/ RecvBoundPort
    PROVE  ReplyRead
<1> USE DEF TypeOK
<1>1. CASE RecvReplyHeader
  <2>1. PICK r \in RecvResults(4) :
           LET h == Taken(r) IN
           /\ Consume(r)
           /\ IF r = 4 /\ h[1] = 5 /\ h[2] = 0 /\ h[3] = 0 /\ h[4] \in {1, 3, 4}
                THEN /\ pc' = IF h[4] = 3 THEN "dlen" ELSE "addr"
                     /\ nRecv' = IF h[4] = 1 THEN 4 ELSE IF h[4] = 4 THEN 16 ELSE 0
                     /\ UNCHANGED <<sock, result>>
                ELSE CloseAndFail /\ UNCHANGED nRecv
    BY <1>1 DEF RecvReplyHeader
  <2>2. r \in -1..Len(rx)
    BY RecvRange
  <2>3. \/ pc' \in {"dlen", "addr", "port"} /\ UNCHANGED <<sock, result>>
        \/ CloseAndFail
    BY <2>1
  <2>4. QED
    BY <1>1, <2>1, <2>2, <2>3 DEF RecvReplyHeader, ReplyRead
<1>2. CASE RecvDomainLen
  <2>1. PICK r \in RecvResults(1) :
           /\ Consume(r)
           /\ IF r = 1
                THEN /\ nRecv' = AsChar(Taken(r)[1])
                     /\ pc' = "addr"
                     /\ UNCHANGED <<sock, result>>
                ELSE CloseAndFail /\ UNCHANGED nRecv
    BY <1>2 DEF RecvDomainLen
  <2>2. r \in -1..Len(rx)
    BY RecvRange
  <2>3. \/ pc' \in {"dlen", "addr", "port"} /\ UNCHANGED <<sock, result>>
        \/ CloseAndFail
    BY <2>1
  <2>4. QED
    BY <1>2, <2>1, <2>2, <2>3 DEF RecvDomainLen, ReplyRead
<1>3. CASE RecvBoundAddr
  <2>1. PICK r \in RecvResults(nRecv) :
           /\ Consume(r)
           /\ IF r = nRecv
                THEN pc' = "port" /\ UNCHANGED <<sock, result>>
                ELSE CloseAndFail
    BY <1>3 DEF RecvBoundAddr
  <2>2. r \in -1..Len(rx)
    BY RecvRange
  <2>3. \/ pc' \in {"dlen", "addr", "port"} /\ UNCHANGED <<sock, result>>
        \/ CloseAndFail
    BY <2>1
  <2>4. QED
    BY <1>3, <2>1, <2>2, <2>3 DEF RecvBoundAddr, ReplyRead
<1>4. CASE RecvBoundPort
  <2>1. PICK r \in RecvResults(2) :
           /\ Consume(r)
           /\ IF r = 2
                THEN result' = "ok" /\ pc' = "done" /\ UNCHANGED sock
                ELSE CloseAndFail
    BY <1>4 DEF RecvBoundPort
  <2>2. r \in -1..Len(rx)
    BY RecvRange
  <2>3. \/ result' = "ok" /\ pc' = "done" /\ UNCHANGED sock
        \/ CloseAndFail
    BY <2>1
  <2>4. QED
    BY <1>4, <2>1, <2>2, <2>3 DEF RecvBoundPort, ReplyRead
<1>5. QED
  BY <1>1, <1>2, <1>3, <1>4

\* Reading more of the reply keeps what RequestSequence says of the method
\* reply already read, since the client only appends to what it has read.
LEMMA SequenceAfterRead ==
    ASSUME TypeOK, RequestSequence, tx' = tx,
           NEW t \in Seq(Byte), got' = got \o t
    PROVE  RequestSequence'
<1> SUFFICES ASSUME NEW i \in 1..Len(tx), tx[i].kind = "connect"
             PROVE  /\ i = 2
                    /\ tx[1] = Greeting
                    /\ Len(got') >= 2 /\ got'[1] = 5 /\ got'[2] = 0
                    /\ tx[i].lenByte = tx[i].nameLen
  BY DEF RequestSequence
<1>1. AcceptedGreeting(got) /\ i = 2 /\ tx[1] = Greeting /\ tx[i].lenByte = tx[i].nameLen
  BY DEF RequestSequence, AcceptedGreeting
<1>2. AcceptedGreeting(got')
  BY <1>1, AcceptedGrows DEF TypeOK
<1>3. QED
  BY <1>1, <1>2 DEF AcceptedGreeting

-----------------------------------------------------------------------------
\* The handshake starts in a state of the inductive invariant.
LEMMA IInvInit == Init => IInv
<1> SUFFICES ASSUME Init PROVE IInv
  OBVIOUS
<1>1. TypeOK
  BY TypeInit
<1>2. Len(tx) = 0
  BY DEF Init
<1>3. QED
  BY <1>1, <1>2 DEF Init, IInv, SocketOwnership, RequestSequence

\* Every step of the handshake or of the proxy keeps the inductive invariant.
LEMMA IInvStep == IInv /\ [Next]_vars => IInv'
<1> SUFFICES ASSUME IInv, [Next]_vars PROVE IInv'
  OBVIOUS
<1>0. TypeOK /\ TypeOK'
  BY TypeStep DEF IInv
<1>1. CASE CheckDest
  <2>1. /\ tx = <<>> /\ tx' = tx /\ got = <<>>
        /\ result = "none" /\ sock = "open"
    BY <1>1 DEF CheckDest, IInv, SocketOwnership
  <2>2. RequestSequence'
    BY <2>1 DEF RequestSequence
  <2>3. CASE destLen > 255
    <3>1. CloseAndFail /\ UNCHANGED <<got, destLen>>
      BY <1>1, <2>3 DEF CheckDest
    <3>2. QED
      BY <2>1, <2>2, <1>0, <3>1 DEF CloseAndFail, IInv, SocketOwnership
  <2>4. CASE ~(destLen > 255)
    <3>1. pc' = "greet" /\ UNCHANGED <<sock, result, got, destLen>>
      BY <1>1, <2>4 DEF CheckDest
    <3>2. destLen <= 255
      BY <1>0, <2>4 DEF TypeOK
    <3>3. QED
      BY <2>1, <2>2, <1>0, <3>1, <3>2 DEF IInv, SocketOwnership
  <2>5. QED
    BY <2>3, <2>4
<1>2. CASE SendGreeting
  <2>1. tx = <<>> /\ got = <<>> /\ destLen <= 255 /\ result = "none" /\ sock = "open"
    BY <1>2 DEF SendGreeting, IInv, SocketOwnership
  <2>2. PICK r \in SendResults(3) :
           IF r = 3
             THEN /\ tx' = Append(tx, Greeting)
                  /\ pc' = "greetReply"
                  /\ UNCHANGED <<sock, result>>
             ELSE CloseAndFail /\ UNCHANGED tx
    BY <1>2 DEF SendGreeting
  <2>3. UNCHANGED <<got, destLen>>
    BY <1>2 DEF SendGreeting
  <2>4. CASE r = 3
    <3>1. tx' = <<Greeting>> /\ pc' = "greetReply" /\ UNCHANGED <<sock, result>>
      BY <2>1, <2>2, <2>4
    <3>2. RequestSequence'
      BY <3>1 DEF RequestSequence, Greeting
    <3>3. QED
      BY <1>0, <2>1, <2>3, <3>1, <3>2 DEF IInv, SocketOwnership
  <2>5. CASE r # 3
    <3>1. CloseAndFail /\ tx' = <<>>
      BY <2>1, <2>2, <2>5
    <3>2. RequestSequence'
      BY <3>1 DEF RequestSequence
    <3>3. QED
      BY <1>0, <3>1, <3>2 DEF CloseAndFail, IInv, SocketOwnership
  <2>6. QED
    BY <2>4, <2>5
<1>3. CASE RecvGreetingReply
  <2>1. tx = <<Greeting>> /\ got = <<>> /\ destLen <= 255 /\ result = "none" /\ sock = "open"
    BY <1>3 DEF RecvGreetingReply, IInv, SocketOwnership
  <2>2. PICK r \in RecvResults(2) :
           /\ Consume(r)
           /\ IF r = 2 /\ Taken(r) = <<5, 0>>
                THEN pc' = "request" /\ UNCHANGED <<sock, result>>
                ELSE CloseAndFail
    BY <1>3 DEF RecvGreetingReply
  <2>3. UNCHANGED <<tx, destLen>>
    BY <1>3 DEF RecvGreetingReply
  <2>4. RequestSequence'
    BY <2>1, <2>3 DEF RequestSequence, Greeting
  <2>5. CASE r = 2 /\ Taken(r) = <<5, 0>>
    <3>1. got' = <<5, 0>>
      BY <2>1, <2>2, <2>5 DEF Consume
    <3>2. pc' = "request" /\ UNCHANGED <<sock, result>>
      BY <2>2, <2>5
    <3>3. QED
      BY <1>0, <2>1, <2>3, <2>4, <3>1, <3>2 DEF IInv, SocketOwnership, AcceptedGreeting
  <2>6. CASE ~(r = 2 /\ Taken(r) = <<5, 0>>)
    <3>1. CloseAndFail
      BY <2>2, <2>6
    <3>2. QED
      BY <1>0, <2>1, <2>3, <2>4, <3>1 DEF CloseAndFail, IInv, SocketOwnership
  <2>7. QED
    BY <2>5, <2>6
<1>4. CASE SendRequest
  <2>1. /\ tx = <<Greeting>> /\ AcceptedGreeting(got) /\ destLen <= 255
        /\ result = "none" /\ sock = "open"
    BY <1>4 DEF SendRequest, IInv, SocketOwnership
  <2>2. PICK r \in SendResults(7 + destLen) :
           IF r = 7 + destLen
             THEN /\ tx' = Append(tx, [kind |-> "connect",
                                       lenByte |-> MinOf(destLen, 255),
                                       nameLen |-> destLen])
                  /\ pc' = "replyHdr"
                  /\ UNCHANGED <<sock, result>>
             ELSE CloseAndFail /\ UNCHANGED tx
    BY <1>4 DEF SendRequest
  <2>3. UNCHANGED <<got, destLen>>
    BY <1>4 DEF SendRequest
  <2>4. CASE r = 7 + destLen
    <3>1. MinOf(destLen, 255) = destLen
      BY <1>0, <2>1 DEF MinOf, TypeOK
    <3>2. tx' = <<Greeting, [kind |-> "connect", lenByte |-> destLen, nameLen |-> destLen]>>
      BY <2>1, <2>2, <2>4, <3>1
    <3>3. pc' = "replyHdr" /\ UNCHANGED <<sock, result>>
      BY <2>2, <2>4
    <3>4. RequestSequence'
      BY <2>1, <2>3, <3>2 DEF RequestSequence, Greeting, AcceptedGreeting
    <3>5. QED
      BY <1>0, <2>1, <2>3, <3>2, <3>3, <3>4 DEF IInv, SocketOwnership
  <2>5. CASE r # 7 + destLen
    <3>1. CloseAndFail /\ tx' = <<Greeting>>
      BY <2>1, <2>2, <2>5
    <3>2. RequestSequence'
      BY <3>1 DEF RequestSequence, Greeting
    <3>3. QED
      BY <1>0, <3>1, <3>2 DEF CloseAndFail, IInv, SocketOwnership
  <2>6. QED
    BY <2>4, <2>5
<1>5. CASE RecvReplyHeader \/ RecvDomainLen \/ RecvBoundAddr \/ RecvBoundPort
  <2>1. ReplyRead
    BY <1>0, <1>5, ReplyReadShape
  <2>2. /\ Len(tx) = 2 /\ tx[2].kind = "connect" /\ Len(tx) <= 2
        /\ result = "none" /\ sock = "open"
    BY <2>1 DEF ReplyRead, IInv, SocketOwnership
  <2>3. PICK r \in -1..Len(rx) : Consume(r)
    BY <2>1 DEF ReplyRead
  <2>4. Taken(r) \in Seq(Byte) /\ got' = got \o Taken(r)
    BY <1>0, <2>3, TakenFacts DEF Consume, TypeOK
  <2>5. RequestSequence'
    BY <1>0, <2>1, <2>4, SequenceAfterRead DEF ReplyRead, IInv
  <2>6. UNCHANGED <<tx, destLen>>
    BY <2>1 DEF ReplyRead
  <2>7. CASE pc' \in {"dlen", "addr", "port"} /\ UNCHANGED <<sock, result>>
    BY <1>0, <2>2, <2>5, <2>6, <2>7 DEF IInv, SocketOwnership
  <2>8. CASE CloseAndFail
    BY <1>0, <2>2, <2>5, <2>6, <2>8 DEF CloseAndFail, IInv, SocketOwnership
  <2>9. CASE result' = "ok" /\ pc' = "done" /\ UNCHANGED sock
    BY <1>0, <2>2, <2>5, <2>6, <2>9 DEF IInv, SocketOwnership
  <2>10. QED
    BY <2>1, <2>7, <2>8, <2>9 DEF ReplyRead
<1>6. CASE ProxyClose \/ ProxyReset
  <2>1. UNCHANGED <<pc, sock, result, rx, got, tx, destLen, nRecv, overrun>>
    BY <1>6 DEF ProxyClose, ProxyReset
  <2>2. QED
    BY <1>0, <2>1 DEF IInv, SocketOwnership, RequestSequence, AcceptedGreeting
<1>7. CASE UNCHANGED vars
  BY <1>0, <1>7 DEF vars, IInv, SocketOwnership, RequestSequence, AcceptedGreeting
<1>8. QED
  BY <1>1, <1>2, <1>3, <1>4, <1>5, <1>6, <1>7 DEF Next, Client, Proxy

(***************************************************************************)
(* Every failure path of Socks5() closes hSocket and a successful return   *)
(* leaves it open: the socket is never leaked and never handed back        *)
(* closed, whatever the proxy sends and however recv() splits it.          *)
(***************************************************************************)
THEOREM SocketOwnershipHolds == Spec => []SocketOwnership
<1>1. IInv => SocketOwnership
  BY DEF IInv
<1>2. QED
  BY IInvInit, IInvStep, <1>1, PTL DEF Spec

(***************************************************************************)
(* Socks5() sends its CONNECT request second, after the greeting and only  *)
(* once the proxy has answered 05 00, and the request's length byte is the *)
(* hostname's true length: the check against 255 runs before anything is   *)
(* sent, so no hostname is truncated on the wire.                          *)
(***************************************************************************)
THEOREM RequestSequenceHolds == Spec => []RequestSequence
<1>1. IInv => RequestSequence
  BY DEF IInv
<1>2. QED
  BY IInvInit, IInvStep, <1>1, PTL DEF Spec

=============================================================================
