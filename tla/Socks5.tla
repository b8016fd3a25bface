------------------------------- MODULE Socks5 -------------------------------
(***************************************************************************)
(* The SOCKS5 client handshake of netbase.cpp, Socks5(strDest, port,      *)
(* hSocket): greeting, method reply, CONNECT request by domain name, reply *)
(* header, bound address and bound port, over a socket that is already     *)
(* connected to the proxy.  The proxy is an adversary: the bytes it sends  *)
(* are any script of Scripts, the network hands them to recv() in pieces   *)
(* of any size, and the connection may be closed or reset at any time.     *)
(* The hostname is abstracted to its length; bytes the code only counts    *)
(* (bound address, domain, port) are kept as bytes so that reads can be    *)
(* misaligned exactly as in the code.                                      *)
(***************************************************************************)
EXTENDS Integers, Sequences

CONSTANTS
    Scripts,      \* byte sequences a proxy may send back on the connection
    DestLens,     \* lengths of strDest (the destination hostname)
    CharSigned    \* TRUE on builds where plain char is signed (x86), FALSE on ARM

Byte == 0..255

ASSUME ScriptsAssumption == Scripts \subseteq Seq(Byte) /\ Scripts # {}
ASSUME DestLensAssumption == DestLens \subseteq Nat /\ DestLens # {}
ASSUME CharSignedAssumption == CharSigned \in BOOLEAN

\* char pchRet3[256]: the buffer the bound address is read into.
BufSize == 256

VARIABLES
    pc,       \* the statement of Socks5() about to run
    sock,     \* hSocket: "open" until closesocket()
    result,   \* "none" while running, then the returned bool as "ok" / "fail"
    link,     \* the proxy's side of the TCP connection: "up", "closed" (FIN), "reset"
    rx,       \* bytes the proxy has sent and the client has not yet read
    got,      \* every byte the client has read, in order
    tx,       \* the messages the client has sent
    destLen,  \* strDest.size()
    nRecv,    \* the length the next read of the bound address asks for
    overrun   \* some recv() wrote past the end of pchRet3

vars == <<pc, sock, result, link, rx, got, tx, destLen, nRecv, overrun>>

Pcs == {"check", "greet", "greetReply", "request", "replyHdr", "dlen",
        "addr", "port", "done"}

Greeting == [kind |-> "greeting", lenByte |-> 0, nameLen |-> 0]
Msgs == [kind : {"greeting", "connect"}, lenByte : Byte, nameLen : Nat]

MinOf(a, b) == IF a < b THEN a ELSE b

\* Mutant: the length read as if it counted itself (off by one).
AsCharPlusOne(b) == IF CharSigned /\ b >= 128 THEN b - 255 ELSE b + 1

\* Mutant: the length always read through a signed char.
AsCharAlwaysSigned(b) == IF b >= 128 THEN b - 256 ELSE b

\* int nRecv = pchRet3[0]: a plain char, sign-extended where char is signed.
AsChar(b) == IF CharSigned /\ b >= 128 THEN b - 256 ELSE b

(***************************************************************************)
(* What recv(hSocket, buf, n, 0) on a blocking socket may return.  A       *)
(* negative n is converted to size_t: the call then either fails (-1, the  *)
(* kernel refuses the range) or reads whatever has arrived.  With no data  *)
(* and the connection up, recv blocks: no outcome is enabled.              *)
(***************************************************************************)
RecvResults(n) ==
    LET avail == Len(rx)
        upTo  == IF n < 0 THEN avail ELSE MinOf(n, avail)
    IN  IF n = 0 THEN {0}
        ELSE (IF link = "reset" \/ n < 0 THEN {-1} ELSE {})
             \cup (1..upTo)
             \cup (IF link = "closed" /\ avail = 0 THEN {0} ELSE {})

\* send(hSocket, buf, n, MSG_NOSIGNAL) on a blocking socket.
SendResults(n) == IF link = "reset" THEN {-1} ELSE {n}

\* The bytes a read returning r takes off the stream.
Taken(r) == IF r > 0 THEN SubSeq(rx, 1, r) ELSE <<>>

Consume(r) ==
    /\ rx' = SubSeq(rx, IF r > 0 THEN r + 1 ELSE 1, Len(rx))
    /\ got' = got \o Taken(r)

\* closesocket(hSocket); return error(...)
CloseAndFail ==
    /\ sock' = "closed"
    /\ result' = "fail"
    /\ pc' = "done"

-----------------------------------------------------------------------------

Init ==
    /\ pc = "check"
    /\ sock = "open"
    /\ result = "none"
    /\ link = "up"
    /\ rx \in Scripts
    /\ got = <<>>
    /\ tx = <<>>
    /\ destLen \in DestLens
    /\ nRecv = 0
    /\ overrun = FALSE

\* Mutant: no length check on the hostname.
CheckDestUnchecked ==
    /\ pc = "check"
    /\ pc' = "greet"
    /\ UNCHANGED <<sock, result, link, rx, got, tx, destLen, nRecv, overrun>>

\* if (strDest.size() > 255) fail "Hostname too long"
CheckDest ==
    /\ pc = "check"
    /\ IF destLen > 255
         THEN CloseAndFail
         ELSE pc' = "greet" /\ UNCHANGED <<sock, result>>
    /\ UNCHANGED <<link, rx, got, tx, destLen, nRecv, overrun>>

\* send "\5\1\0": version 5, one method, no authentication.
SendGreeting ==
    /\ pc = "greet"
    /\ \E r \in SendResults(3) :
         IF r = 3
           THEN /\ tx' = Append(tx, Greeting)
                /\ pc' = "greetReply"
                /\ UNCHANGED <<sock, result>>
           ELSE CloseAndFail /\ UNCHANGED tx
    /\ UNCHANGED <<link, rx, got, destLen, nRecv, overrun>>

\* Mutant: only the version byte of the method reply is checked.
RecvGreetingReplyLax ==
    /\ pc = "greetReply"
    /\ \E r \in RecvResults(2) :
         /\ Consume(r)
         /\ IF r = 2 /\ Taken(r)[1] = 5
              THEN pc' = "request" /\ UNCHANGED <<sock, result>>
              ELSE CloseAndFail
    /\ UNCHANGED <<link, tx, destLen, nRecv, overrun>>

\* recv 2 bytes, which must be 05 00.
RecvGreetingReply ==
    /\ pc = "greetReply"
    /\ \E r \in RecvResults(2) :
         /\ Consume(r)
         /\ IF r = 2 /\ Taken(r) = <<5, 0>>
              THEN pc' = "request" /\ UNCHANGED <<sock, result>>
              ELSE CloseAndFail
    /\ UNCHANGED <<link, tx, destLen, nRecv, overrun>>

\* send 05 01 00 03 <len> <hostname> <port-hi> <port-lo>.
SendRequest ==
    /\ pc = "request"
    /\ \E r \in SendResults(7 + destLen) :
         IF r = 7 + destLen
           THEN /\ tx' = Append(tx, [kind |-> "connect",
                                     lenByte |-> MinOf(destLen, 255),
                                     nameLen |-> destLen])
                /\ pc' = "replyHdr"
                /\ UNCHANGED <<sock, result>>
           ELSE CloseAndFail /\ UNCHANGED tx
    /\ UNCHANGED <<link, rx, got, destLen, nRecv, overrun>>

\* Mutant: the malformed-reply branches return without closesocket().
RecvReplyHeaderNoClose ==
    /\ pc = "replyHdr"
    /\ \E r \in RecvResults(4) :
         LET h == Taken(r) IN
         /\ Consume(r)
         /\ IF r = 4 /\ h[1] = 5 /\ h[2] = 0 /\ h[3] = 0 /\ h[4] \in {1, 3, 4}
              THEN /\ pc' = IF h[4] = 3 THEN "dlen" ELSE "addr"
                   /\ nRecv' = IF h[4] = 1 THEN 4 ELSE IF h[4] = 4 THEN 16 ELSE 0
                   /\ UNCHANGED <<sock, result>>
              ELSE /\ result' = "fail" /\ pc' = "done"
                   /\ UNCHANGED <<sock, nRecv>>
    /\ UNCHANGED <<link, tx, destLen, overrun>>

(***************************************************************************)
(* recv 4 bytes (version, reply code, reserved, address type); reject a   *)
(* version other than 5, a reply code other than 0, a reserved byte other *)
(* than 0, and an address type other than 1 (IPv4), 3 (domain), 4 (IPv6). *)
(***************************************************************************)
RecvReplyHeader ==
    /\ pc = "replyHdr"
    /\ \E r \in RecvResults(4) :
         LET h == Taken(r) IN
         /\ Consume(r)
         /\ IF r = 4 /\ h[1] = 5 /\ h[2] = 0 /\ h[3] = 0 /\ h[4] \in {1, 3, 4}
              THEN /\ pc' = IF h[4] = 3 THEN "dlen" ELSE "addr"
                   /\ nRecv' = IF h[4] = 1 THEN 4 ELSE IF h[4] = 4 THEN 16 ELSE 0
                   /\ UNCHANGED <<sock, result>>
              ELSE CloseAndFail /\ UNCHANGED nRecv
    /\ UNCHANGED <<link, tx, destLen, overrun>>

\* case 0x03: recv 1 length byte into pchRet3, nRecv = pchRet3[0].
RecvDomainLen ==
    /\ pc = "dlen"
    /\ \E r \in RecvResults(1) :
         /\ Consume(r)
         /\ IF r = 1
              THEN /\ nRecv' = AsChar(Taken(r)[1])
                   /\ pc' = "addr"
                   /\ UNCHANGED <<sock, result>>
              ELSE CloseAndFail /\ UNCHANGED nRecv
    /\ UNCHANGED <<link, tx, destLen, overrun>>

\* ret = recv(hSocket, pchRet3, nRecv, 0) != nRecv; if (ret) fail.
RecvBoundAddr ==
    /\ pc = "addr"
    /\ \E r \in RecvResults(nRecv) :
         /\ Consume(r)
         /\ overrun' = (overrun \/ r > BufSize)
         /\ IF r = nRecv
              THEN pc' = "port" /\ UNCHANGED <<sock, result>>
              ELSE CloseAndFail
    /\ UNCHANGED <<link, tx, destLen, nRecv>>

\* recv the 2-byte bound port; success.
RecvBoundPort ==
    /\ pc = "port"
    /\ \E r \in RecvResults(2) :
         /\ Consume(r)
         /\ IF r = 2
              THEN result' = "ok" /\ pc' = "done" /\ UNCHANGED sock
              ELSE CloseAndFail
    /\ UNCHANGED <<link, tx, destLen, nRecv, overrun>>

\* The proxy closes its side of the connection (recv then returns 0).
ProxyClose ==
    /\ link = "up"
    /\ link' = "closed"
    /\ UNCHANGED <<pc, sock, result, rx, got, tx, destLen, nRecv, overrun>>

\* The connection is reset (recv and send then return -1).
ProxyReset ==
    /\ link # "reset"
    /\ link' = "reset"
    /\ UNCHANGED <<pc, sock, result, rx, got, tx, destLen, nRecv, overrun>>

Client ==
    \/ CheckDest \/ SendGreeting \/ RecvGreetingReply \/ SendRequest
    \/ RecvReplyHeader \/ RecvDomainLen \/ RecvBoundAddr \/ RecvBoundPort

Proxy == ProxyClose \/ ProxyReset

Next == Client \/ Proxy

Spec == Init /\ [][Next]_vars

\* The dialing thread runs whenever its send() or recv() can return; the
\* proxy's close and reset are not assumed to happen.
FairSpec == Spec /\ WF_vars(Client)

-----------------------------------------------------------------------------
(* Properties *)

TypeOK ==
    /\ pc \in Pcs
    /\ sock \in {"open", "closed"}
    /\ result \in {"none", "ok", "fail"}
    /\ link \in {"up", "closed", "reset"}
    /\ rx \in Seq(Byte)
    /\ got \in Seq(Byte)
    /\ tx \in Seq(Msgs)
    /\ destLen \in DestLens
    /\ nRecv \in -128..255
    /\ overrun \in BOOLEAN

(***************************************************************************)
(* RFC 1928 reply, the reference the handshake is meant to parse: method  *)
(* reply 05 00, then 05 00 00 ATYP, the bound address (4 bytes, 16 bytes,  *)
(* or a length byte read unsigned and that many bytes) and a 2-byte port.  *)
(***************************************************************************)
BoundAddrLen(s) ==
    CASE s[6] = 1 -> 4
      [] s[6] = 4 -> 16
      [] OTHER    -> 1 + s[7]

IsSocks5Reply(s) ==
    /\ Len(s) >= 7
    /\ SubSeq(s, 1, 5) = <<5, 0, 5, 0, 0>>
    /\ s[6] \in {1, 3, 4}
    /\ Len(s) = 6 + BoundAddrLen(s) + 2

(***************************************************************************)
(* Socks5() returns true only after it has read exactly one well-formed    *)
(* method reply and one well-formed successful CONNECT reply, and nothing  *)
(* after it: the stream handed back to the caller starts at the first byte *)
(* the destination sent.  This is about the byte-counting of every recv()  *)
(* in Socks5(), including the signed length byte of a domain reply.        *)
(***************************************************************************)
SuccessImpliesWellFormedReply ==
    result = "ok" => IsSocks5Reply(got)

(***************************************************************************)
(* No recv() into pchRet3[256] writes more than 256 bytes: the read of the *)
(* bound domain name in Socks5() never overruns its stack buffer.          *)
(***************************************************************************)
NoBufferOverrun == ~overrun

(***************************************************************************)
(* Every failure path of Socks5() closes hSocket, and a successful return  *)
(* leaves it open for the caller: the socket is never leaked or handed out *)
(* closed.                                                                 *)
(***************************************************************************)
SocketOwnership ==
    /\ result = "fail" => sock = "closed"
    /\ result # "fail" => sock = "open"

(***************************************************************************)
(* The client sends the CONNECT request only after sending the greeting    *)
(* and reading the proxy's 05 00 answer, and the request's length byte is  *)
(* the true length of strDest (no hostname is cut to 255 bytes on the      *)
(* wire).                                                                  *)
(***************************************************************************)
RequestSequence ==
    \A i \in 1..Len(tx) :
        tx[i].kind = "connect" =>
            /\ i = 2
            /\ tx[1] = Greeting
            /\ Len(got) >= 2 /\ got[1] = 5 /\ got[2] = 0
            /\ tx[i].lenByte = tx[i].nameLen

(***************************************************************************)
(* Every call of Socks5() returns: a proxy that accepts the TCP connection *)
(* and then sends nothing can not hold the dialing thread forever (the     *)
(* handshake's reads would need a timeout for this).                       *)
(***************************************************************************)
HandshakeReturns == <>(result # "none")

=============================================================================
