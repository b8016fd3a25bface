--------------------------- MODULE ConnectAbstract ---------------------------
(***************************************************************************)
(* What a dial promises its caller, without the steps inside it: a call    *)
(* begins, takes a snapshot of nothing but the registry, and returns once, *)
(* either false holding no open socket, or true holding an open socket on  *)
(* one of the routes the configuration allows.  The registry changes only  *)
(* by SetProxy and SetNameProxy.                                           *)
(***************************************************************************)
EXTENDS ProxyRegistry

CONSTANTS Threads, Dests, NoDest

ANet(d) == d.net

VARIABLES status,   \* per thread: "idle", "busy" (in a call), "done"
          result,   \* per thread: "none", "ok", "fail"
          conn,     \* per thread: the route of the connection returned
          sock,     \* per thread: the socket returned: "none", "open", "closed"
          snap      \* per thread: the registry when the call began

avars == <<proxyInfo, nameProxy, status, result, conn, sock, snap>>

ANoConn == [via |-> "none", dest |-> NoDest, ep |-> NoService]

(***************************************************************************)
(* The routes a successful call of thread t may return, in the current     *)
(* registry: directly only to an IP destination whose network had no proxy *)
(* when the call began; through the SOCKS5 proxy, a valid endpoint, only   *)
(* for a non-I2P destination whose network has a proxy; through a valid    *)
(* name proxy that is configured; an I2P destination only through the I2P  *)
(* session.                                                                *)
(***************************************************************************)
Routes(t) ==
    [via : {"direct"}, ep : {NoService},
     dest : {d \in Dests : d.fam \in {"ipv4", "ipv6"} /\ snap[t].proxy[ANet(d)] = NoService}]
    \cup
    [via : {"proxy"}, ep : Endpoints,
     dest : {d \in Dests : d.fam # "i2p" /\ proxyInfo[ANet(d)] # NoService}]
    \cup
    (IF nameProxy # NoService
       THEN [via : {"nameproxy"}, ep : Endpoints, dest : {NoDest}] ELSE {})
    \cup
    [via : {"i2p"}, ep : {NoService}, dest : {d \in Dests : d.fam = "i2p"}]

AInit ==
    /\ RegInit
    /\ status = [t \in Threads |-> "idle"]
    /\ result = [t \in Threads |-> "none"]
    /\ conn = [t \in Threads |-> ANoConn]
    /\ sock = [t \in Threads |-> "none"]
    /\ snap = [t \in Threads |-> [proxy |-> proxyInfo, np |-> nameProxy]]

Begin(t) ==
    /\ status[t] = "idle"
    /\ status' = [status EXCEPT ![t] = "busy"]
    /\ snap' = [snap EXCEPT ![t] = [proxy |-> proxyInfo, np |-> nameProxy]]
    /\ UNCHANGED <<proxyInfo, nameProxy, result, conn, sock>>

Return(t) ==
    /\ status[t] = "busy"
    /\ status' = [status EXCEPT ![t] = "done"]
    /\ \/ /\ result' = [result EXCEPT ![t] = "fail"]
          /\ conn' = [conn EXCEPT ![t] = ANoConn]
          /\ \E s \in {"none", "closed"} : sock' = [sock EXCEPT ![t] = s]
       \/ /\ result' = [result EXCEPT ![t] = "ok"]
          /\ \E c \in Routes(t) : conn' = [conn EXCEPT ![t] = c]
          /\ sock' = [sock EXCEPT ![t] = "open"]
    /\ UNCHANGED <<proxyInfo, nameProxy, snap>>

Set ==
    /\ \E s \in Services :
         \/ \E n \in Nets : SetProxy(n, s)
         \/ SetNameProxy(s)
    /\ UNCHANGED <<status, result, conn, sock, snap>>

ANext == Set \/ \E t \in Threads : Begin(t) \/ Return(t)

ASpec == AInit /\ [][ANext]_avars
=============================================================================
