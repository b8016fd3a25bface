---------------------------- MODULE ProxyConnect ----------------------------
(***************************************************************************)
(* Outbound connection establishment of netbase.cpp: ConnectSocketByName,  *)
(* ConnectSocket and ConnectSocketDirectly, run by several dialing threads *)
(* at once, against the shared ProxyRegistry that a configuring thread may *)
(* change meanwhile.  Each read of the registry is its own step, as each   *)
(* takes cs_proxyInfos separately in the code.  Socket work inside one     *)
(* call touches no shared state and is one step with one outcome per error *)
(* path.  The SOCKS5 handshake is one step whose outcome obeys Socks5's    *)
(* SocketOwnership: success leaves the socket open, failure closes it.     *)
(***************************************************************************)
EXTENDS Naturals, FiniteSets, ProxyRegistry

CONSTANTS
    Threads,      \* dialing threads
    Dests,        \* destination addresses (CService), as records [fam, net]
    Names,        \* host strings handed to ConnectSocketByName
    NameKind,     \* Names -> {"numeric", "onion", "b32", "base64", "host"}
    NameDest,     \* Names -> Dests: what the name resolves to when it resolves
    fNameLookup,  \* -dns: hostname lookups allowed
    MaxSets,      \* bound on the configuring thread's calls
    NoDest        \* CService("0.0.0.0:0") / no address

Families == {"ipv4", "ipv6", "tor", "i2p"}

ASSUME ConnectAssumption ==
    /\ Threads # {}
    /\ Dests \subseteq [fam : Families, net : Nets]
    /\ NameKind \in [Names -> {"numeric", "onion", "b32", "base64", "host"}]
    /\ NameDest \in [Names -> Dests]
    /\ fNameLookup \in BOOLEAN
    /\ MaxSets \in Nat
    /\ NoDest \notin Dests

\* CService::GetNetwork() and the family the address bytes carry.
Net(d) == d.net

VARIABLES
    tpc,      \* per thread: the step of the call it is in
    tcall,    \* per thread: [kind, name, dest] of its call
    taddr,    \* per thread: the CService it connects to (addr / addrDest)
    tnp,      \* per thread: ConnectSocketByName's local copy of the name proxy
    tproxy,   \* per thread: ConnectSocket's local copy of the proxy
    tsock,    \* per thread: the socket it holds: "none", "open", "closed"
    tres,     \* per thread: "none", then the bool returned as "ok" / "fail"
    tconn,    \* per thread: what its socket reaches: [via, dest, ep]
    tstart,   \* per thread (history): the registry when its call began
    dialed,   \* per thread (history): endpoints passed to ConnectSocketDirectly
    dns,      \* (history) pairs <<thread, name>> sent to the system resolver
    nsets     \* calls the configuring thread has made

connVars == <<tpc, tcall, taddr, tnp, tproxy, tsock, tres, tconn, tstart,
              dialed, dns>>
vars == <<regVars, connVars, nsets>>

Pcs == {"idle", "npGet", "resolve", "npHave", "npDirect", "npSocks",
        "csStart", "csGetProxy", "csDirect", "csProxyDirect", "csSocks", "done"}

Calls == [kind : {"byname"}, name : Names, dest : {NoDest}]
         \cup [kind : {"connect"}, name : {"none"}, dest : Dests]

NoCall == [kind |-> "none", name |-> "none", dest |-> NoDest]

Vias == {"none", "direct", "proxy", "nameproxy", "i2p"}
NoConn == [via |-> "none", dest |-> NoDest, ep |-> NoService]

(***************************************************************************)
(* ConnectSocketDirectly(addrConnect, hSocketRet, nTimeout): how it can    *)
(* end.  "nosock": GetSockAddr() refuses a network that is neither IPv4    *)
(* nor IPv6 (Tor, I2P), or socket() fails.  "closed": setting O_NONBLOCK   *)
(* fails, connect() fails, select() times out or fails, getsockopt() fails *)
(* or reports an error, or restoring blocking mode fails; the socket is    *)
(* closed.  "open": connected within nTimeout and back in blocking mode.   *)
(* The default CService is [::]:0, which no connect() reaches.             *)
(***************************************************************************)
DirectOutcomes(fam, isNoService) ==
    IF fam \notin {"ipv4", "ipv6"} THEN {"nosock"}
    ELSE IF isNoService THEN {"nosock", "closed"}
    ELSE {"nosock", "closed", "open"}

\* Proxy endpoints are IPv4 services; NoService is the all-zero IPv6 address.
EpFamily(ep) == IF ep = NoService THEN "ipv6" ELSE "ipv4"

(***************************************************************************)
(* I2PSession::connect() then SetI2pSocketOptions(streamSocket): no socket *)
(* (INVALID_SOCKET), a socket closed because O_NONBLOCK could not be set,  *)
(* or an open one.                                                         *)
(***************************************************************************)
I2pOutcomes == {"nosock", "closed", "open"}

\* Socks5(strDest, port, hSocket): "ok" keeps the socket, "fail" closes it.
SocksOutcomes == {"ok", "fail"}

(***************************************************************************)
(* CNetAddr::SetSpecial(strName) on an overlay name, as LookupIntern uses  *)
(* it: an .onion name decodes; a base64 I2P destination is taken as is; a  *)
(* .b32.i2p name is looked up in the address book or by the I2P router     *)
(* only when fNameLookup (with dns=0 it fails even when the address book   *)
(* has it), and a lookup may find nothing.  An I2P name that fails is a    *)
(* final failure of LookupIntern.  NoDest means failure.                  *)
(***************************************************************************)
SpecialKinds == {"onion", "b32", "base64"}

SetSpecialResults(name) ==
    IF NameKind[name] = "b32"
      THEN IF fNameLookup THEN {NameDest[name], NoDest} ELSE {NoDest}
      ELSE {NameDest[name]}

(***************************************************************************)
(* LookupHost(strDest, vIP, 1, fAllowLookup) as LookupIntern runs it:      *)
(* SetSpecial() first, then a numeric parse, then getaddrinfo(), which     *)
(* asks the system resolver only when fAllowLookup and may find nothing.   *)
(***************************************************************************)
LookupResults(name, fAllowLookup) ==
    CASE NameKind[name] \in SpecialKinds -> SetSpecialResults(name)
      [] NameKind[name] = "numeric"     -> {NameDest[name]}
      [] NameKind[name] = "host" ->
            IF fAllowLookup THEN {NameDest[name], NoDest} ELSE {NoDest}

\* getaddrinfo() without AI_NUMERICHOST: the name leaves the process.
AsksResolver(name, fAllowLookup) == NameKind[name] = "host" /\ fAllowLookup

Finish(t, res, conn) ==
    /\ tpc' = [tpc EXCEPT ![t] = "done"]
    /\ tres' = [tres EXCEPT ![t] = res]
    /\ tconn' = [tconn EXCEPT ![t] = conn]

-----------------------------------------------------------------------------

Init ==
    /\ RegInit
    /\ tpc = [t \in Threads |-> "idle"]
    /\ tcall = [t \in Threads |-> NoCall]
    /\ taddr = [t \in Threads |-> NoDest]
    /\ tnp = [t \in Threads |-> NoService]
    /\ tproxy = [t \in Threads |-> NoService]
    /\ tsock = [t \in Threads |-> "none"]
    /\ tres = [t \in Threads |-> "none"]
    /\ tconn = [t \in Threads |-> NoConn]
    /\ tstart = [t \in Threads |-> [proxy |-> proxyInfo, np |-> nameProxy]]
    /\ dialed = [t \in Threads |-> {}]
    /\ dns = {}
    /\ nsets = 0

\* The caller: net.cpp's ConnectNode calls ConnectSocketByName for a host
\* string, or ConnectSocket for an address it already has.
Call(t) ==
    /\ tpc[t] = "idle"
    /\ \E c \in Calls :
         /\ tcall' = [tcall EXCEPT ![t] = c]
         /\ tpc' = [tpc EXCEPT ![t] = IF c.kind = "byname" THEN "npGet" ELSE "csStart"]
         /\ taddr' = [taddr EXCEPT ![t] = c.dest]
    /\ tstart' = [tstart EXCEPT ![t] = [proxy |-> proxyInfo, np |-> nameProxy]]
    /\ UNCHANGED <<regVars, tnp, tproxy, tsock, tres, tconn, dialed, dns, nsets>>

\* ConnectSocketByName: SplitHostPort, then GetNameProxy(nameProxy) copies a
\* valid name proxy into the local; an invalid one leaves the local default.
NpGet(t) ==
    /\ tpc[t] = "npGet"
    /\ tnp' = [tnp EXCEPT ![t] = IF HaveNameProxy THEN nameProxy ELSE NoService]
    /\ tpc' = [tpc EXCEPT ![t] = "resolve"]
    /\ UNCHANGED <<regVars, tcall, taddr, tproxy, tsock, tres, tconn, tstart,
                   dialed, dns, nsets>>

\* Mutant: the resolver is allowed whenever -dns is on, name proxy or not.
ResolveIgnoringNameProxy(t) ==
    /\ tpc[t] = "resolve"
    /\ LET name  == tcall[t].name
           allow == fNameLookup
       IN  /\ \E a \in LookupResults(name, allow) :
                /\ taddr' = [taddr EXCEPT ![t] = a]
                /\ tpc' = [tpc EXCEPT ![t] = IF a # NoDest THEN "csStart" ELSE "npHave"]
           /\ dns' = IF AsksResolver(name, allow) THEN dns \cup {<<t, name>>} ELSE dns
    /\ UNCHANGED <<regVars, tcall, tnp, tproxy, tsock, tres, tconn, tstart,
                   dialed, nsets>>

\* CService addrResolved(CNetAddr(strDest, fNameLookup && !HaveNameProxy()), port);
\* if it is valid, addr = addrResolved and ConnectSocket(addr, ...); else addr
\* is reset and the name proxy is tried.
Resolve(t) ==
    /\ tpc[t] = "resolve"
    /\ LET name  == tcall[t].name
           allow == fNameLookup /\ ~HaveNameProxy
       IN  /\ \E a \in LookupResults(name, allow) :
                /\ taddr' = [taddr EXCEPT ![t] = a]
                /\ tpc' = [tpc EXCEPT ![t] = IF a # NoDest THEN "csStart" ELSE "npHave"]
           /\ dns' = IF AsksResolver(name, allow) THEN dns \cup {<<t, name>>} ELSE dns
    /\ UNCHANGED <<regVars, tcall, tnp, tproxy, tsock, tres, tconn, tstart,
                   dialed, nsets>>

\* if (!HaveNameProxy()) return false;
NpHave(t) ==
    /\ tpc[t] = "npHave"
    /\ IF HaveNameProxy
         THEN tpc' = [tpc EXCEPT ![t] = "npDirect"] /\ UNCHANGED <<tres, tconn>>
         ELSE Finish(t, "fail", NoConn)
    /\ UNCHANGED <<regVars, tcall, taddr, tnp, tproxy, tsock, tstart, dialed,
                   dns, nsets>>

\* ConnectSocketDirectly(nameProxy, hSocket, nTimeout), with the local copy.
NpDirect(t) ==
    /\ tpc[t] = "npDirect"
    /\ dialed' = [dialed EXCEPT ![t] = @ \cup {tnp[t]}]
    /\ \E o \in DirectOutcomes(EpFamily(tnp[t]), tnp[t] = NoService) :
         IF o = "open"
           THEN /\ tsock' = [tsock EXCEPT ![t] = "open"]
                /\ tpc' = [tpc EXCEPT ![t] = "npSocks"]
                /\ UNCHANGED <<tres, tconn>>
           ELSE /\ tsock' = [tsock EXCEPT ![t] = IF o = "closed" THEN "closed" ELSE "none"]
                /\ Finish(t, "fail", NoConn)
    /\ UNCHANGED <<regVars, tcall, taddr, tnp, tproxy, tstart, dns, nsets>>

\* Mutant: a failed handshake returns without closing the socket.
NpSocksNoClose(t) ==
    /\ tpc[t] = "npSocks"
    /\ \E o \in SocksOutcomes :
         IF o = "ok"
           THEN Finish(t, "ok", [via |-> "nameproxy", dest |-> NoDest, ep |-> tnp[t]])
           ELSE Finish(t, "fail", NoConn)
    /\ UNCHANGED <<regVars, tcall, taddr, tnp, tproxy, tsock, tstart, dialed, dns, nsets>>

\* Socks5(strDest, port, hSocket): the proxy resolves the name.
NpSocks(t) ==
    /\ tpc[t] = "npSocks"
    /\ \E o \in SocksOutcomes :
         IF o = "ok"
           THEN Finish(t, "ok", [via |-> "nameproxy", dest |-> NoDest, ep |-> tnp[t]])
                /\ UNCHANGED tsock
           ELSE Finish(t, "fail", NoConn)
                /\ tsock' = [tsock EXCEPT ![t] = "closed"]
    /\ UNCHANGED <<regVars, tcall, taddr, tnp, tproxy, tstart, dialed, dns, nsets>>

\* Mutant: the proxy is looked up by the address family, not GetNetwork().
CsStartByFamily(t) ==
    /\ tpc[t] = "csStart"
    /\ IF taddr[t].fam = "i2p"
         THEN \E o \in I2pOutcomes :
                 /\ tsock' = [tsock EXCEPT ![t] = IF o = "open" THEN "open"
                                                  ELSE IF o = "closed" THEN "closed"
                                                  ELSE "none"]
                 /\ IF o = "open"
                      THEN Finish(t, "ok", [via |-> "i2p", dest |-> taddr[t], ep |-> NoService])
                      ELSE Finish(t, "fail", NoConn)
                 /\ UNCHANGED tproxy
         ELSE /\ tproxy' = [tproxy EXCEPT ![t] = IF HasProxy(taddr[t].fam)
                                                 THEN GetProxy(taddr[t].fam)
                                                 ELSE NoService]
              /\ tpc' = [tpc EXCEPT ![t] = IF HasProxy(taddr[t].fam)
                                           THEN "csProxyDirect" ELSE "csDirect"]
              /\ UNCHANGED <<tsock, tres, tconn>>
    /\ UNCHANGED <<regVars, tcall, taddr, tnp, tstart, dialed, dns, nsets>>

(***************************************************************************)
(* ConnectSocket(addrDest, ...): an I2P address goes to the I2P session,   *)
(* which hands back a socket or INVALID_SOCKET, then SetI2pSocketOptions   *)
(* sets it non-blocking (closing it if that fails); otherwise the proxy    *)
(* for GetNetwork() is looked up, under cs_proxyInfos.                     *)
(***************************************************************************)
CsStart(t) ==
    /\ tpc[t] = "csStart"
    /\ IF taddr[t].fam = "i2p"
         THEN \E o \in I2pOutcomes :
                 /\ tsock' = [tsock EXCEPT ![t] = IF o = "open" THEN "open"
                                                  ELSE IF o = "closed" THEN "closed"
                                                  ELSE "none"]
                 /\ IF o = "open"
                      THEN Finish(t, "ok", [via |-> "i2p", dest |-> taddr[t], ep |-> NoService])
                      ELSE Finish(t, "fail", NoConn)
                 /\ UNCHANGED tproxy
         ELSE /\ tproxy' = [tproxy EXCEPT ![t] = IF HasProxy(Net(taddr[t]))
                                                 THEN GetProxy(Net(taddr[t]))
                                                 ELSE NoService]
              /\ tpc' = [tpc EXCEPT ![t] = IF HasProxy(Net(taddr[t]))
                                           THEN "csProxyDirect" ELSE "csDirect"]
              /\ UNCHANGED <<tsock, tres, tconn>>
    /\ UNCHANGED <<regVars, tcall, taddr, tnp, tstart, dialed, dns, nsets>>

\* No proxy for the network: ConnectSocketDirectly(addrDest, hSocketRet, nTimeout).
CsDirect(t) ==
    /\ tpc[t] = "csDirect"
    /\ \E o \in DirectOutcomes(taddr[t].fam, FALSE) :
         /\ tsock' = [tsock EXCEPT ![t] = IF o = "open" THEN "open"
                                          ELSE IF o = "closed" THEN "closed" ELSE "none"]
         /\ IF o = "open"
              THEN Finish(t, "ok", [via |-> "direct", dest |-> taddr[t], ep |-> NoService])
              ELSE Finish(t, "fail", NoConn)
    /\ UNCHANGED <<regVars, tcall, taddr, tnp, tproxy, tstart, dialed, dns, nsets>>

\* Mutant: the destination is dialled in place of the proxy server.
CsProxyDirectSwapped(t) ==
    /\ tpc[t] = "csProxyDirect"
    /\ dialed' = [dialed EXCEPT ![t] = @ \cup {taddr[t]}]
    /\ \E o \in DirectOutcomes(taddr[t].fam, FALSE) :
         IF o = "open"
           THEN /\ tsock' = [tsock EXCEPT ![t] = "open"]
                /\ tpc' = [tpc EXCEPT ![t] = "csSocks"]
                /\ UNCHANGED <<tres, tconn>>
           ELSE /\ tsock' = [tsock EXCEPT ![t] = IF o = "closed" THEN "closed" ELSE "none"]
                /\ Finish(t, "fail", NoConn)
    /\ UNCHANGED <<regVars, tcall, taddr, tnp, tproxy, tstart, dns, nsets>>

\* First connect to the proxy server.
CsProxyDirect(t) ==
    /\ tpc[t] = "csProxyDirect"
    /\ dialed' = [dialed EXCEPT ![t] = @ \cup {tproxy[t]}]
    /\ \E o \in DirectOutcomes(EpFamily(tproxy[t]), tproxy[t] = NoService) :
         IF o = "open"
           THEN /\ tsock' = [tsock EXCEPT ![t] = "open"]
                /\ tpc' = [tpc EXCEPT ![t] = "csSocks"]
                /\ UNCHANGED <<tres, tconn>>
           ELSE /\ tsock' = [tsock EXCEPT ![t] = IF o = "closed" THEN "closed" ELSE "none"]
                /\ Finish(t, "fail", NoConn)
    /\ UNCHANGED <<regVars, tcall, taddr, tnp, tproxy, tstart, dns, nsets>>

\* Socks5(addrDest.ToStringIP(), addrDest.GetPort(), hSocket).
CsSocks(t) ==
    /\ tpc[t] = "csSocks"
    /\ \E o \in SocksOutcomes :
         IF o = "ok"
           THEN Finish(t, "ok", [via |-> "proxy", dest |-> taddr[t], ep |-> tproxy[t]])
                /\ UNCHANGED tsock
           ELSE Finish(t, "fail", NoConn)
                /\ tsock' = [tsock EXCEPT ![t] = "closed"]
    /\ UNCHANGED <<regVars, tcall, taddr, tnp, tproxy, tstart, dialed, dns, nsets>>

\* The configuring thread: SetProxy / SetNameProxy with any endpoint, valid or not.
Configure ==
    /\ nsets < MaxSets
    /\ nsets' = nsets + 1
    /\ \E s \in Services :
         \/ \E n \in Nets : SetProxy(n, s)
         \/ SetNameProxy(s)
    /\ UNCHANGED connVars

Dial(t) ==
    \/ Call(t) \/ NpGet(t) \/ Resolve(t) \/ NpHave(t) \/ NpDirect(t)
    \/ NpSocks(t) \/ CsStart(t) \/ CsDirect(t) \/ CsProxyDirect(t) \/ CsSocks(t)

Next == Configure \/ \E t \in Threads : Dial(t)

Spec == Init /\ [][Next]_vars

-----------------------------------------------------------------------------
(* Properties *)

TypeOK ==
    /\ RegTypeOK
    /\ tpc \in [Threads -> Pcs]
    /\ tcall \in [Threads -> Calls \cup {NoCall}]
    /\ taddr \in [Threads -> Dests \cup {NoDest}]
    /\ tnp \in [Threads -> Services]
    /\ tproxy \in [Threads -> Services]
    /\ tsock \in [Threads -> {"none", "open", "closed"}]
    /\ tres \in [Threads -> {"none", "ok", "fail"}]
    /\ tconn \in [Threads -> [via : Vias, dest : Dests \cup {NoDest}, ep : Services]]
    /\ tstart \in [Threads -> [proxy : [Nets -> Services], np : Services]]
    /\ dialed \in [Threads -> SUBSET Services]
    /\ dns \subseteq Threads \X Names
    /\ nsets \in 0..MaxSets

(***************************************************************************)
(* Every call of ConnectSocketByName / ConnectSocket that returns false    *)
(* holds no open socket, and one that returns true hands back an open one: *)
(* across ConnectSocketDirectly, Socks5 and the I2P path no failure leaks  *)
(* a descriptor and no success returns a closed one.                       *)
(***************************************************************************)
NoSocketLeak ==
    \A t \in Threads :
        /\ tres[t] = "fail" => tsock[t] # "open"
        /\ tres[t] = "ok" => tsock[t] = "open"

(***************************************************************************)
(* A proxy once configured is never bypassed: a connection that reaches    *)
(* its destination directly, without SOCKS5, was made by a call that began *)
(* when no proxy was set for the destination's network.  This holds        *)
(* although SetProxy runs concurrently with dials, because ConnectSocket   *)
(* reads the table once and SetProxy never clears an entry.                *)
(***************************************************************************)
ProxyNeverBypassed ==
    \A t \in Threads :
        tres[t] = "ok" /\ tconn[t].via = "direct" =>
            tstart[t].proxy[Net(tconn[t].dest)] = NoService

(***************************************************************************)
(* With a name proxy configured, ConnectSocketByName never hands a host    *)
(* name to the system resolver (no DNS leak): the name goes to the proxy.  *)
(***************************************************************************)
NoResolverLeak ==
    \A p \in dns : tstart[p[1]].np = NoService

(***************************************************************************)
(* ConnectSocketByName dials only a configured name proxy, never the       *)
(* default endpoint: the copy it took by GetNameProxy and the later        *)
(* HaveNameProxy() agree.                                                  *)
(***************************************************************************)
NameProxyDialedValid ==
    \A t \in Threads : NoService \notin dialed[t]

-----------------------------------------------------------------------------
(***************************************************************************)
(* The dialing threads seen from their callers: a thread is busy from its  *)
(* call to its return, and what it returns is its result, its connection  *)
(* and, once returned, its socket.                                         *)
(***************************************************************************)
Abstract == INSTANCE ConnectAbstract WITH
    status <- [t \in Threads |-> IF tpc[t] = "idle" THEN "idle"
                                 ELSE IF tpc[t] = "done" THEN "done" ELSE "busy"],
    result <- tres,
    conn   <- tconn,
    sock   <- [t \in Threads |-> IF tpc[t] = "done" THEN tsock[t] ELSE "none"],
    snap   <- tstart

(***************************************************************************)
(* ConnectSocketByName and ConnectSocket implement ConnectAbstract: every  *)
(* call returns once, false with no open socket or true with an open one,  *)
(* and a true return reached its destination directly only when no proxy  *)
(* was set for its network at the call, through a valid SOCKS5 proxy set   *)
(* for its network, through a configured name proxy, or an I2P destination *)
(* only through the I2P session, whatever SetProxy does meanwhile.         *)
(***************************************************************************)
ImplementsConnectAbstract == Abstract!ASpec

=============================================================================
