------------------------- MODULE ProxyConnect_proofs -------------------------
(***************************************************************************)
(* Proofs that the dialing threads of ProxyConnect never leak a socket,    *)
(* never bypass a proxy configured before their call began, and never      *)
(* send a name to the system resolver once a name proxy was configured,    *)
(* for every number of threads, endpoints, networks and names.             *)
(***************************************************************************)
EXTENDS ProxyConnect, TLAPS

\* The steps at which a thread holds no socket and has no result yet.
SocketlessPcs == {"idle", "npGet", "resolve", "npHave", "npDirect",
                  "csStart", "csGetProxy", "csDirect", "csProxyDirect"}

(***************************************************************************)
(* What a thread's step says of its socket and result: before the socket   *)
(* is made there is none, during a handshake it is open, and only a        *)
(* finished call has a result.                                             *)
(***************************************************************************)
PhaseOK(t) ==
    /\ tpc[t] \in SocketlessPcs => tsock[t] = "none" /\ tres[t] = "none"
    /\ tpc[t] \in {"npSocks", "csSocks"} => tsock[t] = "open" /\ tres[t] = "none"
    /\ tpc[t] = "done" => tres[t] # "none"
    /\ tpc[t] \in {"npGet", "resolve"} => tcall[t].name \in Names
    /\ tpc[t] = "csStart" => taddr[t] \in Dests

(***************************************************************************)
(* SetProxy never clears an entry: whatever was set when a call began is   *)
(* still set.                                                              *)
(***************************************************************************)
RegistryGrew(t) ==
    /\ \A n \in Nets : tstart[t].proxy[n] # NoService => proxyInfo[n] # NoService
    /\ tstart[t].np # NoService => nameProxy # NoService

\* A thread waiting to dial directly found no proxy when its call began.
DirectOK(t) ==
    tpc[t] = "csDirect" => tstart[t].proxy[Net(taddr[t])] = NoService

\* NoSocketLeak and ProxyNeverBypassed for one thread.
ResultOK(t) ==
    /\ tres[t] = "fail" => tsock[t] # "open" /\ tconn[t] = NoConn
    /\ tres[t] = "ok" => tsock[t] = "open"
    /\ tres[t] = "ok" /\ tconn[t].via = "direct" =>
          tstart[t].proxy[Net(tconn[t].dest)] = NoService

(***************************************************************************)
(* What a thread holds on the way to each route: a thread about to dial   *)
(* or talk to a SOCKS5 proxy has a non-I2P destination whose network has a *)
(* proxy, and a valid proxy copy; one past NpHave saw a name proxy; one    *)
(* talking to the name proxy has a valid copy of it; and a call that       *)
(* returned true returned one of the routes ConnectAbstract allows.        *)
(***************************************************************************)
RouteOK(t) ==
    /\ tpc[t] \in {"csProxyDirect", "csSocks"} =>
          /\ taddr[t] \in Dests /\ taddr[t].fam # "i2p"
          /\ proxyInfo[Net(taddr[t])] # NoService
          /\ tproxy[t] \in Endpoints
    /\ tpc[t] = "csDirect" => taddr[t] \in Dests
    /\ tpc[t] \in {"npDirect", "npSocks"} => nameProxy # NoService
    /\ tpc[t] = "npSocks" => tnp[t] \in Endpoints
    /\ tres[t] = "ok" => tconn[t] \in Abstract!Routes(t)

ThreadInv(t) == PhaseOK(t) /\ RegistryGrew(t) /\ DirectOK(t) /\ ResultOK(t) /\ RouteOK(t)

\* A name sent to the resolver came from a call under way, begun with no name proxy.
DnsOK == \A p \in dns : tpc[p[1]] # "idle" /\ tstart[p[1]].np = NoService

(***************************************************************************)
(* The inductive invariant: ProxyNeverBypassed needs the fact that a       *)
(* thread waiting to dial directly found no proxy (DirectOK), and that     *)
(* fact, like NoResolverLeak, needs the registry to have only grown since  *)
(* the thread's call began (RegistryGrew).                                 *)
(***************************************************************************)
IInv ==
    /\ TypeOK
    /\ DnsOK
    /\ \A t \in Threads : ThreadInv(t)

\* The step leaves thread u and the registry as they were.
Frame(u) ==
    /\ tpc'[u] = tpc[u] /\ tsock'[u] = tsock[u] /\ tres'[u] = tres[u]
    /\ tconn'[u] = tconn[u] /\ tstart'[u] = tstart[u] /\ taddr'[u] = taddr[u]
    /\ tcall'[u] = tcall[u] /\ tproxy'[u] = tproxy[u] /\ tnp'[u] = tnp[u]
    /\ proxyInfo' = proxyInfo /\ nameProxy' = nameProxy

-----------------------------------------------------------------------------
USE ConnectAssumption, RegistryAssumption

\* A fresh registry has no entry, so every start snapshot is all NoService.
LEMMA IInvInit == Init => IInv
<1> SUFFICES ASSUME Init PROVE IInv
    OBVIOUS
<1>1. TypeOK
    BY DEF Init, RegInit, TypeOK, RegTypeOK, Services, Pcs, Calls, NoCall, NoConn, Vias
<1>2. \A t \in Threads : ThreadInv(t)
    BY DEF Init, RegInit, ThreadInv, PhaseOK, RegistryGrew, DirectOK, ResultOK, RouteOK, Abstract!Routes, Abstract!ANet, SocketlessPcs
<1>3. QED
    BY <1>1, <1>2 DEF Init, IInv, DnsOK

\* The invariant gives the three properties the runs check.
LEMMA IInvProperties ==
    IInv => NoSocketLeak /\ ProxyNeverBypassed /\ NoResolverLeak
BY DEF IInv, ThreadInv, ResultOK, RouteOK, Abstract!Routes, Abstract!ANet, DnsOK, NoSocketLeak, ProxyNeverBypassed, NoResolverLeak

\* A step of thread t that leaves every other thread and the registry alone,
\* and keeps t's own invariant, the type and DnsOK, keeps IInv.
LEMMA ThreadStep ==
    ASSUME IInv, NEW t \in Threads,
           TypeOK', DnsOK', ThreadInv(t)',
           \A u \in Threads \ {t} : Frame(u)
    PROVE  IInv'
<1> SUFFICES ASSUME NEW u \in Threads \ {t} PROVE ThreadInv(u)'
    BY DEF IInv
<1>1. ThreadInv(u) /\ Frame(u)
    BY DEF IInv
<1> QED
    BY <1>1 DEF Frame, ThreadInv, PhaseOK, RegistryGrew, DirectOK, ResultOK, RouteOK, Abstract!Routes, Abstract!ANet

\* SetProxy and SetNameProxy only store valid endpoints: nothing is cleared.
\* The caller's view of a thread's state (the refinement mapping).
AStatus == [u \in Threads |-> IF tpc[u] = "idle" THEN "idle"
                              ELSE IF tpc[u] = "done" THEN "done" ELSE "busy"]
ASock == [u \in Threads |-> IF tpc[u] = "done" THEN tsock[u] ELSE "none"]

\* A step inside a call, which neither begins nor ends it, is invisible to the caller.
LEMMA StutterStep ==
    ASSUME IInv, TypeOK', NEW t \in Threads,
           tpc[t] \notin {"idle", "done"}, tpc'[t] \notin {"idle", "done"},
           tres'[t] = tres[t], tconn'[t] = tconn[t], tstart'[t] = tstart[t],
           proxyInfo' = proxyInfo, nameProxy' = nameProxy,
           \A u \in Threads \ {t} : Frame(u)
    PROVE  [Abstract!ANext]_Abstract!avars
<1>1. AStatus' = AStatus /\ ASock' = ASock
    BY DEF AStatus, ASock, Frame, IInv, TypeOK
<1>2. tres' = tres /\ tconn' = tconn /\ tstart' = tstart
    BY DEF Frame, IInv, TypeOK
<1> QED
    BY <1>1, <1>2 DEF Abstract!avars, AStatus, ASock

(***************************************************************************)
(* A step that ends a call is ConnectAbstract's Return: its result, route  *)
(* and socket are what ResultOK and RouteOK say of a finished thread.      *)
(***************************************************************************)
LEMMA ReturnStep ==
    ASSUME IInv, TypeOK', NEW t \in Threads, ThreadInv(t)',
           tpc[t] \notin {"idle", "done"}, tpc'[t] = "done", tstart'[t] = tstart[t],
           proxyInfo' = proxyInfo, nameProxy' = nameProxy,
           \A u \in Threads \ {t} : Frame(u)
    PROVE  [Abstract!ANext]_Abstract!avars
<1>1. /\ AStatus' = [AStatus EXCEPT ![t] = "done"]
      /\ ASock' = [ASock EXCEPT ![t] = tsock'[t]]
      /\ tres' = [tres EXCEPT ![t] = tres'[t]]
      /\ tconn' = [tconn EXCEPT ![t] = tconn'[t]]
      /\ tstart' = tstart
    <2>1. AStatus' = [AStatus EXCEPT ![t] = "done"]
        BY DEF AStatus, Frame
    <2>2. ASock' = [ASock EXCEPT ![t] = tsock'[t]]
        BY DEF ASock, Frame
    <2>3. tres' = [tres EXCEPT ![t] = tres'[t]]
        BY DEF Frame, IInv, TypeOK
    <2>4. tconn' = [tconn EXCEPT ![t] = tconn'[t]]
        BY DEF Frame, IInv, TypeOK
    <2>5. tstart' = tstart
        BY DEF Frame, IInv, TypeOK
    <2> QED
        BY <2>1, <2>2, <2>3, <2>4, <2>5
<1>2. AStatus[t] = "busy"
    BY DEF AStatus
<1>3. tres'[t] \in {"ok", "fail"}
    BY DEF ThreadInv, PhaseOK, TypeOK
<1>4. Abstract!Routes(t)' = Abstract!Routes(t)
    BY <1>1 DEF Abstract!Routes
<1>5. CASE tres'[t] = "fail"
    <2>1. tconn'[t] = NoConn /\ tsock'[t] \in {"none", "closed"}
        BY <1>5 DEF ThreadInv, ResultOK, TypeOK
    <2> QED
        BY <1>1, <1>2, <1>5, <2>1 DEF Abstract!Return, Abstract!ANext, Abstract!ANoConn, NoConn,
                                      AStatus, ASock
<1>6. CASE tres'[t] = "ok"
    <2>1. tconn'[t] \in Abstract!Routes(t) /\ tsock'[t] = "open"
        BY <1>4, <1>6 DEF ThreadInv, ResultOK, RouteOK
    <2> QED
        BY <1>1, <1>2, <1>6, <2>1 DEF Abstract!Return, Abstract!ANext, AStatus, ASock
<1> QED
    BY <1>3, <1>5, <1>6

LEMMA ConfigureStep == IInv /\ Configure => IInv'
<1> SUFFICES ASSUME IInv, Configure PROVE IInv'
    OBVIOUS
<1>1. UNCHANGED connVars
    BY DEF Configure
<1>2. PICK s \in Services : (\E n \in Nets : SetProxy(n, s)) \/ SetNameProxy(s)
    BY DEF Configure
<1>3. /\ RegTypeOK'
      /\ \A n \in Nets : proxyInfo[n] # NoService => proxyInfo'[n] # NoService
      /\ nameProxy # NoService => nameProxy' # NoService
    <2>1. CASE \E n \in Nets : SetProxy(n, s)
        BY <2>1 DEF SetProxy, IsValidService, Services, IInv, TypeOK, RegTypeOK
    <2>2. CASE SetNameProxy(s)
        BY <2>2 DEF SetNameProxy, IsValidService, Services, IInv, TypeOK, RegTypeOK
    <2> QED
        BY <1>2, <2>1, <2>2
<1>4. TypeOK'
    BY <1>1, <1>3 DEF Configure, IInv, TypeOK, connVars
<1>5. \A t \in Threads : ThreadInv(t)'
    <2> SUFFICES ASSUME NEW t \in Threads PROVE ThreadInv(t)'
        OBVIOUS
    <2>1. (PhaseOK(t) /\ RegistryGrew(t) /\ DirectOK(t) /\ ResultOK(t))'
        BY <1>1, <1>3 DEF IInv, connVars, ThreadInv, PhaseOK, RegistryGrew, DirectOK, ResultOK
    <2>2. tres[t] = "ok" => tconn[t] \in Abstract!Routes(t)'
        <3> SUFFICES ASSUME tres[t] = "ok" PROVE tconn[t] \in Abstract!Routes(t)'
            OBVIOUS
        <3>1. tconn[t] \in Abstract!Routes(t)
            BY DEF IInv, ThreadInv, RouteOK
        <3>2. \A d \in Dests : Abstract!ANet(d) \in Nets
            BY DEF Abstract!ANet
        <3> QED
            BY <1>1, <1>3, <3>1, <3>2 DEF connVars, Abstract!Routes
    <2>3. RouteOK(t)'
        BY <1>1, <1>3, <2>2 DEF IInv, connVars, ThreadInv, RouteOK, Net
    <2> QED
        BY <2>1, <2>3 DEF ThreadInv
<1> QED
    BY <1>1, <1>4, <1>5 DEF IInv, DnsOK, connVars

\* What LookupIntern can hand back for a name is a destination or NoDest.
LEMMA LookupRange ==
    ASSUME NEW name \in Names, NEW b \in BOOLEAN
    PROVE  LookupResults(name, b) \subseteq Dests \cup {NoDest}
BY DEF LookupResults, SetSpecialResults, SpecialKinds

LEMMA CallStep == ASSUME IInv, NEW t \in Threads, Call(t)
                 PROVE IInv' /\ [Abstract!ANext]_Abstract!avars
<1>0. PICK c \in Calls :
          /\ tcall' = [tcall EXCEPT ![t] = c]
          /\ tpc' = [tpc EXCEPT ![t] = IF c.kind = "byname" THEN "npGet" ELSE "csStart"]
          /\ taddr' = [taddr EXCEPT ![t] = c.dest]
    BY DEF Call
<1>1. TypeOK'
    BY DEF IInv, Call, regVars, TypeOK, RegTypeOK, Services, Pcs, Calls, NoCall, NoConn, Vias, Finish
<1>2. DnsOK'
    BY DEF IInv, Call, regVars, DnsOK, TypeOK
<1>3. ThreadInv(t)'
    BY <1>0 DEF IInv, Call, regVars, TypeOK, Calls, ThreadInv, PhaseOK, RegistryGrew, DirectOK, ResultOK, RouteOK, Abstract!Routes, Abstract!ANet, SocketlessPcs, Finish
<1>4. \A u \in Threads \ {t} : Frame(u)
    BY DEF IInv, Call, TypeOK, Frame, Finish, regVars
<1>5. [Abstract!ANext]_Abstract!avars
    <2>0. tpc[t] = "idle" /\ tpc'[t] \in {"npGet", "csStart"}
        BY <1>0 DEF Call, IInv, TypeOK
    <2>1. AStatus' = [AStatus EXCEPT ![t] = "busy"]
        BY <2>0, <1>4 DEF AStatus, Frame
    <2>2. ASock' = ASock
        BY <1>0, <1>4 DEF Call, ASock, Frame, Calls, IInv, TypeOK
    <2>3. Abstract!Begin(t)
        BY <2>1, <2>2 DEF Call, Abstract!Begin, AStatus, ASock, regVars
    <2> QED
        BY <2>3 DEF Abstract!ANext
<1> QED
    BY <1>1, <1>2, <1>3, <1>4, <1>5, ThreadStep

LEMMA NpGetStep == ASSUME IInv, NEW t \in Threads, NpGet(t)
                 PROVE IInv' /\ [Abstract!ANext]_Abstract!avars
<1>1. TypeOK'
    BY DEF IInv, NpGet, regVars, TypeOK, RegTypeOK, Services, Pcs, Calls, NoCall, NoConn, Vias, Finish, HaveNameProxy, IsValidService
<1>2. DnsOK'
    BY DEF IInv, NpGet, regVars, DnsOK, TypeOK, HaveNameProxy, IsValidService
<1>3. ThreadInv(t)'
    BY DEF IInv, NpGet, regVars, TypeOK, ThreadInv, PhaseOK, RegistryGrew, DirectOK, ResultOK, RouteOK, Abstract!Routes, Abstract!ANet, SocketlessPcs, Finish, HaveNameProxy, IsValidService
<1>4. \A u \in Threads \ {t} : Frame(u)
    BY DEF IInv, NpGet, TypeOK, Frame, Finish, regVars
<1>5. [Abstract!ANext]_Abstract!avars
    BY <1>1, <1>4, StutterStep DEF NpGet, IInv, TypeOK, regVars
<1> QED
    BY <1>1, <1>2, <1>3, <1>4, <1>5, ThreadStep

\* Resolve adds a name to dns only when no name proxy is set, which by
\* RegistryGrew was also so when the call began.
LEMMA ResolveStep == ASSUME IInv, NEW t \in Threads, Resolve(t)
                 PROVE IInv' /\ [Abstract!ANext]_Abstract!avars
<1> DEFINE name == tcall[t].name
           allow == fNameLookup /\ ~HaveNameProxy
<1>1. name \in Names
    BY DEF IInv, ThreadInv, PhaseOK, Resolve
<1>2. PICK a \in LookupResults(name, allow) :
          /\ taddr' = [taddr EXCEPT ![t] = a]
          /\ tpc' = [tpc EXCEPT ![t] = IF a # NoDest THEN "csStart" ELSE "npHave"]
    BY DEF Resolve
<1>3. a \in Dests \cup {NoDest}
    BY <1>1, <1>2, LookupRange
<1>4. dns' = IF AsksResolver(name, allow) THEN dns \cup {<<t, name>>} ELSE dns
    BY DEF Resolve
<1>5. AsksResolver(name, allow) => tstart[t].np = NoService
    BY DEF AsksResolver, HaveNameProxy, IsValidService, IInv, TypeOK, RegTypeOK,
           Services, ThreadInv, RegistryGrew
<1>6. TypeOK'
    BY <1>1, <1>2, <1>3, <1>4 DEF IInv, Resolve, regVars, TypeOK, RegTypeOK, Services, Pcs
<1>7. DnsOK'
    BY <1>2, <1>4, <1>5 DEF IInv, Resolve, regVars, DnsOK, TypeOK
<1>8. ThreadInv(t)'
    BY <1>2, <1>3 DEF IInv, Resolve, regVars, TypeOK, ThreadInv, PhaseOK, RegistryGrew, DirectOK, ResultOK, RouteOK, Abstract!Routes, Abstract!ANet, SocketlessPcs
<1>9. \A u \in Threads \ {t} : Frame(u)
    BY <1>2 DEF IInv, Resolve, TypeOK, Frame, regVars
<1>10. [Abstract!ANext]_Abstract!avars
    BY <1>2, <1>6, <1>9, StutterStep DEF Resolve, IInv, TypeOK, regVars
<1> QED
    BY <1>6, <1>7, <1>8, <1>9, <1>10, ThreadStep


\* NpHave: the name proxy is there, or the call fails holding no socket.
LEMMA NpHaveStep == ASSUME IInv, NEW t \in Threads, NpHave(t)
                 PROVE IInv' /\ [Abstract!ANext]_Abstract!avars
<1>0. /\ tpc[t] = "npHave"
      /\ UNCHANGED <<proxyInfo, nameProxy, tcall, taddr, tnp, tproxy, tsock, tstart, dialed, dns, nsets>>
    BY DEF NpHave, regVars
<1>1. CASE HaveNameProxy
    <2>0. /\ tpc' = [tpc EXCEPT ![t] = "npDirect"] /\ tres' = tres /\ tconn' = tconn
        BY <1>0, <1>1 DEF NpHave, Finish
    <2>1. TypeOK'
        BY <1>0, <1>1, <2>0 DEF IInv, TypeOK, RegTypeOK, Services, Pcs, Calls, NoCall, NoConn, Vias
    <2>2. DnsOK'
        BY <1>0, <1>1, <2>0 DEF IInv, DnsOK, TypeOK
    <2>3. ThreadInv(t)'
        BY <1>0, <1>1, <2>0 DEF IInv, TypeOK, ThreadInv, PhaseOK, RegistryGrew, DirectOK, ResultOK, RouteOK, Abstract!Routes, Abstract!ANet, SocketlessPcs, HaveNameProxy, IsValidService
    <2>4. \A u \in Threads \ {t} : Frame(u)
        BY <1>0, <1>1, <2>0 DEF IInv, TypeOK, Frame
    <2>5. [Abstract!ANext]_Abstract!avars
        BY <1>0, <2>0, <2>1, <2>4, StutterStep DEF IInv, TypeOK
    <2> QED
        BY <2>1, <2>2, <2>3, <2>4, <2>5, ThreadStep
<1>2. CASE ~HaveNameProxy
    <2>0. /\ tpc' = [tpc EXCEPT ![t] = "done"] /\ tres' = [tres EXCEPT ![t] = "fail"]
          /\ tconn' = [tconn EXCEPT ![t] = NoConn]
        BY <1>0, <1>2 DEF NpHave, Finish
    <2>1. TypeOK'
        BY <1>0, <1>2, <2>0 DEF IInv, TypeOK, RegTypeOK, Services, Pcs, Calls, NoCall, NoConn, Vias
    <2>2. DnsOK'
        BY <1>0, <1>2, <2>0 DEF IInv, DnsOK, TypeOK
    <2>3. ThreadInv(t)'
        BY <1>0, <1>2, <2>0 DEF IInv, TypeOK, ThreadInv, PhaseOK, RegistryGrew, DirectOK, ResultOK, RouteOK, Abstract!Routes, Abstract!ANet, SocketlessPcs
    <2>4. \A u \in Threads \ {t} : Frame(u)
        BY <1>0, <1>2, <2>0 DEF IInv, TypeOK, Frame
    <2>5. [Abstract!ANext]_Abstract!avars
        BY <1>0, <2>0, <2>1, <2>3, <2>4, ReturnStep DEF IInv, TypeOK
    <2> QED
        BY <2>1, <2>2, <2>3, <2>4, <2>5, ThreadStep
<1> QED
    BY <1>1, <1>2

\* Recording a dialled endpoint keeps dialed a set of services per thread.
LEMMA DialedType ==
    ASSUME TypeOK, NEW t \in Threads, NEW e \in Services
    PROVE  [dialed EXCEPT ![t] = @ \cup {e}] \in [Threads -> SUBSET Services]
BY DEF TypeOK

\* NpDirect: one case per outcome of ConnectSocketDirectly on the name proxy.
LEMMA NpDirectStep == ASSUME IInv, NEW t \in Threads, NpDirect(t)
                 PROVE IInv' /\ [Abstract!ANext]_Abstract!avars
<1>0. /\ tpc[t] = "npDirect"
      /\ UNCHANGED <<proxyInfo, nameProxy, tcall, taddr, tnp, tproxy, tstart, dns, nsets>>
    BY DEF NpDirect, regVars
<1>1. PICK o \in DirectOutcomes(EpFamily(tnp[t]), tnp[t] = NoService) :
          /\ dialed' = [dialed EXCEPT ![t] = @ \cup {tnp[t]}]
          /\ IF o = "open"
               THEN /\ tsock' = [tsock EXCEPT ![t] = "open"]
                    /\ tpc' = [tpc EXCEPT ![t] = "npSocks"]
                    /\ UNCHANGED <<tres, tconn>>
               ELSE /\ tsock' = [tsock EXCEPT ![t] = IF o = "closed" THEN "closed" ELSE "none"]
                    /\ Finish(t, "fail", NoConn)
    BY DEF NpDirect
<1>9. dialed' \in [Threads -> SUBSET Services]
    BY <1>1, DialedType DEF IInv, TypeOK
<1>2. CASE o = "open"
    <2>0. /\ tsock' = [tsock EXCEPT ![t] = "open"] /\ tpc' = [tpc EXCEPT ![t] = "npSocks"]
          /\ tres' = tres /\ tconn' = tconn
        BY <1>0, <1>1, <1>2 DEF NpDirect, Finish
    <2>1. TypeOK'
        BY <1>0, <1>9, <1>2, <2>0 DEF IInv, TypeOK, RegTypeOK, Services, Pcs, Calls, NoCall, NoConn, Vias
    <2>2. DnsOK'
        BY <1>0, <1>1, <1>2, <2>0 DEF IInv, DnsOK, TypeOK
    <2>a. tnp[t] \in Endpoints
        BY <1>1, <1>2 DEF DirectOutcomes, EpFamily, Services, IInv, TypeOK
    <2>3. ThreadInv(t)'
        BY <1>0, <1>2, <2>0, <2>a DEF IInv, TypeOK, ThreadInv, PhaseOK, RegistryGrew, DirectOK, ResultOK, RouteOK, Abstract!Routes, Abstract!ANet, SocketlessPcs
    <2>4. \A u \in Threads \ {t} : Frame(u)
        BY <1>0, <1>1, <1>2, <2>0 DEF IInv, TypeOK, Frame
    <2>5. [Abstract!ANext]_Abstract!avars
        BY <1>0, <2>0, <2>1, <2>4, StutterStep DEF IInv, TypeOK
    <2> QED
        BY <2>1, <2>2, <2>3, <2>4, <2>5, ThreadStep
<1>3. CASE o # "open"
    <2>0. /\ tsock' = [tsock EXCEPT ![t] = IF o = "closed" THEN "closed" ELSE "none"]
          /\ tpc' = [tpc EXCEPT ![t] = "done"] /\ tres' = [tres EXCEPT ![t] = "fail"]
          /\ tconn' = [tconn EXCEPT ![t] = NoConn]
        BY <1>0, <1>1, <1>3 DEF NpDirect, Finish
    <2>1. TypeOK'
        BY <1>0, <1>9, <1>3, <2>0 DEF IInv, TypeOK, RegTypeOK, Services, Pcs, Calls, NoCall, NoConn, Vias
    <2>2. DnsOK'
        BY <1>0, <1>1, <1>3, <2>0 DEF IInv, DnsOK, TypeOK
    <2>3. ThreadInv(t)'
        BY <1>0, <1>1, <1>3, <2>0 DEF IInv, TypeOK, ThreadInv, PhaseOK, RegistryGrew, DirectOK, ResultOK, RouteOK, Abstract!Routes, Abstract!ANet, SocketlessPcs
    <2>4. \A u \in Threads \ {t} : Frame(u)
        BY <1>0, <1>1, <1>3, <2>0 DEF IInv, TypeOK, Frame
    <2>5. [Abstract!ANext]_Abstract!avars
        BY <1>0, <2>0, <2>1, <2>3, <2>4, ReturnStep DEF IInv, TypeOK
    <2> QED
        BY <2>1, <2>2, <2>3, <2>4, <2>5, ThreadStep
<1> QED
    BY <1>2, <1>3, <1>1

\* NpSocks: one case per outcome of Socks5.
LEMMA NpSocksStep == ASSUME IInv, NEW t \in Threads, NpSocks(t)
                 PROVE IInv' /\ [Abstract!ANext]_Abstract!avars
<1>0. /\ tpc[t] = "npSocks"
      /\ UNCHANGED <<proxyInfo, nameProxy, tcall, taddr, tnp, tproxy, tstart, dialed, dns, nsets>>
    BY DEF NpSocks, regVars
<1>1. PICK o \in SocksOutcomes :
          IF o = "ok"
            THEN Finish(t, "ok", [via |-> "nameproxy", dest |-> NoDest, ep |-> tnp[t]])
                 /\ UNCHANGED tsock
            ELSE Finish(t, "fail", NoConn)
                 /\ tsock' = [tsock EXCEPT ![t] = "closed"]
    BY DEF NpSocks
<1>2. CASE o = "ok"
    <2>0. /\ tpc' = [tpc EXCEPT ![t] = "done"] /\ tres' = [tres EXCEPT ![t] = "ok"]
          /\ tconn' = [tconn EXCEPT ![t] = [via |-> "nameproxy", dest |-> NoDest, ep |-> tnp[t]]]
          /\ tsock' = tsock
        BY <1>0, <1>1, <1>2 DEF NpSocks, Finish
    <2>1. TypeOK'
        BY <1>0, <1>1, <1>2, <2>0 DEF IInv, TypeOK, RegTypeOK, Services, Pcs, Calls, NoCall, NoConn, Vias
    <2>2. DnsOK'
        BY <1>0, <1>1, <1>2, <2>0 DEF IInv, DnsOK, TypeOK
    <2>3. ThreadInv(t)'
        BY <1>0, <1>1, <1>2, <2>0 DEF IInv, TypeOK, ThreadInv, PhaseOK, RegistryGrew, DirectOK, ResultOK, RouteOK, Abstract!Routes, Abstract!ANet, SocketlessPcs
    <2>4. \A u \in Threads \ {t} : Frame(u)
        BY <1>0, <1>1, <1>2, <2>0 DEF IInv, TypeOK, Frame
    <2>5. [Abstract!ANext]_Abstract!avars
        BY <1>0, <2>0, <2>1, <2>3, <2>4, ReturnStep DEF IInv, TypeOK
    <2> QED
        BY <2>1, <2>2, <2>3, <2>4, <2>5, ThreadStep
<1>3. CASE o # "ok"
    <2>0. /\ tpc' = [tpc EXCEPT ![t] = "done"] /\ tres' = [tres EXCEPT ![t] = "fail"]
          /\ tconn' = [tconn EXCEPT ![t] = NoConn]
          /\ tsock' = [tsock EXCEPT ![t] = "closed"]
        BY <1>0, <1>1, <1>3 DEF NpSocks, Finish
    <2>1. TypeOK'
        BY <1>0, <1>1, <1>3, <2>0 DEF IInv, TypeOK, RegTypeOK, Services, Pcs, Calls, NoCall, NoConn, Vias
    <2>2. DnsOK'
        BY <1>0, <1>1, <1>3, <2>0 DEF IInv, DnsOK, TypeOK
    <2>3. ThreadInv(t)'
        BY <1>0, <1>1, <1>3, <2>0 DEF IInv, TypeOK, ThreadInv, PhaseOK, RegistryGrew, DirectOK, ResultOK, RouteOK, Abstract!Routes, Abstract!ANet, SocketlessPcs
    <2>4. \A u \in Threads \ {t} : Frame(u)
        BY <1>0, <1>1, <1>3, <2>0 DEF IInv, TypeOK, Frame
    <2>5. [Abstract!ANext]_Abstract!avars
        BY <1>0, <2>0, <2>1, <2>3, <2>4, ReturnStep DEF IInv, TypeOK
    <2> QED
        BY <2>1, <2>2, <2>3, <2>4, <2>5, ThreadStep
<1> QED
    BY <1>2, <1>3, <1>1

\* CsDirect: a direct connection is made only where DirectOK says no proxy was set.
LEMMA CsDirectStep == ASSUME IInv, NEW t \in Threads, CsDirect(t)
                 PROVE IInv' /\ [Abstract!ANext]_Abstract!avars
<1>0. /\ tpc[t] = "csDirect"
      /\ UNCHANGED <<proxyInfo, nameProxy, tcall, taddr, tnp, tproxy, tstart, dialed, dns, nsets>>
    BY DEF CsDirect, regVars
<1>1. PICK o \in DirectOutcomes(taddr[t].fam, FALSE) :
          /\ tsock' = [tsock EXCEPT ![t] = IF o = "open" THEN "open"
                                           ELSE IF o = "closed" THEN "closed" ELSE "none"]
          /\ IF o = "open"
               THEN Finish(t, "ok", [via |-> "direct", dest |-> taddr[t], ep |-> NoService])
               ELSE Finish(t, "fail", NoConn)
    BY DEF CsDirect
<1>2. CASE o = "open"
    <2>0. /\ tsock' = [tsock EXCEPT ![t] = "open"]
          /\ tpc' = [tpc EXCEPT ![t] = "done"] /\ tres' = [tres EXCEPT ![t] = "ok"]
          /\ tconn' = [tconn EXCEPT ![t] = [via |-> "direct", dest |-> taddr[t], ep |-> NoService]]
        BY <1>0, <1>1, <1>2 DEF CsDirect, Finish
    <2>1. TypeOK'
        BY <1>0, <1>1, <1>2, <2>0 DEF IInv, TypeOK, RegTypeOK, Services, Pcs, Calls, NoCall, NoConn, Vias, Net
    <2>2. DnsOK'
        BY <1>0, <1>1, <1>2, <2>0 DEF IInv, DnsOK, TypeOK
    <2>3. ThreadInv(t)'
        BY <1>1, <1>0, <1>1, <1>2, <2>0 DEF IInv, TypeOK, ThreadInv, PhaseOK, RegistryGrew, DirectOK, ResultOK, RouteOK, Abstract!Routes, Abstract!ANet, SocketlessPcs, Net, DirectOutcomes, Net
    <2>4. \A u \in Threads \ {t} : Frame(u)
        BY <1>0, <1>1, <1>2, <2>0 DEF IInv, TypeOK, Frame
    <2>5. [Abstract!ANext]_Abstract!avars
        BY <1>0, <2>0, <2>1, <2>3, <2>4, ReturnStep DEF IInv, TypeOK
    <2> QED
        BY <2>1, <2>2, <2>3, <2>4, <2>5, ThreadStep
<1>3. CASE o # "open"
    <2>0. /\ tsock' = [tsock EXCEPT ![t] = IF o = "closed" THEN "closed" ELSE "none"]
          /\ tpc' = [tpc EXCEPT ![t] = "done"] /\ tres' = [tres EXCEPT ![t] = "fail"]
          /\ tconn' = [tconn EXCEPT ![t] = NoConn]
        BY <1>0, <1>1, <1>3 DEF CsDirect, Finish
    <2>1. TypeOK'
        BY <1>0, <1>1, <1>3, <2>0 DEF IInv, TypeOK, RegTypeOK, Services, Pcs, Calls, NoCall, NoConn, Vias
    <2>2. DnsOK'
        BY <1>0, <1>1, <1>3, <2>0 DEF IInv, DnsOK, TypeOK
    <2>3. ThreadInv(t)'
        BY <1>0, <1>1, <1>3, <2>0 DEF IInv, TypeOK, ThreadInv, PhaseOK, RegistryGrew, DirectOK, ResultOK, RouteOK, Abstract!Routes, Abstract!ANet, SocketlessPcs
    <2>4. \A u \in Threads \ {t} : Frame(u)
        BY <1>0, <1>1, <1>3, <2>0 DEF IInv, TypeOK, Frame
    <2>5. [Abstract!ANext]_Abstract!avars
        BY <1>0, <2>0, <2>1, <2>3, <2>4, ReturnStep DEF IInv, TypeOK
    <2> QED
        BY <2>1, <2>2, <2>3, <2>4, <2>5, ThreadStep
<1> QED
    BY <1>2, <1>3, <1>1

\* CsProxyDirect: one case per outcome of dialling the proxy.
LEMMA CsProxyDirectStep == ASSUME IInv, NEW t \in Threads, CsProxyDirect(t)
                 PROVE IInv' /\ [Abstract!ANext]_Abstract!avars
<1>0. /\ tpc[t] = "csProxyDirect"
      /\ UNCHANGED <<proxyInfo, nameProxy, tcall, taddr, tnp, tproxy, tstart, dns, nsets>>
      /\ dialed' = [dialed EXCEPT ![t] = @ \cup {tproxy[t]}]
    BY DEF CsProxyDirect, regVars
<1>1. PICK o \in DirectOutcomes(EpFamily(tproxy[t]), tproxy[t] = NoService) :
          IF o = "open"
            THEN /\ tsock' = [tsock EXCEPT ![t] = "open"]
                 /\ tpc' = [tpc EXCEPT ![t] = "csSocks"]
                 /\ UNCHANGED <<tres, tconn>>
            ELSE /\ tsock' = [tsock EXCEPT ![t] = IF o = "closed" THEN "closed" ELSE "none"]
                 /\ Finish(t, "fail", NoConn)
    BY DEF CsProxyDirect
<1>9. dialed' \in [Threads -> SUBSET Services]
    BY <1>0, DialedType DEF IInv, TypeOK
<1>2. CASE o = "open"
    <2>0. /\ tsock' = [tsock EXCEPT ![t] = "open"] /\ tpc' = [tpc EXCEPT ![t] = "csSocks"]
          /\ tres' = tres /\ tconn' = tconn
        BY <1>0, <1>1, <1>2 DEF CsProxyDirect, Finish
    <2>1. TypeOK'
        BY <1>0, <1>9, <1>2, <2>0 DEF IInv, TypeOK, RegTypeOK, Services, Pcs, Calls, NoCall, NoConn, Vias
    <2>2. DnsOK'
        BY <1>0, <1>1, <1>2, <2>0 DEF IInv, DnsOK, TypeOK
    <2>3. ThreadInv(t)'
        BY <1>0, <1>1, <1>2, <2>0 DEF IInv, TypeOK, ThreadInv, PhaseOK, RegistryGrew, DirectOK, ResultOK, RouteOK, Abstract!Routes, Abstract!ANet, SocketlessPcs
    <2>4. \A u \in Threads \ {t} : Frame(u)
        BY <1>0, <1>1, <1>2, <2>0 DEF IInv, TypeOK, Frame
    <2>5. [Abstract!ANext]_Abstract!avars
        BY <1>0, <2>0, <2>1, <2>4, StutterStep DEF IInv, TypeOK
    <2> QED
        BY <2>1, <2>2, <2>3, <2>4, <2>5, ThreadStep
<1>3. CASE o # "open"
    <2>0. /\ tsock' = [tsock EXCEPT ![t] = IF o = "closed" THEN "closed" ELSE "none"]
          /\ tpc' = [tpc EXCEPT ![t] = "done"] /\ tres' = [tres EXCEPT ![t] = "fail"]
          /\ tconn' = [tconn EXCEPT ![t] = NoConn]
        BY <1>0, <1>1, <1>3 DEF CsProxyDirect, Finish
    <2>1. TypeOK'
        BY <1>0, <1>9, <1>3, <2>0 DEF IInv, TypeOK, RegTypeOK, Services, Pcs, Calls, NoCall, NoConn, Vias
    <2>2. DnsOK'
        BY <1>0, <1>1, <1>3, <2>0 DEF IInv, DnsOK, TypeOK
    <2>3. ThreadInv(t)'
        BY <1>0, <1>1, <1>3, <2>0 DEF IInv, TypeOK, ThreadInv, PhaseOK, RegistryGrew, DirectOK, ResultOK, RouteOK, Abstract!Routes, Abstract!ANet, SocketlessPcs
    <2>4. \A u \in Threads \ {t} : Frame(u)
        BY <1>0, <1>1, <1>3, <2>0 DEF IInv, TypeOK, Frame
    <2>5. [Abstract!ANext]_Abstract!avars
        BY <1>0, <2>0, <2>1, <2>3, <2>4, ReturnStep DEF IInv, TypeOK
    <2> QED
        BY <2>1, <2>2, <2>3, <2>4, <2>5, ThreadStep
<1> QED
    BY <1>2, <1>3, <1>1

\* CsSocks: one case per outcome of Socks5.
LEMMA CsSocksStep == ASSUME IInv, NEW t \in Threads, CsSocks(t)
                 PROVE IInv' /\ [Abstract!ANext]_Abstract!avars
<1>0. /\ tpc[t] = "csSocks"
      /\ UNCHANGED <<proxyInfo, nameProxy, tcall, taddr, tnp, tproxy, tstart, dialed, dns, nsets>>
    BY DEF CsSocks, regVars
<1>1. PICK o \in SocksOutcomes :
          IF o = "ok"
            THEN Finish(t, "ok", [via |-> "proxy", dest |-> taddr[t], ep |-> tproxy[t]])
                 /\ UNCHANGED tsock
            ELSE Finish(t, "fail", NoConn)
                 /\ tsock' = [tsock EXCEPT ![t] = "closed"]
    BY DEF CsSocks
<1>2. CASE o = "ok"
    <2>0. /\ tpc' = [tpc EXCEPT ![t] = "done"] /\ tres' = [tres EXCEPT ![t] = "ok"]
          /\ tconn' = [tconn EXCEPT ![t] = [via |-> "proxy", dest |-> taddr[t], ep |-> tproxy[t]]]
          /\ tsock' = tsock
        BY <1>0, <1>1, <1>2 DEF CsSocks, Finish
    <2>1. TypeOK'
        BY <1>0, <1>1, <1>2, <2>0 DEF IInv, TypeOK, RegTypeOK, Services, Pcs, Calls, NoCall, NoConn, Vias
    <2>2. DnsOK'
        BY <1>0, <1>1, <1>2, <2>0 DEF IInv, DnsOK, TypeOK
    <2>3. ThreadInv(t)'
        BY <1>0, <1>1, <1>2, <2>0 DEF IInv, TypeOK, ThreadInv, PhaseOK, RegistryGrew, DirectOK, ResultOK, RouteOK, Abstract!Routes, Abstract!ANet, SocketlessPcs, Net
    <2>4. \A u \in Threads \ {t} : Frame(u)
        BY <1>0, <1>1, <1>2, <2>0 DEF IInv, TypeOK, Frame
    <2>5. [Abstract!ANext]_Abstract!avars
        BY <1>0, <2>0, <2>1, <2>3, <2>4, ReturnStep DEF IInv, TypeOK
    <2> QED
        BY <2>1, <2>2, <2>3, <2>4, <2>5, ThreadStep
<1>3. CASE o # "ok"
    <2>0. /\ tpc' = [tpc EXCEPT ![t] = "done"] /\ tres' = [tres EXCEPT ![t] = "fail"]
          /\ tconn' = [tconn EXCEPT ![t] = NoConn]
          /\ tsock' = [tsock EXCEPT ![t] = "closed"]
        BY <1>0, <1>1, <1>3 DEF CsSocks, Finish
    <2>1. TypeOK'
        BY <1>0, <1>1, <1>3, <2>0 DEF IInv, TypeOK, RegTypeOK, Services, Pcs, Calls, NoCall, NoConn, Vias
    <2>2. DnsOK'
        BY <1>0, <1>1, <1>3, <2>0 DEF IInv, DnsOK, TypeOK
    <2>3. ThreadInv(t)'
        BY <1>0, <1>1, <1>3, <2>0 DEF IInv, TypeOK, ThreadInv, PhaseOK, RegistryGrew, DirectOK, ResultOK, RouteOK, Abstract!Routes, Abstract!ANet, SocketlessPcs
    <2>4. \A u \in Threads \ {t} : Frame(u)
        BY <1>0, <1>1, <1>3, <2>0 DEF IInv, TypeOK, Frame
    <2>5. [Abstract!ANext]_Abstract!avars
        BY <1>0, <2>0, <2>1, <2>3, <2>4, ReturnStep DEF IInv, TypeOK
    <2> QED
        BY <2>1, <2>2, <2>3, <2>4, <2>5, ThreadStep
<1> QED
    BY <1>2, <1>3, <1>1

(***************************************************************************)
(* CsStart: an I2P destination is handed to the I2P session (one case per  *)
(* outcome); any other takes the proxy of its network, and goes on to dial *)
(* directly only when there was none, which RegistryGrew carries back to   *)
(* the snapshot taken when the call began (DirectOK).                      *)
(***************************************************************************)
LEMMA CsStartStep == ASSUME IInv, NEW t \in Threads, CsStart(t)
                 PROVE IInv' /\ [Abstract!ANext]_Abstract!avars
<1>0. /\ tpc[t] = "csStart" /\ taddr[t] \in Dests
      /\ UNCHANGED <<proxyInfo, nameProxy, tcall, taddr, tnp, tstart, dialed, dns, nsets>>
    BY DEF CsStart, regVars, IInv, ThreadInv, PhaseOK
<1>1. CASE taddr[t].fam = "i2p"
    <2>1. PICK o \in I2pOutcomes :
              /\ tsock' = [tsock EXCEPT ![t] = IF o = "open" THEN "open"
                                               ELSE IF o = "closed" THEN "closed"
                                               ELSE "none"]
              /\ IF o = "open"
                   THEN Finish(t, "ok", [via |-> "i2p", dest |-> taddr[t], ep |-> NoService])
                   ELSE Finish(t, "fail", NoConn)
              /\ UNCHANGED tproxy
        BY <1>1 DEF CsStart
    <2>2. CASE o = "open"
        <3>0. /\ tsock' = [tsock EXCEPT ![t] = "open"] /\ tproxy' = tproxy
              /\ tpc' = [tpc EXCEPT ![t] = "done"] /\ tres' = [tres EXCEPT ![t] = "ok"]
              /\ tconn' = [tconn EXCEPT ![t] = [via |-> "i2p", dest |-> taddr[t], ep |-> NoService]]
            BY <2>1, <2>2 DEF Finish
        <3>1. TypeOK'
            BY <1>0, <3>0 DEF IInv, TypeOK, RegTypeOK, Services, Pcs, Calls, NoCall, NoConn, Vias
        <3>2. DnsOK'
            BY <1>0, <3>0 DEF IInv, DnsOK, TypeOK
        <3>3. ThreadInv(t)'
            BY <1>1, <1>0, <3>0 DEF IInv, TypeOK, ThreadInv, PhaseOK, RegistryGrew, DirectOK, ResultOK, RouteOK, Abstract!Routes, Abstract!ANet, SocketlessPcs
        <3>4. \A u \in Threads \ {t} : Frame(u)
            BY <1>0, <3>0 DEF IInv, TypeOK, Frame
        <3>5. [Abstract!ANext]_Abstract!avars
            BY <1>0, <3>0, <3>1, <3>3, <3>4, ReturnStep DEF IInv, TypeOK
        <3> QED
            BY <3>1, <3>2, <3>3, <3>4, <3>5, ThreadStep
    <2>3. CASE o # "open"
        <3>0. /\ tsock' = [tsock EXCEPT ![t] = IF o = "closed" THEN "closed" ELSE "none"]
              /\ tproxy' = tproxy
              /\ tpc' = [tpc EXCEPT ![t] = "done"] /\ tres' = [tres EXCEPT ![t] = "fail"]
              /\ tconn' = [tconn EXCEPT ![t] = NoConn]
            BY <2>1, <2>3 DEF Finish
        <3>1. TypeOK'
            BY <1>0, <3>0 DEF IInv, TypeOK, RegTypeOK, Services, Pcs, Calls, NoCall, NoConn, Vias
        <3>2. DnsOK'
            BY <1>0, <3>0 DEF IInv, DnsOK, TypeOK
        <3>3. ThreadInv(t)'
            BY <1>0, <3>0 DEF IInv, TypeOK, ThreadInv, PhaseOK, RegistryGrew, DirectOK, ResultOK, RouteOK, Abstract!Routes, Abstract!ANet, SocketlessPcs
        <3>4. \A u \in Threads \ {t} : Frame(u)
            BY <1>0, <3>0 DEF IInv, TypeOK, Frame
        <3>5. [Abstract!ANext]_Abstract!avars
            BY <1>0, <3>0, <3>1, <3>3, <3>4, ReturnStep DEF IInv, TypeOK
        <3> QED
            BY <3>1, <3>2, <3>3, <3>4, <3>5, ThreadStep
    <2> QED
        BY <2>2, <2>3
<1>2. CASE taddr[t].fam # "i2p"
    <2> DEFINE n == Net(taddr[t])
    <2>1. /\ tproxy' = [tproxy EXCEPT ![t] = IF HasProxy(n) THEN GetProxy(n) ELSE NoService]
          /\ tpc' = [tpc EXCEPT ![t] = IF HasProxy(n) THEN "csProxyDirect" ELSE "csDirect"]
          /\ UNCHANGED <<tsock, tres, tconn>>
        BY <1>2 DEF CsStart
    <2>2. n \in Nets
        BY <1>0 DEF Net
    <2>3. ~HasProxy(n) => tstart[t].proxy[n] = NoService
        BY <2>2 DEF HasProxy, IsValidService, IInv, TypeOK, RegTypeOK, Services,
               ThreadInv, RegistryGrew
    <2>4. TypeOK'
        BY <1>0, <2>1, <2>2 DEF IInv, TypeOK, RegTypeOK, Services, Pcs, Calls, NoCall, NoConn, Vias, HasProxy, GetProxy, IsValidService
    <2>5. DnsOK'
        BY <1>0, <2>1 DEF IInv, DnsOK, TypeOK
    <2>6. ThreadInv(t)'
        BY <1>2, <2>2, <1>0, <2>1, <2>3 DEF IInv, TypeOK, ThreadInv, PhaseOK, RegistryGrew, DirectOK, ResultOK, RouteOK, Abstract!Routes, Abstract!ANet, SocketlessPcs, HasProxy, GetProxy, IsValidService, Net
    <2>7. \A u \in Threads \ {t} : Frame(u)
        BY <1>0, <2>1 DEF IInv, TypeOK, Frame
    <2>8. [Abstract!ANext]_Abstract!avars
        BY <1>0, <2>1, <2>4, <2>7, StutterStep DEF IInv, TypeOK, HasProxy
    <2> QED
        BY <2>4, <2>5, <2>6, <2>7, <2>8, ThreadStep
<1> QED
    BY <1>1, <1>2

\* Every step keeps IInv.
LEMMA IInvStep == IInv /\ [Next]_vars => IInv'
<1> SUFFICES ASSUME IInv, [Next]_vars PROVE IInv'
    OBVIOUS
<1>1. CASE Configure
    BY <1>1, ConfigureStep
<1>2. ASSUME NEW t \in Threads, Dial(t) PROVE IInv'
    BY <1>2, CallStep, NpGetStep, ResolveStep, NpHaveStep, NpDirectStep, NpSocksStep,
       CsStartStep, CsDirectStep, CsProxyDirectStep, CsSocksStep DEF Dial
<1>3. CASE UNCHANGED vars
    <2>1. TypeOK' /\ DnsOK'
        BY <1>3 DEF vars, regVars, connVars, IInv, TypeOK, RegTypeOK, DnsOK
    <2>2. ASSUME NEW t \in Threads PROVE ThreadInv(t)'
        <3>1. ThreadInv(t)
            BY DEF IInv
        <3>2. PhaseOK(t)' /\ RegistryGrew(t)' /\ DirectOK(t)'
            BY <1>3, <3>1 DEF vars, regVars, connVars, ThreadInv, PhaseOK, RegistryGrew, DirectOK
        <3>3. ResultOK(t)'
            BY <1>3, <3>1 DEF vars, regVars, connVars, ThreadInv, ResultOK
        <3>4. RouteOK(t)'
            BY <1>3, <3>1 DEF vars, regVars, connVars, ThreadInv, RouteOK, Abstract!Routes, Abstract!ANet
        <3> QED
            BY <3>2, <3>3, <3>4 DEF ThreadInv
    <2> QED
        BY <2>1, <2>2 DEF IInv
<1> QED
    BY <1>1, <1>2, <1>3 DEF Next

\* Every step, under IInv, is a step of ConnectAbstract or leaves its state alone.
LEMMA RefineStep == IInv /\ [Next]_vars => [Abstract!ANext]_Abstract!avars
<1> SUFFICES ASSUME IInv, [Next]_vars PROVE [Abstract!ANext]_Abstract!avars
    OBVIOUS
<1>1. CASE Configure
    <2>1. AStatus' = AStatus /\ ASock' = ASock /\ UNCHANGED <<tres, tconn, tstart>>
        BY <1>1 DEF Configure, connVars, AStatus, ASock
    <2>2. Abstract!Set
        BY <1>1, <2>1 DEF Configure, Abstract!Set, Abstract!SetProxy, Abstract!SetNameProxy,
                          SetProxy, SetNameProxy, Abstract!IsValidService, IsValidService,
                          Abstract!Services, Services, AStatus, ASock
    <2> QED
        BY <2>2 DEF Abstract!ANext
<1>2. ASSUME NEW t \in Threads, Dial(t) PROVE [Abstract!ANext]_Abstract!avars
    BY <1>2, CallStep, NpGetStep, ResolveStep, NpHaveStep, NpDirectStep, NpSocksStep,
       CsStartStep, CsDirectStep, CsProxyDirectStep, CsSocksStep DEF Dial
<1>3. CASE UNCHANGED vars
    BY <1>3 DEF vars, regVars, connVars, Abstract!avars
<1> QED
    BY <1>1, <1>2, <1>3 DEF Next

(***************************************************************************)
(* ConnectSocketByName and ConnectSocket, run by any number of threads     *)
(* while SetProxy and SetNameProxy run, keep IInv in every state.          *)
(***************************************************************************)
THEOREM ConnectInvariant == Spec => []IInv
BY IInvInit, IInvStep, PTL DEF Spec

(***************************************************************************)
(* Every thread's step, result, socket and route, the registry and the     *)
(* history variables stay in their types, for every number of threads     *)
(* (TypeOK); in particular nsets never exceeds MaxSets.                    *)
(***************************************************************************)
THEOREM TypeCorrect == Spec => []TypeOK
BY ConnectInvariant, PTL DEF IInv

(***************************************************************************)
(* No failed dial leaks a socket and every successful one returns an open  *)
(* socket (NoSocketLeak), for every number of threads and endpoints.       *)
(***************************************************************************)
THEOREM NoSocketLeakHolds == Spec => []NoSocketLeak
BY ConnectInvariant, IInvProperties, PTL

(***************************************************************************)
(* ConnectSocket never connects directly to a destination whose network    *)
(* had a proxy when the call began, however SetProxy interleaves with it   *)
(* (ProxyNeverBypassed).                                                   *)
(***************************************************************************)
THEOREM ProxyNeverBypassedHolds == Spec => []ProxyNeverBypassed
BY ConnectInvariant, IInvProperties, PTL

(***************************************************************************)
(* ConnectSocketByName never asks the system resolver for a name when a    *)
(* name proxy was set when its call began (NoResolverLeak).                *)
(***************************************************************************)
THEOREM NoResolverLeakHolds == Spec => []NoResolverLeak
BY ConnectInvariant, IInvProperties, PTL

(***************************************************************************)
(* ConnectSocketByName and ConnectSocket implement ConnectAbstract for     *)
(* every number of threads, endpoints and networks: a fresh process is a   *)
(* fresh ConnectAbstract, and each step is one of its steps or a stutter   *)
(* (ImplementsConnectAbstract).                                            *)
(***************************************************************************)
THEOREM RefinesConnectAbstract == Spec => ImplementsConnectAbstract
<1>1. Init => Abstract!AInit
    BY DEF Init, Abstract!AInit, RegInit, Abstract!RegInit, Abstract!ANoConn, NoConn
<1> QED
    BY <1>1, ConnectInvariant, RefineStep, PTL DEF Spec, ImplementsConnectAbstract, Abstract!ASpec

=============================================================================
