---------------------------- MODULE ProxyRegistry ----------------------------
(***************************************************************************)
(* The process-wide proxy settings of netbase.cpp: proxyInfo[NET_MAX], one *)
(* proxy per network, and nameProxy, all guarded by cs_proxyInfos.  Every  *)
(* operation holds the lock for its whole body, so each is one atomic step *)
(* here.  An endpoint is a model value; NoService is the default CService  *)
(* (all-zero address, port 0), the only invalid endpoint the code stores.  *)
(***************************************************************************)
CONSTANTS
    Nets,        \* enum Network: NET_UNROUTABLE, NET_IPV4, NET_IPV6, NET_TOR, NET_NATIVE_I2P
    Endpoints,   \* valid proxy endpoints (CService::IsValid() holds)
    NoService    \* CService(): invalid

ASSUME RegistryAssumption ==
    /\ Nets # {}
    /\ NoService \notin Endpoints

Services == Endpoints \cup {NoService}

\* CService::IsValid() on an endpoint.
IsValidService(s) == s \in Endpoints

VARIABLES
    proxyInfo,   \* static proxyType proxyInfo[NET_MAX]
    nameProxy    \* static CService nameProxy

regVars == <<proxyInfo, nameProxy>>

RegInit ==
    /\ proxyInfo = [n \in Nets |-> NoService]
    /\ nameProxy = NoService

\* Mutant: SetProxy without the IsValid() check, so an entry can be cleared.
SetProxyUnchecked(net, addrProxy) ==
    /\ proxyInfo' = [proxyInfo EXCEPT ![net] = addrProxy]
    /\ UNCHANGED nameProxy

\* SetProxy(net, addrProxy): an invalid endpoint is refused, the table is unchanged.
SetProxy(net, addrProxy) ==
    /\ IsValidService(addrProxy)
    /\ proxyInfo' = [proxyInfo EXCEPT ![net] = addrProxy]
    /\ UNCHANGED nameProxy

\* SetNameProxy(addrProxy): likewise for the name proxy.
SetNameProxy(addrProxy) ==
    /\ IsValidService(addrProxy)
    /\ nameProxy' = addrProxy
    /\ UNCHANGED proxyInfo

\* GetProxy(net, proxyInfoOut) succeeds iff the entry is valid; the copy it hands out.
HasProxy(net) == IsValidService(proxyInfo[net])
GetProxy(net) == proxyInfo[net]

\* GetNameProxy(nameProxyOut) copies only a valid name proxy; HaveNameProxy().
HaveNameProxy == IsValidService(nameProxy)

RegTypeOK ==
    /\ proxyInfo \in [Nets -> Services]
    /\ nameProxy \in Services

=============================================================================
