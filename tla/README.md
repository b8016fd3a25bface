# TLA+ models of the anoncoin network-address and connection layer

This directory holds the formal models of the network base of the client:
`src/unnamed/part_000` (netbase.cpp). The repository also holds the header
`src/src/qt/peertablemodel.h`, which only declares the peer table and is not
modelled (section 6). It contains:

- TLA+ modules, one per component;
- TLC configurations that model-check them on small instances;
- an abstract specification of a dial (`ConnectAbstract`) and the refinement
  that the dialing threads implement it;
- machine-checked TLAPS proofs:
  - the SOCKS5 handshake's invariants (`Socks5_proofs.tla`);
  - on unsigned-char builds, its well-formed-reply and no-overrun
    properties (`Socks5_reply_proofs.tla`);
  - for the dialing threads, the safety invariants and the refinement, for
    any number of threads (`ProxyConnect_proofs.tla`).

`PROJECT.json` lists the components, the runs, the mutants, the source lines
each definition models, the findings and the hazards.

## 1. The system

The layer is built from the following parts.

| Part | Code (part_000 lines) | State | Operations |
|---|---|---|---|
| AddressValue / EndpointValue | `CNetAddr`, `CService` (607-1440) | 16 address bytes, an I2P destination, a port | constructors, predicates, `ToString`, `GetKey` |
| NetworkClassifier | `IsRFC*`, `IsRoutable`, `GetNetwork`, `GetGroup`, `GetReachabilityFrom` (742-1228) | none: pure functions | |
| Resolver | `SplitHostPort`, `LookupIntern`, `LookupHost`, `Lookup`, `SetSpecial` (80-256, 639-740) | none of its own | blocking `getaddrinfo`, I2P naming lookup |
| ProxyRegistry | `proxyInfo`, `nameProxy`, `cs_proxyInfos` (43-45, 466-512) | process-wide | `SetProxy`, `GetProxy`, `SetNameProxy`, `GetNameProxy`, `HaveNameProxy`, `IsProxy` (not modelled) |
| Socks5Dialer | `Socks5` (257-359) | a socket and the bytes exchanged | greeting, method reply, CONNECT, reply header, bound address, bound port |
| ConnectionEstablisher | `ConnectSocketDirectly`, `SetI2pSocketOptions`, `ConnectSocket`, `ConnectSocketByName` (361-605) | per call: a socket | |
| TimeData | `AddTimeData` (1472-1525) | `setKnown`, `vTimeOffsets`, `nTimeOffset`, `fDone` | |
| Formatting | `ParseNetwork`, `GetNetworkName`, `NetworkErrorString` | none | |
| PeerTableModel | `src/src/qt/peertablemodel.h` (declarations only, not modelled) | | |

**Interaction.** Every outbound dial runs on its own thread.

- `ConnectSocketByName` first reads the name proxy. It then resolves the name,
  which asks DNS only when `fNameLookup` is set and no name proxy exists.
- If the name resolves, it calls `ConnectSocket`. That call dials an I2P
  destination through the I2P session. For any other destination it reads the
  proxy for the destination's network:
  - with no proxy, it calls `ConnectSocketDirectly`;
  - with a proxy, it connects to the proxy directly and runs `Socks5`.
- If the name does not resolve, it connects to the name proxy and runs `Socks5`
  with the unresolved name.

The registry is the only state shared between threads. Each accessor takes
`cs_proxyInfos` on its own, so two reads made in one call are two atomic steps.

**What makes it hard.**

- The SOCKS5 proxy is untrusted, and TCP may split its reply at any byte.
- `recv()` lengths come from a byte of that reply.
- Dials interleave with configuration.
- Every error path must release the socket it holds.

## 2. Modules

### `Socks5.tla`: the handshake

Constants:

- `Scripts`: the byte sequences a proxy may send.
- `DestLens`: the lengths of `strDest`.
- `CharSigned`: the signedness of plain `char` on the build.

Variables:

| Variable | Meaning |
|---|---|
| `pc` | the statement about to run |
| `sock`, `result` | `hSocket` and the returned bool |
| `link` | the proxy's side of the connection: up, closed or reset |
| `rx` | bytes not yet read |
| `got` | every byte read |
| `tx` | the messages sent |
| `destLen` | `strDest.size()` |
| `nRecv` | the length of the next bound-address read |
| `overrun` | a history flag: some recv() wrote past `pchRet3` |

Each `send`/`recv` with its check is one action:

- `CheckDest`
- `SendGreeting`
- `RecvGreetingReply`
- `SendRequest`
- `RecvReplyHeader`, which covers all four header checks and the switch's
  default branch
- `RecvDomainLen`
- `RecvBoundAddr`
- `RecvBoundPort`

`RecvResults(n)` is what a blocking `recv()` may return:

- any count from 1 up to `min(n, available)`;
- 0 after FIN;
- -1 after a reset;
- no outcome at all while the link is up and nothing has arrived, because
  the call blocks.

A negative `n`, converted to `size_t`, may fail or may read everything
available. On signed builds `AsChar` maps bytes 128..255 to negative values,
as `int nRecv = pchRet3[0]` does. The actions `ProxyClose` and `ProxyReset`
are the proxy's.

### `ProxyRegistry.tla`

- `proxyInfo` and `nameProxy` are the two variables.
- Valid endpoints are model values, and `NoService` is the default
  `CService`.
- `SetProxy` and `SetNameProxy` refuse an invalid endpoint, as lines 468 and
  485 do. A table entry is therefore never cleared.

### `ProxyConnect.tla`: dialing threads against the registry

Per-thread variables:

| Variable | Meaning |
|---|---|
| `tpc` | the step |
| `tcall` | the call made |
| `taddr` | `addr`/`addrDest` |
| `tnp` | the local copy of `nameProxy` |
| `tproxy` | the local copy of `proxy` |
| `tsock`, `tres`, `tconn` | the socket, the result, and what the socket reaches |

There are also history variables:

- `tstart`: the registry when the call began;
- `dialed`: the endpoints handed to `ConnectSocketDirectly`;
- `dns`: the names sent to the system resolver.

Each registry read is its own action:

| Action | Code |
|---|---|
| `NpGet` | `GetNameProxy`, line 584 |
| `Resolve` | `HaveNameProxy` inside the lookup, line 586 |
| `NpHave` | line 594 |
| `CsStart` | `GetProxy`, line 559 |

`ConnectSocketDirectly` is one step with one outcome per error path
(`DirectOutcomes`):

- no socket at all, for an unsupported network or a failed `socket()`;
- a closed socket, for any failure after `socket()`;
- an open socket.

`Socks5` is one step with outcome ok (socket kept) or fail (socket closed).
That abstraction is exactly the theorem `SocketOwnershipHolds`, proved of
`Socks5`.

`Configure` is the configuring thread. It calls `SetProxy` or `SetNameProxy`
with any endpoint, valid or not, at most `MaxSets` times. Name resolution
(`LookupResults`, `SetSpecialResults`) is modelled by its results:

- numeric names and `.onion` names always resolve;
- a `.b32.i2p` name resolves only with `fNameLookup`, and may not resolve;
- a host name resolves only when DNS is allowed, and may not resolve.

### `ConnectAbstract.tla`: what a dial promises

The caller's view of `ConnectSocket`/`ConnectSocketByName`, with none of the
steps inside a call. Per thread: `status` (idle, busy, done), `result`,
`conn` (the route returned), `sock`, and `snap` (the registry when the call
began). `Begin` takes the snapshot; `Return` ends the call either with
false, no connection and no open socket, or with true, an open socket and a
route from `Routes(t)`:

- direct only to an IPv4/IPv6 destination whose network had no proxy in
  the snapshot;
- through SOCKS5 only for a non-I2P destination whose network has a proxy;
- through the name proxy only while one is configured;
- I2P destinations only through the I2P session.

`Set` is `SetProxy`/`SetNameProxy` from `ProxyRegistry`.

`ProxyConnect` ends with the refinement mapping `Abstract == INSTANCE
ConnectAbstract WITH ...`: `status` is idle/done where `tpc` is, busy at
every step inside a call; `sock` is the thread's socket once it is done
and "none" before (a socket held inside a call is not yet returned);
`snap` is `tstart`. `ImplementsConnectAbstract == Abstract!ASpec` is checked
by the `proxyconnect` run and proved (`RefinesConnectAbstract`). Every step
inside a call is a stutter of the abstract spec; `Finish` is its `Return`.

`Call`, the caller in net.cpp, is not in this repository.
`Configure`, the `-proxy`/`-onion` handling in init, is not in this repository
either. It is marked `spec_modelled`.

## 3. Runs

The socks5 and proxyconnect runs use `CHECK_DEADLOCK FALSE`: a finished call is a
final state with no further step.

| Run | Expect | What it shows |
|---|---|---|
| `socks5` (MC_Socks5.cfg) | pass, 7,498 states | With unsigned char, success implies the client read exactly one RFC 1928 reply (`SuccessImpliesWellFormedReply`). No read overruns `pchRet3` (`NoBufferOverrun`). Failure closes the socket and success keeps it (`SocketOwnership`). The CONNECT is sent second, after 05 00, with the true length (`RequestSequence`). |
| `socks5_signed_overrun` | violation | Signed char: the length byte 128..255 makes `recv()` write past `pchRet3`. |
| `socks5_signed_misparse` | violation | Signed char: length byte 255 gives `nRecv = -1`. A failing `recv()` returns -1, equal to `nRecv`, so the handshake returns true on a misread reply. |
| `socks5_stall` | violation | Even with the dialing thread weakly fair, a silent proxy keeps `Socks5()` from ever returning (`HandshakeReturns`). |
| `proxyconnect` | pass, 1,091,211 states | Two threads against two `Set*` calls. `NoSocketLeak`: no socket is leaked or handed out closed. `ProxyNeverBypassed`: a connection goes direct only if no proxy for its network was set when the call began. `NoResolverLeak`: no name reaches DNS once a name proxy was set. `ImplementsConnectAbstract`: every behaviour is one of `ConnectAbstract`. |
| `proxyconnect_race` | violation | `NameProxyDialedValid`: a `SetNameProxy` between lines 584 and 594 makes the thread dial the default endpoint. |

**Bounds.**

`MC_Socks5` uses 42 scripts (126 initial states with the three hostname lengths) that cover:

- both method replies;
- every reply-header defect the code tests (version, reply code, reserved
  byte, address type);
- the three address types;
- domain lengths 0, 3, 128 and 255, which straddle the sign bit and the
  maximum;
- trailing destination data;
- replies cut short.

It uses hostname lengths 3, 255 and 256, on both sides of the check.
`recv()` segmentation, close and reset are free at every step, so every
misaligned read the code can make happens.

`MC_ProxyConnect` uses:

- two threads, enough for one dial to race the configuration while another
  reads;
- two endpoints;
- every network, with 127.0.0.1 as an unroutable IPv4 address;
- one name of each kind;
- `MaxSets = 2`, which lets both a proxy and the name proxy be set during a
  dial;
- symmetry over threads and over endpoints, which is sound because both are
  interchangeable model values.

**Fairness.** `socks5_stall` uses `WF_vars(Client)`. The dialing thread runs
whenever its `recv()`/`send()` can return. Nothing forces the proxy to close
or reset, because the code has no timer that would make it.

**Mutants.** Each property of a passing run has a mutant of the code it is
about, and the property catches it. The mutants are:

- an off-by-one length byte;
- a signed cast everywhere;
- a lax method-reply check;
- a missing `closesocket`;
- a missing length check;
- a swapped dial target;
- a missing `IsValid` in `SetProxy`;
- a resolver decision ignoring the name proxy;
- `ConnectSocket` choosing the proxy by address family instead of network
  (breaks the refinement).

`NoSocketLeak` checks the socket of `Socks5()` and the composition of the
dial paths. `ConnectSocketDirectly` (lines 361-464) enters the model only as
its outcome set `DirectOutcomes`: no socket, a closed socket on failure, an
open one on success. That set has no leaking outcome, so a missing
`closesocket` inside `ConnectSocketDirectly` itself is outside what the run
can catch.

## 4. Findings

1. **Signed-char length (code bug, line 341).** `int nRecv = pchRet3[0]` is
   negative for bytes >= 128 on x86. The proxy can then make `recv()` overrun
   the 256-byte stack buffer, or make the handshake succeed on a misread
   reply (runs `socks5_signed_*`). Reading the byte as `unsigned char` fixes
   both.
2. **No handshake timeout (line 275).** §4.5 of the spec calls a timeout at
   any step a hard failure. The code has none, and §5 leaves the bound to the
   caller.
3. **Name-proxy double read (line 594).** §5 promises no torn reads of the
   registry. `ConnectSocketByName` reads it twice. In the shipped start-up
   order the proxies are set before network threads start, so this is latent.
   It becomes real for any caller that reconfigures at run time.

## 5. Proofs

### `Socks5_proofs.tla`

Three theorems are proved by tlapm for all values of the constants: any
scripts, any lengths, signed or unsigned char.

- `TypeCorrect`: `Spec => []TypeOK`.
- `SocketOwnershipHolds`: `Spec => []SocketOwnership`.
- `RequestSequenceHolds`: `Spec => []RequestSequence`.

**The inductive invariant.** Neither property is inductive as stated: a step
from a state with the right socket but a wrong `pc`, or with a sent request
but no recorded reply, breaks it. `IInv` strengthens them with what the code
has done at each `pc`:

- the result is still "none" until `done`;
- nothing has been read before the method reply;
- `tx` is empty, then the greeting, then greeting plus CONNECT;
- the method reply 05 00 is in `got` from `request` on;
- `destLen <= 255` after the check.

IInv was checked by TLC on both char builds before it was proved.

**The argument.** The proof has one case per action.

- The four reads of the CONNECT reply share a lemma, `ReplyReadShape`. Each
  consumes bytes, sends nothing, and either moves on, fails closing the
  socket, or returns true.
- `SequenceAfterRead` shows that appending to `got` keeps the 05 00 prefix.
- Lemmas about `RecvResults`, `Taken`, `Consume` and `AsChar` bound what one
  `recv()` can return.

### `ProxyConnect_proofs.tla`

For any number of threads, endpoints, networks and names, any `MaxSets` and
either `fNameLookup`:

- `ConnectInvariant`: `Spec => []IInv`;
- `NoSocketLeakHolds`, `ProxyNeverBypassedHolds`, `NoResolverLeakHolds`:
  the three invariants of the `proxyconnect` run;
- `RefinesConnectAbstract`: `Spec => ImplementsConnectAbstract`.

**The inductive invariant.** `IInv` is `TypeOK`, `DnsOK` (every name sent to
the resolver came from a call that began with no name proxy) and, for every
thread, `ThreadInv(t)`:

- `PhaseOK`: which steps hold a socket, that the result is set exactly at
  `done`, that the call's name and destination are in range;
- `RegistryGrew`: the registry only gains entries since the call began
  (`SetProxy` refuses an invalid endpoint, so an entry is never cleared);
- `DirectOK`, `ResultOK`: a direct dial or success was decided on the
  snapshot that had no proxy for the destination's network;
- `RouteOK`: at each step of a route, the facts `Routes(t)` needs; a
  successful result's route is in `Abstract!Routes(t)`.

The invariants are not inductive without these: a thread at `csDirect`
whose `GetProxy` copy was empty is about to connect directly, and only the
phase facts and the snapshot say that this is allowed. IInv was checked by
TLC as an invariant of the `proxyconnect` instance before it was proved.

**The argument.** A thread's step changes only its own entries. `Frame(u)`
states that, and `ThreadStep` lifts one thread's `ThreadInv` plus the
frames of the others to `IInv'`. There is one lemma per action, and each
proves `IInv'` and the abstract step: `StutterStep` for a step inside a
call, `Begin` for `Call`, and `ReturnStep` for a step that ends the call;
`Configure` is `Abstract!Set`. `RefineStep` collects them, and the theorem
combines `IInv`, the initial-state mapping and `RefineStep` by PTL.

### `Socks5_reply_proofs.tla`

The two properties that the signed-char finding is about, proved where plain
char is unsigned. On signed builds they are false; `socks5_signed_*` are the
counterexamples.

- `ReplyInvariant`: `Spec => []RInv`, on either build.
- `UnsignedWellFormedReply`: `ASSUME ~CharSigned PROVE Spec => []SuccessImpliesWellFormedReply`.
- `UnsignedNoBufferOverrun`: `ASSUME ~CharSigned PROVE Spec => []NoBufferOverrun`.

**The inductive invariant.** `RInv` is `IInv` of `Socks5_proofs`, plus
`GotShape` and `UnsignedRead`.

`GotShape` says what `got` holds at each `pc`:
- 05 00 until the reply header is read;
- the six header bytes at `dlen`;
- from `addr` on, a checked `Header` (05 00 05 00 00 ATYP);
- `nRecv` equal to `AddrNeed(got)`, the length the code asks `recv()` for
  (4, 16, or the length byte read through `AsChar`);
- exactly `HdrLen + max(nRecv, 0)` bytes at `port`, and 2 more on success.

`UnsignedRead` says that on an unsigned build `nRecv` is in `0..255` and no
read has overrun. `GotShape` does not depend on char signedness. Only the
last step needs it: turning `AsChar(got[7])` into `got[7]`, and
`max(nRecv, 0)` into `nRecv`.

RInv was checked by TLC as an invariant of the `socks5` instance on both
builds before it was proved.

**The argument.** There is one lemma per read:
- `GreetReplyStep`, `ReplyHdrStep`, `DomainLenStep`, `BoundAddrStep` and
  `BoundPortStep`;
- `AppendAfterHeader` shows that bytes appended after a checked header keep
  `Header`, `HdrLen` and `AddrNeed`;
- `RecvAtMost` bounds a read by its request, so on an unsigned build
  `r <= nRecv <= 255 < 256`.

`SendStep` and `FrozenStep` cover the sends, the length check, the proxy's
close and reset, and stutters. `ShapeIsReply` turns `GotShape` into
`IsSocks5Reply` case by case on ATYP.

### Also in `ProxyConnect_proofs.tla`

`TypeCorrect` is `Spec => []TypeOK`, from `ConnectInvariant`.

**Only model-checked.**
- Liveness: `HandshakeReturns` (its violation run).
  TLAPS does not check liveness under fairness or reason about ENABLED.
- `SuccessImpliesWellFormedReply` and `NoBufferOverrun` on signed builds,
  where they are false: `socks5_signed_*` are the counterexamples.

## 6. Not modelled, and the plan

- **NetworkClassifier and AddressValue.** These are pure functions of 16
  bytes. Plan: a `NetAddr` module of `IsRFC*`, `IsRoutable`, `GetNetwork`,
  `GetGroup` and `GetReachabilityFrom`, checked against reference definitions
  from the spec's tables over bounded address sets. It would also:
  - state the `assert(IsNativeI2P())` hazard at line 548;
  - state the unroutable-network bypass at line 559, where destinations that
    `IsRoutable()` rejects (loopback, link-local, ULA; not RFC1918, which is
    routable at line 948) skip a configured IPv4 proxy.
- **TimeData.** Plan: a module for `AddTimeData` with the 200-sample median
  filter, where the median stops updating once the filter is full
  (line 1486).
- **PeerTableModel.** Only `peertablemodel.h` is in the repository. It
  declares `sort()`, `refresh()`, `getRowByNodeId()`, the `NodeLessThan`
  comparator, `PeerTablePriv` and the `QTimer`, and defines none of them.
  With no bodies there is nothing to translate: a model would only check
  definitions written here. Spec section 1 also puts graphical peer-list
  presentation out of scope.
- **IsProxy** (lines 505-512). It is a read-only query that no modelled
  caller uses. It compares `CNetAddr` and so ignores the proxy's port, which
  endpoint model values do not distinguish.
- **Left out.** `SplitHostPort`, the `getaddrinfo_a` polling loop, string
  formatting and the Qt cell formatting are left out. They are string
  parsing, blocking library calls and display, with no state a property here
  distinguishes.
