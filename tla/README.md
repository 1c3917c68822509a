# A TLA+ model of owo-session-manager

The program is a local SOCKS5 proxy. A connection accepted by `SOCKS5Server`
goes one of three ways: directly (banks, public services), through one
long-lived encrypted session (`SSManager`, OwOSS), or through an external
`naive` process that is started on demand for a decoy SNI (`NaiveManager`).
In relay mode the program also accepts connections of other clients and
announces itself in a registry. The modules in this directory model one
connection from its greeting to its end, the processes, sessions and streams it
is served by, the choice of its decoy, and the life of the program around it.
TLC checks them on small instances, and TLAPS proves the main safety properties
for every value of the constants.

## Inventory

| component | state | operations | meets |
|---|---|---|---|
| naive process pool, `naive_manager.go` | `instances`, `portNext`, per instance `cmd`, `ready`, `lastUsed`; the processes | `GetUpstreamForApp(Shard)`, `spawnWithApp`, `waitReady`, monitor goroutine, `GCIdleInstances`, `StopAll`, `Status` | handlers, main, the operating system |
| OwOSS sessions, `ss_manager.go` | `session`; the smux sessions | `ensureSession`, `dialNewSession`, `Dial`, `Close` | handlers, AEAD streams |
| AEAD stream, `aead.go` | salts, nonce counters, `readBuf`, `readInit` | `newAEADClientStream`, `Read`, `Write`, `Close` | `Dial`, `pipe`, the server |
| SOCKS5 server, `socks5_server.go` | `activeConns`, `totalConns`, per connection two copying goroutines and `ConnStats`; per UDP association its relays | `handleConn`, `handshake`, `readRequest`, `handleDirect`, `pipe`, `handleUDPAssociate` | everything below |
| relay server, `relay_server.go` | counters that are only logged | `handleConn` | the local SOCKS5 server |
| SNI pool, `sni_pool.go` | `counts` per host, `current` per application class | `Allow`, `Pick`, `PickForApp`, `leastLoaded`, the sticky `PickForApp` | handlers |
| session lifecycle, `session_lifecycle.go` | `dnsCache`, `sessions` | `preDNS`; `OpenSession`, `CloseSession`, `lifecycleWorker` (called by nobody) | handlers |
| registry client, `vk_client.go` | what the registry knows of this node | `Register`, `Ping`, `StartPingLoop`, `Unregister` | main, the registry |
| address codec, `ssaddr.go` | none | `ssEncodeTargetAddr`, `ssReadTargetAddr` | `Dial` |
| direct domains, `domains_direct.go` | `additionalDirectDomains` | `LoadAdditionalDirectDomains`, `IsDirectDomain`, `ResolveDirect` | handlers |
| classifier, `app_classifier.go`, `classifier_rules.go`, and its updaters | tables | `ClassifyByHost`, `GetProfile`; periodic downloads | handlers |
| startup and shutdown, `main.go` | none of its own | start order, `log.Fatalf`, signal handling | all |

What is hard in it: an instance pointer is used after the lock of the map was
released; a process is replaced while its monitor still waits for the old one;
sweeps take inner locks under the outer lock; a session dies between being
handed out and being used; two goroutines of one connection end in any order
while a cap is tested on counters that move; the two sides of a stream each
wait for the other to speak first; two dialogues run one inside the other on
one connection while its client may be early, silent or gone; an association is
ended by one goroutine and noticed by another; a ping loop races the shutdown;
processes survive the program. The list with lines is `hazards` in PROJECT.json.

What makes each component correct: the pool connects a caller only to a process
of its SNI, notices dead ones and does not disturb one that is starting; the
session manager shares one session and its retry is real; a stream is a byte
stream whose nonces are never reused; the relay loses and miscounts nothing
while both ends are there and always ends; a connection asks for what its
client asked for, only if the client has shown the token, and its hops stay in
step; sensitive hosts go past the proxy; the SNI pool keeps its rate limit; the
table of connections has no entry of a handler that is gone; the registry hears
of the node in order and the program ends when it is told to.

## Modules

### NaiveManager

`instances`, `portNext`, and per instance `cmd`, `ready`, `idle`
(`time.Since(lastUsed) > maxIdle`) and `lock` are the Go fields. A process
(`pstate`, `pport`, `psni`, `killed`) belongs to the operating system and
survives the manager; `watch` is its monitor goroutine. `mu` is `m.mu`,
recorded only while a sweep walks the map (a lookup is one step); `lock` is
`inst.mu`, recorded only while `spawnWithApp` waits for the port. The contents
of a configuration file are the port and the SNI.

| action | code |
|---|---|
| `Call`, `Lookup`, `Create` | handler; critical section of `GetUpstreamForApp`, `GetUpstreamForAppShard` |
| `Reuse`, `BeginSpawn`, `SpawnFails` | the test under `inst.mu` and `spawnWithApp` up to `waitReady` |
| `WaitOk`, `WaitTimeout` | `waitReady` returns; the monitor starts, or the process is killed |
| `Dial`, `DialFails`, `Hangup` | the handler connects to the returned port, and ends |
| `Reap`, `ClearReady` | the monitor: `cmd.Wait` returns, `ready = false` |
| `BeginSweep`, `GCVisit`, `StatusVisit`, `StopVisit`, `EndSweep` | `GCIdleInstances`, `Status`, `StopAll`, one step per key |
| `Age`, `Exit`, `Restart`, `Bind`, `BindFails`, `Die` | the clock, the end and start of the program, the processes |

`cmd.ProcessState` is written by the monitor without a lock; a reader may see
either value until the monitor has taken `inst.mu` (`MayMissExit`,
`MaySeeExit`). Map iteration visits keys in any order.

### SSManager

`session` and `mu` are the fields (`mu` is kept across all of
`dialNewSession`); `pc`, `sess`, `retried` are where each caller is in `Dial`.
A session is live, broken (its socket failed, `IsClosed()` still false) or
closed. TCP connect, TLS handshake with the signal, mode byte and `smux.Client`
are one step, `DialOk` or `DialFails`.

### AEADStream and ByteStream

Both directions of one encrypted stream from `Dial` on. The wire carries
salts, sealed lengths and sealed payloads; the server's half is modelled from
what `aead.go` says of it. `ByteStream` is what a direction promises: bytes
come out in order, none lost before one that comes out, none twice.
`AEADStream` implements it in each direction (`ByteStreams`), `sent` being the
bytes handed to `Write`. A branch that only a peer that breaks the protocol can
reach (a length of zero) is left out.

### Pipe

`SOCKS5Server.pipe`: the two copying goroutines, their counters, the volume cap
and the end. Bytes are counted. `WriteFails` may leave part of a chunk written.
`CapTest` and `RatioTest` are separate steps because `BytesUp` is loaded anew in
each. The two closes after a cut, and after the first `<-done`, are one step.
The copying of `RelayServer.handleConn` has the same shape without the cap.

`upstream` is chosen once: on the OwOSS route it is an `aeadStream`, which is
relayed without a cap (`Cap`). Its first `Read` waits for the server's salt,
without a deadline (`ReadSalt`; the download is at `"salt"` until then), and
every later one gives up after 90 s without a whole chunk (`ReadTimesOut`; the
download ends as `"silent"`). So a relay whose two ends are there is ended from
here by the cap on a direct or naive route and by the idle timeout on the OwOSS
route, and by nothing else (`HangsUpOnlyAfterEnd`), and the timeout is what frees
the relay of a lost client whose upload is blocked (`GoneClientNoticed`).

### TargetAddr, Gateway and Socks5

`TargetAddr` has the addresses as operators: what the wire says, the host string
`readRequest` makes of it (an IPv6 literal in brackets), what `socks5Connect`
and `ssEncodeTargetAddr` make of that, and `IsDirectDomain`. An address is the
sequence of its labels, so that "lies under a listed domain" is a suffix of
labels, as it is a suffix after a dot in the code.

`Socks5` is one connection with up to three hops: `relay` (only with
`cfg.relay`), `server`, and `up`, which is naive, the OwOSS server or the
destination itself. `in[r]` and `out[r]` are the two directions of the link a
hop serves; `hung` and `shut` say which side has closed it; `late` says that the
hop's 30 s deadline on its client has passed. In the data phase a link holds
`Room` messages: a `Write` to a full link blocks, and the hop reads nothing
meanwhile.

| action | code |
|---|---|
| `Greet`, `Authenticate`, `ReadRequest`, `ReadFails` | `handshake`, `readRequest`; in the relay the same parts of `handleConn` |
| `Expire` | the deadline of `conn.SetDeadline`, cleared when data flows |
| `DialHop`, `DialDirect`, `DialOwoss`, `DialFails` | the choice of the route and the dial, with the error replies |
| `ConnectMethod`, `ConnectStatus`, `ConnectReply`, `ConnectFails` | `socks5Connect` |
| `TellSuccess` | the success reply, deadline cleared |
| `PipeUp`, `PipeDown`, `PipeEnds` | the relaying, one message at a time (its inside is `Pipe`) |
| `CutOff` | the volume cap of a naive session, the idle timeout of an OwOSS stream |
| `App...` | the client: any greeting, authentication and request, early data, hanging up at any time |
| `Far...` | external: naive asks for its password, the OwOSS server reads the address; both may refuse or leave |

`Gateway` is what the program is to its client, whatever the number of hops: a
required token is shown before anything is asked, what is reached is what was
asked for, success is told once and (unless the route is OwOSS, which answers
before the server has dialled) after the destination was reached. The run
`service` shows that `Socks5` implements it (`IsGateway`).

### UdpAssociate

Extends `Socks5`: the handler that takes a UDP request goes on as
`handleUDPAssociate`. `control` is the goroutine that watches the control
connection (`"ended"` is the closed `done`), `loop` the main loop, `upstream`
the map of relays with the address each one answers to, `passing` the reply
goroutines.

| action | code |
|---|---|
| `Listen` | `ListenUDP`, the reply, the start of the watching goroutine |
| `Check`, `Receive`, `ReceiveFails` | the `select` on `done`, `ReadFromUDP` and `udpParseHeader`, the 5 min deadline |
| `DialPeer`, `Forward` | `udpDialNaive` and the new map entry; the write to the upstream |
| `PassBack`, `PassingEnds` | one round, and the end, of a reply goroutine |
| `ControlEnds`, `Return` | the control connection fails; the handler returns |

### SniPool

`counts` is `SNICounter.counts`, the times of a host's counted choices as a set
of pairs of time and number of the choice (nothing depends on the order of the
slice); `current` is `StickyPool.current`, `now` the clock, `log` the history of new choices. `StickyPool.mu` is held across
`PickForApp`, so a new choice is one step: `PickAllowed` (one of ten draws is
allowed after others were refused) or `PickForced` (all ten were refused, the
least loaded host is taken and not counted). Weights only make draws likely and
are left out.

### ConnTable and Node

`ConnTable` is `activeConns`: `Accept`, `Enter`, `Finish` are `ln.Accept` and the
two ends of `handleConn`; a client may close long before its handler returns
(`ClientCloses`), and its address may be used again.

`Node` extends it with `main` and the VK registry. A request is `sent`, then
`delivered` or lost; a caller that gives up (`Failed`) may leave its request
under way (`stray`), and it may still arrive.

| action | code |
|---|---|
| `Initialise`, `Warm`, `StartServer`, `Notify`, `Signal` | `main` up to `<-sig` |
| `Register`, `Registered`, `StartRelay` | `vkc.Register()`, `StartPingLoop`, the relay's listener |
| `Tick`, `Ping`, `Pinged`, `LoopEnds` | the ping loop and its `select` |
| `Shutdown`, `Unregistered`, `StopAll`, `Return` | `cancelVK`, `Unregister`, `StopAll` (connections are still served meanwhile), the end of `main` |
| `Die` | `log.Fatal`, a signal before `Notify`, or the runtime's fatal error when two goroutines meet in the map of `preDNS` |
| `Deliver`, `DeliverStray`, `Acknowledged`, `Failed` | the network and `sendCmd` |

### Others

`MCNaiveManager`, `MCSSManager`, `MCAEADStream`, `MCService` and `MCSniPool`
give constants their values. `NaiveManagerProofs`, `SSManagerProofs`,
`AEADStreamProofs`, `PipeProofs`, `SniPoolProofs`, `UdpAssociateProofs`,
`Socks5Proofs` (which extends it) and `NodeProofs` hold the theorems. A
definition whose name has an underscore (`NextPort_Stuck`) is an existing
definition as a plausible mistake would have written it; no action uses it, and
it is there to show that a property fails when the code is wrong in that way.

How the modules meet: the handler of `Socks5` stands for `Call ... Hangup` of
`NaiveManager` and for `Dial` of `SSManager` in its `Dial` step, for `Pipe` in
its data phase, and for the time between `Enter` and `Finish` of `ConnTable`;
`AEADStream` is its link to `up` on the OwOSS route; `SniPool` gives the key the
naive route calls the pool with. What `StopAll`, `Return` and `Die` of `Node` do
to the processes is `StopVisit`, `EndSweep` and `Exit` of `NaiveManager`. They are
composed where a property needs both
(`Socks5` with the UDP association, `Node` with the table); the others are
checked apart, because their product adds states and no interaction.

## Runs

| run | what it shows | instance |
|---|---|---|
| `naive_pool` | own SNI, watched, undisturbed, no killed process behind the map; no deadlock between `m.mu` and `inst.mu` | 2 SNIs, 2 callers, 3 instances, 2 processes, collector, crashes |
| `naive_restart` | the inductive invariant with `Status`, `StopAll`, fatal exits, orphans of one restart | 1 SNI, 2 callers, 2 instances, 2 processes |
| `naive_liveness` | calls return, deaths are noticed, sweeps end | 1 SNI, 1 caller, 2 instances, 2 processes, collector |
| `naive_one_process` | finding: two processes of one SNI | 1 SNI, 2 callers, 3 processes |
| `ss_deaths` | sharing, a real retry, only live sessions of others are dropped by mistake, `Dial` returns | 2 callers, 3 sessions, deaths and `Close` |
| `aead_stream` | both directions implement `ByteStream`; nonces once and in step; `Dial` is not in a deadlock with the server | writes of up to 3 bytes, chunks of 2, reads of 1; 2 bytes up, 3 down |
| `aead_silent_peer` | finding: the first `Read` has no deadline | 1 byte each way |
| `pipe_relay` | who may be cut or hung up on, what is counted, both goroutines end, a lost client is noticed over OwOSS | a plain upstream and an OwOSS stream; 3 bytes each way, buffers of 2, cap 2, share 1/3 |
| `service` | a whole connection: hops in step, payload in order, `Gateway` refined, sensitive hosts direct, addresses passed on, nothing asked without the token; the dialogue ends, the chain is taken down, the association ends with its control connection and answers only who asked | with and without token, relay, OwOSS; an address of each kind, a listed name, a name under it, another name; 2 data up, 1 down, links that hold 1 message; 2 local addresses, 2 peers, 2 datagrams |
| `ss_ipv6` | finding: IPv6 literals do not arrive over OwOSS | the same with 1 local address, 1 peer |
| `sni_decoys` | the window limit, the fallback past it, the rate of sticky choices | 3 classes, 3 hosts, limit 2, window and time to live 2, clock up to 4 |
| `node_life` | table without stale entries; registration first, at most one late ping, a signal ends the program | relay mode and not, 2 handlers, 2 addresses, 3 pings |

The inductive invariants of `SSManager`, `AEADStream`, `Pipe`, `SniPool`,
`Socks5`, `UdpAssociate` and `Node`, type invariants among them, hold in all
states of these instances too; they are not repeated in runs, since they are
proved.

Bounds. Two callers make every race on one instance or session possible; a
third instance is one that is re-created after the collector removed it while
somebody still holds the old one; a second process is a respawn while the first
is not reaped, a third a spawn whose port is answered by another. Three sessions
are the one that died, the one that replaced it and the one that replaces that.
A process slot is used again when nothing refers to it any more. In the stream,
three bytes over chunks of two and reads of one give split writes, uneven last
chunks and leftovers; in the relay, three bytes over buffers of two do the same,
and the share is a third so that both sides of the ratio are reached within
them. A collector sweep begins only while unused instances remain for every key
(`BeginSweep`): otherwise the bound on instances, not the code, would stop
callers.

In `service` two data up are one sent before the reply and one after it, and the
order between them; with room for one message, a far side that does not read
blocks the second one in the hop before it, and so that hop's view of its client; two local addresses, two peers and two datagrams are a
second client that names a destination of the first, and a second destination.
In `sni_decoys` a clock of twice the window lets choices age out, a limit of two
is reached by three classes, and two classes share a host. In `node_life` three
pings are one before the shutdown, the one under way, and the one that is begun
on a waiting tick; two handlers over two addresses are a reused address beside a
second one. Deadlock is not checked where the system really stops:
`naive_restart` and `node_life` (the program ends), `service` and `ss_ipv6` (the
connection ends), `sni_decoys` (the clock stops at its bound).

Fairness. Goroutines run. `sync.Mutex` hands the lock to a waiter after 1 ms, so
acquiring it is strongly fair. `waitReady` ends after 5 s and `cmd.Wait` returns
for a process that exited (weak fairness). `DialReturns` of SSManager assumes
that a TLS handshake ends, which the code does not enforce. In the relay, reads
and writes on closed or reset connections return, but a write to an open one
need not; the idle timeout of an OwOSS stream passes, but the server's salt need
not come. In the stream the server reads; it need not write. In `service`
handlers run and the 30 s deadline of a hop passes; naive answers or hangs up as
long as a dialogue with it lasts (`FarAnswers`: `socks5Connect` has no deadline
of its own, so a silent naive would hold the handler); a control connection that
one side has closed is seen to be closed, and the association's read times out
after 5 min. In `node_life` `main` runs, and a call of the registry ends because
the HTTP client times out after 15 s; that `StopAll` ends is `SweepEnds` of
`naive_liveness`. `ChainTakenDown` is conditional: the chain behind a client that
left is taken down if the far side reads what it is sent, or goes (`FarReads`
again and again), for a hop that is blocked in a `Write` notices nothing; the
volume cap and the idle timeout (`CutOff`) are not assumed to strike. Nothing is assumed of processes, clients,
far sides once data flows, the network, the clock or when anything dies.

## Proofs

All theorems hold for every value of the constants that satisfies the named
assumptions (`NaiveAssumption`, `SSAssumption`, `AEADAssumption`,
`PipeAssumption`, `PoolAssumption`, `DialogueAssumption`, `UdpAssumption`,
`ConnAssumption`). These type the constants, keep `None` apart from what it
stands beside, and say that the decoy pool has an entry for the browser and
finitely many classes. Every safety invariant and action property of the passing
runs is stated by a theorem, and so are the safety of both refinements.

- **NaiveManager.** `IInv` is the four safety properties with what makes them
  inductive: callers hold instances of the key they asked for (`CallerRefs`),
  `inst.mu` is kept exactly by callers that wait (`LockHeld`), the map leads to
  instances of its keys (`MapSound`), ports of instances are distinct and below
  `portNext` (`PortsDistinct`), and a process runs with the port and the SNI of
  the instance that started it (`ProcsSound`). `ServedByOwnSni` follows from the
  last two: a caller that reaches a listener on its instance's port reaches a
  process of an instance with that port, which is its own.
- **SSManager.** `Core` says that whoever holds `m.mu` dials, that a retrying
  caller still names the session that failed it and `m.session` is another;
  `HealthyShared` that while no session has failed all that were dialled are
  `m.session`; `FailedBefore` that whoever is about to forget `m.session` was
  failed by its own session, which stays failed. So a live `m.session` is
  forgotten only by a caller of another one (`LiveDroppedByOthers`): a dial never
  replaces it, because it is begun and ended while no session is usable.
- **AEADStream.** The items of a direction are numbered: the salt is item 0, and
  item k is sealed under nonce k - 1, lengths and payloads in turn. `Numbered`
  says that the wire is a stretch of these, from the one read next to the one
  written next; with `Counters` (the parity of the counters says where writer
  and reader are) nothing is forged and no nonce comes twice. `NothingForged`
  alone is not inductive, for it does not know what is under way. For the
  refinement of `ByteStream`, `Sized` says that a length announces its payload,
  `InOrder` that what was read and what is left over are the first bytes, and
  `Offsets` that the bytes on the wire lie without a gap between these and what
  is still to be written. A writer or reader that has failed leaves its end of
  the stretch open.
- **Pipe.** `EndedForAReason` ties every way a goroutine can end to what an end
  of the connection did, to the cap, or to the idle timeout, and these two to the
  kind of upstream that has them. `CutOnlyHeavyUpload` must survive uploads counted after
  the cut; lemma `ShareKept` is the arithmetic of it.
- **SniPool.** `CountsAllowed` says that the counter holds every allowed choice
  of the window and only allowed ones; with `AtMostMax` it gives `WindowLimit`
  and `ForcedFairly` for a new choice, and since the log is append-only they stay
  true of the old ones. `DecoyRate` is an injection: by `KeptFor` two choices of
  one class are `MinTtl` apart, so those within a window are by different classes.
- **Socks5.** `DialogueInv` is one invariant for all hops. `LinksInStep` lists
  for each link where its two sides can be together and what is then under way
  in both directions; `NumberedThrough` follows the data from end to end, from
  what has arrived over each link to what is not yet sent; `OneRequest` says that
  every hop serves and passes on what the first hop was asked for; `OneOutcome`
  that a success told or under way is backed by what was reached (or by the OwOSS
  route); `AsksForUnlisted` that naive is asked for nothing listed. Without the
  last `SensitiveStaysDirect` is not inductive: a hop waiting for naive's method
  would send the request in its next step. From these follow `InStep`,
  `PayloadInOrder`, `SensitiveStaysDirect`, `AddressesPassOn`, and, with
  `Unproved`, the refinement of `Gateway`, one lemma for each kind of step.
  The lemmas come per action and say what it does to one link; a step of one
  handler touches at most the link it serves and the one it uses.
- **UdpAssociate.** `UdpInv` is the type of the association with `HeardOf` (the
  address a reply goroutine answers to, and the sender of the datagram in hand,
  have been heard) and `LastOne` (once a datagram was forwarded too late the loop
  stands before its test, with `done` closed). Steps of the dialogue leave it
  alone. `AskedIsProved` is about the dialogue itself, for any addresses and
  methods: `Unproved` says that until the client has shown the token its first
  hop has not got past authentication and the others do not exist.
- **Node.** `ConnInv` carries `NoStaleEntry`. `LastTick` says that a cancelled
  loop can only use up the tick it had, which bounds the pings after the
  cancellation; `OnlyRegisters` that before the bot has heard anything nothing
  but a registration is under way.

Only model-checked: the liveness properties, because fairness and ENABLED are out
of the prover's reach. The violations of the findings are TLC's counterexamples.

## Findings

1. `naive_one_process`: the monitor of a replaced process clears `ready` of the
   new one (`naive_manager.go:207`), so a second process is spawned beside a
   live one; "One process per SNI" (line 29).
2. `aead_silent_peer`: the server's salt is read without a deadline
   (`aead.go:141`); the idle timeout (218-220) promises to end a silent read.
3. `ss_ipv6`: `readRequest` encloses an IPv6 literal in brackets, and
   `ssEncodeTargetAddr` (`ssaddr.go:85`) then encodes it as a domain name, which
   the server cannot dial; the inverse is called trivial (`ssaddr.go:80-84`), and
   the same failure is described as repaired on the way through naive
   (`socks5_server.go:457-461`).

Observed in the models, without a run of their own:

- Pool: "StopAll kills all running naive instances" (`naive_manager.go:258`) does
  not hold of `StopVisit`: a caller that has looked its instance up, and released
  `m.mu`, spawns on it after `StopAll` has visited it, or on an instance the
  collector has unmapped, which `StopAll` does not find, and handlers may call
  again after it; such a process outlives the program. The collector kills a process that is serving connections
  (`lastUsed` is the time of the last call); after a restart an orphan of another
  SNI may answer on a reused port (`ServedByOwnSni` excepts it); a process killed
  after a `waitReady` timeout is never waited for; `portNext` only grows.
- Sessions: `m.session = nil` without comparing (`ss_manager.go:210`) drops a
  session that another caller has just dialled, unclosed.
- Relay: only downloads are tested against the volume cap
  (`socks5_server.go:637`), a session that only uploads is never cut; a
  half-closed connection is closed in both directions, so an answer still under
  way is lost; a relay whose upstream neither reads nor ends does not notice that
  its client has gone, over OwOSS if the server's salt has not come either. The
  idle timeout of an OwOSS stream looks at what the server sends only: an upload,
  or a connection both ends keep open, is ended after 90 s without an answer.
- UDP: `udpDialNaive` greets naive without a password, but `main` always starts
  it with a token, so the tokenless branch of `DialPeer` needs a server that was
  constructed without one, and as shipped every association's dial is refused;
  destinations are not tested against the direct lists; the replies to a second
  client that names a destination of the first go to the first one; a reply goroutine ends
  after 5 min of silence while its upstream stays in the map; upstream
  connections are never closed.
- Decoys: sticky and forced choices are not counted in the window, so connections
  per window are not limited (`DecoyRate` limits new choices only).
- Node: relay flags are tested after naive processes were started; the node
  registers before its relay listener is known to be open; `log.Fatal` leaves it
  registered; `ActiveConns` undercounts when an address is used again.
- Names with a trailing dot are not recognised by `IsDirectDomain`. A literal
  that a user puts into the list of domains is not recognised when a client sends
  it as ATYP 4, since the host then is in brackets; `Listed` means domains, which
  is what the file is documented to hold (`domains_direct.go:92-93`).

## Not modelled

- `app_classifier.go`, `classifier_rules.go`: tables of host names and the order
  of their rules. The profiles are the constants of `Pipe`, the classes those of
  `SniPool`; nothing else depends on them.
- `cloudflare_updater.go`, `geosite_fetch.go`: periodic downloads that parse files
  and replace a table under a lock.
- `china_dns_check.go`, `SNIPool.Pick`, `GetNodes`, and `OpenSession`,
  `CloseSession`, `lifecycleWorker` of `session_lifecycle.go`: called by nobody.
  `preDNS` decides nothing for a connection; its unlocked map is part of `Die`.
- `LoadAdditionalDirectDomains` and the DNS message parser of
  `domains_direct.go`: byte and text parsing; the list it fills at start is the
  constant `Additional`.
- Ciphers, TLS, HTTP, JSON: external. Ports, logging, the layout of datagrams,
  and host names of more than 255 bytes, which a SOCKS5 length byte cannot hold.

## What is left

1. The DNS message parser of `domains_direct.go` as operators over message
   skeletons, and lemmas that what it returns lies within the message.
2. Lemmas about the composition: that the handler of `Socks5`, seen from the
   pool, makes the calls `NaiveManager` assumes of its callers.
