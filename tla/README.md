# A verification project for proxy_core

proxy_core is a Flutter plugin that runs a proxy core (Xray or Outline) and,
in VPN mode, the VPN in front of it. This directory holds TLA+ modules
translated from its Go, Dart, Kotlin and Swift sources, the TLC configurations that
model-check them, and proofs that TLAPS checks. `PROJECT.json` names for every
definition the lines it stands for, for every property a mutant of the code
that breaks it, and lists hazards and findings.

## 1. The system

```
  app, notification button                        iOS app
          |                                           |
  ProxyCoreBaseImpl (Dart)                   ProxyCoreIosVpnImpl (Dart)
     |            |                                   |
 method channel   | gRPC 127.0.0.1:30051     ProxyCorePluginImpl, VpnService (Swift)
     |            |                                   | provider messages
 ProxyCorePlugin  |                          PacketTunnelProvider (Swift)
 ProxyCoreVpnService (Kotlin)                         | ios.go
     |            |                                   |
     |      +-----+-----------------------------------+
     |      |  server.go: registry, activeCoreName, isVpnMode
     |      |     |                |               |
     | fd   |  XrayService   OutlineService     libtun (tun2socks engine)
     +------+----------------------------------------^
```

| Part | State it keeps | Operations | Modelled in |
|---|---|---|---|
| `server.go`, handlers | `activeCoreName`, `isVpnMode`, registry | StartCore, StopCore, IsCoreRunning, GetVersion, MeasurePing, FetchLogs, ClearLogs | CoreServer, CoreRestart |
| `server.go`, boot | `isServerStarted`, `serverError` | StartGRPCServer | GrpcBoot |
| `libxray` | mutex, `instance`, `isRunning`, `readyChan`; FreeMemory's goroutines | Start, Stop, IsRunning, MeasurePing, FetchLogs, ClearLogs | XrayService |
| `libxray/slog` | log buffer, `loggerAdded`, `loggingEnabled` | StartLogger, StopLogger, Write, Fetch, Clear | XrayService (whose lines are there), LogBuffer (what a write keeps) |
| `libxray/utils.go` config rewriting | a JSON string or file | replaceInboundSocksPort, loadServer | XrayConfig |
| `liboutline` | mutex, `isRunning`, `listener`, dialers, accept goroutine, messages | the same six | OutlineService |
| `libtun` | `started`, the engine | Start, Stop, IsStarted | CoreServer |
| `ios.go` | none | one wrapper per handler, Background context | CoreServer (any handler), XrayService (`Detached`) |
| Dart, Android and desktop | `_vpnStatusTimer`, `_isVpnRunning`, `_isInitialized`, `_grpcClient` | initialize, start, simpleStart, stop, queries, the timer | ProxyCoreBase; ClientBoot for initialize; CoreRestart for its order of calls |
| Kotlin `ProxyCoreVpnService` | `vpnState`, `vpnFd`, `vpnInterface`, `isFdDetached` | START_VPN, STOP_VPN, IS_VPN_RUNNING, onRevoke, onDestroy | ProxyCoreBase |
| Kotlin `ProxyCorePlugin` | `permissionStatus`, `vpnPermissionResult` | prepare, startVPN, stopVPN, isVPNRunning | ProxyCoreBase (as its caller sees it) |
| Dart and Swift, iOS | `_vpnManager`, the saved configuration, the session's status, the tunnel's process and core | initialize, start, simpleStart, stop, messages to the tunnel, startTunnel, stopTunnel | IosTunnel |

External, and modelled by how this code uses them: the Xray core, the socks5 and
shadowsocks libraries, the tun2socks engine, gjson and sjson, Android's VPN framework,
Apple's Network Extension. What is left out is in section 6.

### What is hard about it

* **Interleaving.** Every gRPC request and every delegate call is a goroutine
  of its own. `activeCoreName` is read without its lock, `isVpnMode` has none,
  `libtun.IsStarted` and `libtun.Start` are two critical sections, `MeasurePing`
  reads `readyChan` and `ssStreamDialer` outside any. In Dart, a timer callback
  interleaves with the user's call at every `await`, and does not wait for the
  callback before it. `isServerStarted` is read and written by every booting thread and
  every serving goroutine, without a lock. On iOS a message to the tunnel is a Task that
  nothing orders against the next one.
* **Partial failure.** `core.Start` may fail after the server recorded the core
  as active, or after the core came up; `instance.Close` may fail; `stopCore` may
  fail after the VPN is down, `startCore` after it is up. The iOS tunnel answers "true"
  whatever its core did, and comes up without one; a message may not arrive at all.
* **Stale state.** A goroutine reads `osrv.listener` when it runs, a tick
  acts on a VPN status it read before the restart, a waiter keeps a channel that
  was replaced.
* **Contexts and deadlines.** The context of a request ends with its handler or
  earlier; Background never ends; a ping has 15 seconds.
* **Lifetimes.** A Dart isolate may be begun anew in a process whose gRPC server goes on;
  an iOS app may be killed while its tunnel, a process of its own, goes on.

### What makes each part correct

* *A core* does what `CoreService` says: each call takes effect at one instant,
  only a core that is down starts, a stop that succeeds leaves it down. Xray: no
  double `close`, no use of a closed instance, no waiter left behind. Outline: no
  socket left open, an open one served, a fast stop survived.
* *The gRPC service*: one core at a time, the engine on that core's link
  exactly in VPN mode, a successful stop leaves nothing.
* *The Dart client*: a stop is final, a restart is clean, the active core in VPN mode
  does not outlive its VPN, and no second core is up behind it.
* *The boot*: the flag that keeps others from booting always has somebody behind it, and
  comes down when there is no server.
* *The iOS client*: a stop takes effect and is undone by a start only, an acknowledged update is
  what the core runs, every future completes.
* *The pure parts*: a config is rewritten in one place only, a trimmed log starts with a whole line.

`PROJECT.json` lists the hazards, each at its line, with the property that
would catch it or the reason there is none.

## 2. Modules

| Module | Stands for |
|---|---|
| `CoreService` | abstract: the `Core` interface of `server.go:36-45` as a linearizable object |
| `XrayService` | `libxray.XrayService` with its goroutines, contexts, logger and ready channel |
| `OutlineService` | `liboutline.OutlineService` with its accept goroutines |
| `CoreServer` | the handlers of `server.go` over the cores (by CoreService's outcomes) and `libtun`, any number of requests at once |
| `ProxyService` | abstract: the gRPC service as one proxy, to a client that has nothing beside its starts |
| `CoreRestart` | CoreServer composed with such a client; implements ProxyService |
| `ProxyCoreBase` | `ProxyCoreBaseImpl` on Android with the VPN service: users, timer callbacks, revocations |
| `GrpcBoot` | `StartGRPCServer` in several threads, the serving goroutines, port and WaitGroup |
| `ClientBoot` | `ProxyCoreBaseImpl.initialize` in several isolates over GrpcBoot, which it extends |
| `IosTunnel` | the iOS chain: Dart client, Swift plugin and VPN service, the system's session, the packet tunnel |
| `XrayConfig` | `replaceInboundSocksPort` and `loadServer` as operators on a config |
| `LogBuffer` | what `WriteLogToBuffer` keeps of the buffer's bytes |
| `MC*` | the same for TLC: symmetry, and an assumption on the number of channels |
| `MCXrayText` | XrayConfig and LogBuffer against the loops of the code, as assumptions; extended by MCXrayService |
| `*Proofs` | theorems and their proofs |

**XrayService.** `pc[c]` is the line a caller is at: `setenv`, `maxmem`,
`load`, `boot`, `free` are the steps of Start with the mutex held, `close` the
second half of Stop, `wait`, `lock`, `http` those of MeasurePing. An action is
a stretch between two points at which another goroutine or the context matters.
`waits[c]` is the channel a ping read before it blocked, `Chans` is a pool from
which `make` takes a channel that nobody refers to. `ctxDone[c]` may become true
at any step of a gRPC call (`EndCtx`); callers in `Detached` have a Background
context and only their pings expire. A call's return stands for its handler's. `logged` tells
lines of the running core from those of a run that a Stop ended ("old"). `late` is history: the channels that
a Start left open which failed in its last step, with the core up. The Xray library may fail in each call.

**OutlineService.** `accept[l]` is the goroutine spawned with socket `l`:
spawned, then the socket it read from `osrv.listener` when it ran. A nil listener or
dialer is a panic; the process then takes no step (`CHECK_DEADLOCK FALSE`).

**CoreServer.** One action per access to a shared variable. The unlocked read of
`activeCoreName` can see a name no core has while another request writes it
(`ActiveReads`): the Go memory model allows a string header to be torn. A call
into a core is one action with the outcomes CoreService allows, including the start
that fails with the core up, for cores in `HalfStarting`. A link is the
pair (TunFD, ProxyPort) of a request: `running` and `tun` remember whose they are.

**CoreRestart.** A client starts only after a stop that did not throw (code), and with nothing beside the start but
queries (`Awaited`, `NoStart`: an assumption about the app, in no line of the client). Stops overlap, because the timer's callbacks call stop() too; a stop may then report success while
another still has the engine to take down. Two history variables: `stopped`, and `sawDown`, the queries during
which no core was up for a moment. When the Dart client keeps to the assumption is theorem `StartsAreAlone` of ProxyCoreBaseProofs: as long
as no start ever crossed another user's call or a callback under way, every startCore finds all cores down and
nobody inside startCore or stopCore. Once one did, the assumption is not restored by later calls that cross
nobody, because an inactive core may be up for good; the finding `dart_restart` is the other consequence.

**ProxyService.** One proxy: `serving` is the core that serves, with its link, and
`engine` the link the engine forwards. In the mapping a start counts when it returns and a stop from CoreStop
on; a query changes nothing and promises nothing (what it tells is `AnswersAreTrue`).

**ProxyCoreBase.** Code between two awaits is one action. Users are the app and the
notification's Disconnect button; `Ticks` are the timer callbacks that can overlap.
gRPC calls are atomic here, and act on `activeCore` and `running` as the handlers of server.go do: StartCore makes
its core the active one whatever becomes of it and looks at no other, StopCore asks the active core only.
So two crossing starts can leave the core up that is not active. The VPN service's intents and their answers are
handled in order on Android's main thread, so an intent is taken before a
later status query is answered. `crossed` and `promised` are history: a call's promise
counts unless another user's start crossed it. So is `behind`: a callback was under way when a start last
cancelled the timer; and `met`: what any start ever crossed. Callbacks the app passes in, and
the notification, may throw (`CallbackThrows`).

**GrpcBoot, ClientBoot.** One action per access to `isServerStarted`, the port or the
WaitGroup. `call[c]` is the line a booting thread is at, `server[s]` where a goroutine
is. `waiters` says whether some goroutine is before, in or just woken from `wg.Wait`: how many
are there makes no difference to what happens next. Another process may hold the port. `raced` is
history: line 240 set a flag that another boot had just set. An isolate is blocked while it is
in the Go call and interleaves its calls of `initialize` at the awaits otherwise; `Relaunch` begins
it anew, with the library's state as it was.

**IosTunnel.** `pc[u]` is the next thing a call of the app does, `stops` are the
SIMPLE_STOP_CORE messages that are still under way (simpleStop does not wait for them). A config
is the number of the start call that brought it. `status`, `stopAsked` and `options` are the system's
session, `asked` the options of the startVPNTunnel calls it has yet to follow, `provider` and `core` the tunnel's
process, which the app's death leaves alone. `promised`, `pending` and `spoiled` are history: what the last call
promised; whether a start was under way, or not yet followed by the session, when a stop looked at it; and what
came in the way of an update. The session's behaviour is Apple's, and assumed: it follows startVPNTunnel and
stopVPNTunnel in its own time, so a stop may look at a status that lags; `startVPNTunnel` on a session that is not
down does nothing; a connected session may be reasserting for a while; a message fails when no provider runs; the
process ends with its session. The tunnel has one core (CoreServer has the registry), and StopCore and StartCore
may each fail in it.

**XrayConfig, LogBuffer.** Operators without state. A config is its inbounds, each with a
protocol and a port, and whether gjson finds it valid; a buffer is a sequence of newlines and other bytes.
`loadServer` is the set of outcomes of a load, what is left of the config file included.

## 3. Runs

| Run | Question | Bounds | Result |
|---|---|---|---|
| `xray_grpc` | safety of XrayService, that it implements CoreService, and that only a start that fails late strands a ping, under gRPC contexts | 2 callers, 3 channels, all operations | holds |
| `xray_delegate` | no lost waiter, every call returns, under Background contexts and fairness | 2 callers, 3 channels | holds |
| `server_concurrent` | what survives concurrent requests | 2 handlers, 2 cores, 2 links | holds |
| `server_stop` | does StopCore stop the running core | 1 handler | violated |
| `server_restart` | what a client gets that has nothing beside its starts: a complete stop, one core, a start on its own link, true answers, one proxy | 3 handlers (overlapping stops, queries), 2 cores, 2 links | holds |
| `outline` | sockets, accept goroutines, CoreService | 2 callers, 3 sockets | holds |
| `outline_serve` | is a fast stop survived | 2 callers | violated |
| `dart_polling` | is stop final, does polling stop an orphaned core, does a start stay that found no callback under way, is a second core left only by crossing starts | 2 users, 2 ticks, 2 cores, 2 starts | holds |
| `client_boot` | is the boot flag always answered for, is a boot decided, is one server left | 2 isolates of 2 calls each, 2 goroutines | holds |
| `ios_tunnel` | what can undo an iOS stop, is it carried out, what can lose an acknowledged update, does every call return | 2 users, 2 starts | holds |
| `ios_update` | does an acknowledged update apply | 1 user, 2 starts | violated |
| `dart_restart` | is a restart clean | 1 user, 2 ticks, 2 cores, 2 starts | violated |

The bounds. Two callers give every pairwise race on a mutex-guarded object, where
at most one holds the mutex and each waiter reacts to what the holder did;
one channel more than callers is enough for `make` always to find a fresh one
(`EnoughChans`). Three sockets are the current one and two whose goroutines have not ended
yet. Two handlers suffice for each read/write pair in server.go, and three let two stops overlap beside
a query; two cores are all
that are registered; two links tell a request's own link from another's. Two ticks
overlap with each other and with two users; two starts are a start and its restart, or two that cross with
different cores.
Two isolates race for the flag, and two goroutines are the one that serves and the one that finds the port
taken; a third boot waits for one of them to end. Two iOS calls give every pairwise crossing, two
starts an update of the running config. MCXrayText tries every list of up to 3 inbounds and every buffer of up to
7 bytes: both loops stop at the first hit, and these have none, one and several, at every position.
The theorems of section 5 have none of these bounds.

Symmetry is used for safety only. `CHECK_DEADLOCK FALSE` is set where a panic ends the
process; the XrayService runs keep deadlock checking, which a panic would trip.

**Fairness.** XrayService: strong fairness on a caller's step, because
`sync.Mutex` hands over to a starving waiter, and weak fairness on a ping's deadline
and on the goroutines' exit; nobody is obliged to call, cancel or log.
ProxyCoreBase: weak fairness on the timer (one that is set fires), none on users, on the
permission dialog or on calls of the app. Strong fairness on a callback's SetVpnStatus, StopVPN and StopCoreOk
states that what is tried again every second succeeds in the end: Dart's event loop and Android's main looper
deliver what is queued, the rest is an assumption about service and cores. It is needed: polling only retries.
ClientBoot: weak fairness on threads inside the Go call and on the goroutines' own steps (the
scheduler runs what can run; Listen returns); none on Serve failing, on users or on the other process.
IosTunnel: weak fairness on the steps of a call (Tasks run, a message is answered or given up, the
one-second sleep ends) and on the system's session; none on the user's consent, on new calls or
on deaths.

## 4. Findings

The four violated runs each contradict a line of the repository:

* **A failed start hides the running core** (`server_stop`). `StartCore` sets
  `activeCoreName` before `core.Start` succeeds, so after a failed start of the other
  core, `StopCore` asks the wrong core and reports success. The Dart client's
  stop-before-start keeps this out of reach as long as no start crosses another (`server_restart`, proved); two
  starts that cross with different cores reach it, and a later stop() that nothing crosses then succeeds with
  the first core up. `StopIsFinal` names this as the only way (proved).
* **A simple start kills the core it started** (`ios_update`). `handleSimpleStop` answers before its message is
  sent, and nothing orders the Tasks of the stop and of the start: the start is delivered first and
  answered "true", then the stop takes the core down. One call and no failure are enough. Without a failure or
  another call it is the only way (`OnlyLateStopsUndo`, proved).
* **A fast stop of Outline panics** (`outline_serve`). The goroutine reads
  `osrv.listener` after Stop set it to nil. A service that runs does not panic (`OnlyWhenDown`, proved).
* **A stale timer callback undoes a restart** (`dart_restart`). It read the VPN
  as down during start()'s own stop(), and stops what start() then brought up. It is the only way: without a
  callback under way the restart stays and is watched (`OnlyStaleTicksUndo`, proved).

Two more disagreements have no run of their own. Xray's Start may fail in its last step, on a context that
ended, with the service up and `readyChan` open; the pings that wait for it, "for service to be ready"
(libxray.go:145), wait in vain after the next Stop. `OnlyLateFailuresStrand` (checked and proved) says that nothing
else strands a ping. And FreeMemory's goroutine, which frees memory "at regular intervals" (utils.go:29), ends with the
context of its request: over gRPC when StartCore returns, usually before its first tick.

## 5. Proofs

All theorems hold for every value of the constants under the `ASSUME`s of the
modules (sentinels are no members of the sets they extend, the default core
is registered, and the like).

* **XrayServiceProofs.** The invariant `IInv` says who may hold the mutex at
  each line (`Owner`), that `instance` and `isRunning` change together (`Instance`), that a
  closed ready channel belongs to a running service (`Ready`), and what the holder knows at its
  line (`HolderKnows`): that the service is down while it starts, and that the channel is
  still open at `close`. `NoDoubleClose` is not inductive without the last two. `NoLostWakeup` is
  false with gRPC contexts, where a Start can fail late. What holds for any contexts is `LateInv`: a running service has its
  channel closed, or a Start about to close it, or the channel is one that a late failure left open; hence
  `OnlyLateFailuresStrand`, and from it `NoLostWakeup` for `Detached = Callers`, where no Start fails late. `Implements` shows the refinement step by step: the abstract
  `up` is `isRunning` except between Boot and the end of Start.
* **OutlineServiceProofs.** `IInv`: the holder of the mutex finds the service down, a service that
  is down has no open socket, and the two properties themselves. `Equipped` adds that a service that runs has
  its listener and its dialer, so that both nil dereferences are left to one that is down (`OnlyWhenDown`).
  `Implements`: the abstract `up` lasts until Stop returns.
* **CoreRestartProofs.** `RInv` makes the client's discipline explicit: a start is alone among starts and stops
  (`Serial`), only the active core is up, an engine runs on that core's link or a stop is about to take it
  down (`TunMatches`), and for each line of a handler what is up (`Knows`). Four properties
  follow. `Asked` says what a query knows of the core it got: it is the active one, or all were down for a moment;
  hence `AnswersAreTrue`. `RestartImplementsProxy` maps every step to a step of ProxyService or to none: while a
  start runs its line alone says what shows (`Lone`), and of stops that overlap only the first CoreStop changes what
  shows. `ProxyIsSound` proves of ProxyService that the engine never forwards for another core than the one that
  serves, and carries it over.
* **ProxyCoreBaseProofs.** `IInv`: only a start runs the steps of start (`Roles`), a call that no
  start crossed has no start beside it (`Apart`), what its stop has achieved (`Achieved`) and left behind (`Final`) of
  the VPN and the active core holds, and a core that is not active is up only after two starts crossed (`OneCore`,
  for which `Remembered` ties `met` to who is at work). So a stop is final for any number of overlapping ticks.
  `RestartInv` is the same for starts: a start that nobody crossed is the only call (`Sole`), from its own stop on it
  knows the active core and VPN and, unless a callback was late, has none beside it (`Fresh`), and what it promised is
  still there and watched (`Kept`). `StartsAreAlone` is what CoreRestart assumes of its client, under the condition
  that no start has crossed anything so far.
* **XrayServiceProofs**, further: `NoStaleLogs` holds because old lines are only there while the service is down
  and `loggerAdded` is unset, so that the next StartLogger empties the buffer (`LogInv`).
* **CoreServerProofs.** For any number of crossing requests: the types, of which the point is that
  `activeCoreName` is a registered core's however reads and writes race, and `TunNeverReplaced`, from the single
  guard inside `libtun.Start`'s critical section.
* **ClientBootProofs.** `BootInv` adds to the two properties that boots which did not race have one thread at
  most between lines 236 and 242, with the flag up and no goroutine busy (`OneSpawner`). `FlowInv` says why
  the late final client is assigned once: one call per isolate is in Go, and only where the callback is set.
  With one isolate nothing is raced for at all (`OneIsolateOneServer`).
* **IosTunnelProofs.** `TypeInv` is the types, that each start call has a config, and that whoever got past
  prepareVPN has a manager. `PromiseInv`: after a stop that nothing was pending for, no call is at work that could ask the
  session to start and no request to it is left (`Stopped`); an update that nobody crossed is the only call (`Alone`),
  finds the core down until its start comes once its stop was delivered (`Cleared`), and when it is promised
  unspoiled no stop is under way (`Settled`). The two properties are not inductive without them: a late stop, or a
  start of an older call, would undo what was promised.
* **XrayTextProofs.** About operators: a loaded config has its first socks inbound on the client's port
  and nothing else changed (`PortIsReplaced`), the last port wins, a config file stays usable unless its write was
  torn, trimming keeps whole lines and at most half, the buffer never exceeds its bound by more than one message, and
  all that a write loses are the oldest lines (`OnlyOldestLinesAreLost`).

Only model-checked: the liveness properties `EveryCallReturns` (Xray and iOS), `AutoStop`, `BootIsDecided` and
`StopTakesEffect`, which need fairness and are out of the prover's reach; and that the operators of
XrayConfig and LogBuffer agree with the loops of the code (MCXrayText), on the bounded inputs named above.

## 6. Not modelled

* **The iOS status events** (`refreshVpnStatus`, `vpnStatusDidChange`, `updateVPNStatus`): they decide what the
  app shows, and no call reads them back. Queries to the tunnel (logs, ping, version, figures) pass through.
* **Android's permission handshake** (`permissionStatus`, `vpnPermissionResult`): ProxyCoreBase lets a prepare be
  answered some time or never, which is all its caller can count on.
* **The owner of the detached VPN descriptor**: it is the tun2socks engine, which is external; a model would
  have to assume what it should find out.
* **CPU and memory figures**, Android's log severities and logcat, the command line tools, the console loggers and
  the unused middleware, generated bindings, desktop stubs, the example app: none keeps state that another
  part reads.

`PROJECT.json` names these under "components" and "hazards" where they could go wrong.
