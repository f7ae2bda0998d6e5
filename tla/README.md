# tunli-client in TLA+

A formal model of tunli-client: the tunnel proxy and its pool of relay connections, the background
daemon that owns the tunnels, the replay buffers, the upload server behind `tunli receive` and the
page that sends to it, the shared TCP ports, the dashboard, the launcher that restarts and updates the
program, the configuration files its commands edit, and its argument parser. The modules are translated from the TypeScript under `src/src/`; TLC checks
them on small instances and TLAPS proves theorems about them for every instance. `PROJECT.json`
lists, for every definition that models code, the lines it stands for.

## Inventory of the system

| Component (source) | State it keeps | Operations | What is hard | What makes it correct |
|---|---|---|---|---|
| **Relay connection pool** (`proxy/Proxy.ts:53-105, 313`) | sockets, count of connected ones, ping socket, ping interval | connect, disconnect, connect_error of each socket; `disconnect()` | sockets drop and reconnect in any order; handlers run inside `disconnect()`'s loop | the link is reported up exactly while a socket is connected; one interval, on a live socket |
| **Request and upgrade forwarding** (`Proxy.ts:106-311`) | per-request listeners, the local request, captured chunks | request, chunks, end, error, close; HTTP and WebSocket | the local answer may overtake the request body; the socket drops mid-body | a captured request is whole and captured once; nothing is left behind |
| **Daemon server** (`daemon/DaemonServer.ts`, `protocol.ts`, `daemon-main.ts`) | map profile → tunnel, `TunnelInfo.status`, `dump.json` | start, stop, list, attach, dump, shutdown, restore on start | `start` awaits the relay between testing and setting the map; restore and requests; crash | what the map owns is open; restore before serving; a restart keeps the tunnels |
| **Replay buffers** (`daemon/ReplayBuffer.ts`, `DaemonServer.ts:157-293`) | ring buffer per profile, `replay-meta.json` | capture, list-requests, replay, persist, load | a replay awaits while entries are evicted; bodies are lost in a restart | bounded, newest first, only the captured request is ever replayed |
| **Daemon client, viewers** (`daemon/DaemonClient.ts`) | a socket per attached tunnel | attach, events, detach | a tunnel changes or is stopped between the answer to an attach and the mount of the dashboard | the shown status is that of the tunnel attached to |
| **@tunli/daemon** (dependency) | socket file, child process | ensureRunning, request, onShutdown | source not in the repository | modelled by its use only |
| **Restart of the daemon** (`lib/Flow/applyUpdate.ts`, `commands/CommandDaemon`) | the dump it was given | dump, write file, shutdown, start | the daemon serves between dump and shutdown | running tunnels come back |
| **Receive server** (`receive/ReceiveServer.ts`) | sessions, part files, the target directory, `--once` flags | create, chunk, complete, cancel, expire, close | every handler awaits file operations while the others run | a saved file is complete; nothing is overwritten; the resume offset is verified; `--once` gives one file |
| **Receive command** (`commands/CommandReceive`) | the running server and proxy | start, `onOnceComplete`, signals | the stop hangs on one response | a receiver that is done stops |
| **Receive page** (`receive/ReceivePage.ts`) | jobs, upload loops, ids in localStorage | add, upload, pause, resume, cancel, retry, reload | two loops for one job after pause and resume; lost answers; a cancel at any await | no job is stranded; a file is saved once; a cancel leaves nothing; an upload ends |
| **Share host and client** (`share/*.ts`, `commands/CommandShare`, `CommandConnect`) | session keys, TCP sockets per session | begin, data, end of a session over the relay | late events of earlier sessions | data of one session never reaches another |
| **Launcher and update** (`launcher-main.ts`, `sea-main.ts`, `utils/cliFunctions.ts`, `lib/Flow/*`) | the child process, the binary and its `.update` on disk | spawn, restart message, download, swap, exit | a second restart or update during the first | one child; the tunnels come back; the installed binary is whole |
| **Identity** (`identity/*`, `CommandIdentity`) | key files | create, load, show | none: sequential | – |
| **Dashboard, live log** (`cli-app/*`, `CommandDashboard`) | socket and emitter of the attach, log, batch, pause buffer, counter, cursor | attach, events, switch, pause, detail view | a switch during a switch; resuming while a batch waits | it shows what it listens to; the log is what it was told |
| **Profile and tunnel commands** (`commands/*`) | none of their own | up, down, restart, stop, http, use, … | concurrent commands | – |
| **Configuration** (`config/*`, `client.ts`, the commands that edit it) | a global and a local JSON file, registry of local configs | read, sync, edit, write, delete, setup | read-modify-write by concurrent processes, across prompts and requests; truncated files | a save undoes only recent changes; the registry follows the files |
| **Argument parser** (`commands/helper/Parser.ts`, `commander/Command.ts`) | what is left of the line, at one level of the tree of commands | preprocess, extract options, descend, help, reject, run | each level knows only its own options and those above | options are found wherever they stand; asking for help runs nothing |
| **API client, output, logging, utilities** | none | – | none: sequential | – |

How they interact: a command talks to the daemon over a local socket (requests, and a stream of
events for an attached viewer). The daemon holds one proxy per profile; a proxy holds `PoolSize`
socket.io connections to the relay and emits connect, disconnect, connect_error and
request-captured, which the daemon folds into the tunnel's status and its replay buffer. `receive`
runs its own proxy in the command's process, with the upload server as the local target, so that a
request reaches the upload server through a socket of a pool. A restart of the daemon goes through
two files, `dump.json` (written by the CLI, removed by the next daemon) and `replay-meta.json`
(written and kept by the daemon).

All of the program is single-threaded JavaScript. A handler runs without interruption up to its
next `await`; there any other callback may run. This is the grain of atomicity of every module:
one action is the code between two awaits, or one callback.

The hazards of this code, each at its line, are in `PROJECT.json`; those with no property yet say
why.

## Modules

| Module | Models | Extends / instantiates |
|---|---|---|
| `TunnelLink` | what a tunnel's proxy promises: the alternation of connect and disconnect and the status folded from them | – |
| `ProxyPool` | the pool in `createProxy` | instantiates `TunnelLink` |
| `ProxyRequest` | requests and upgrades that share a socket of the pool | – |
| `ProxyProofs` | theorems about `ProxyPool` and `ProxyRequest` | extends both, `TLAPS` |
| `DaemonServer` | the daemon and its restarting CLI | instantiates `TunnelLink` per handle |
| `DaemonServerProofs` | theorems about `DaemonServer` | extends `DaemonServer`, `TLAPS` |
| `ReplayBuffer` | the ring buffer as operators | – |
| `ReplayStore` | capture, replay and persistence of the buffers | extends `ReplayBuffer` |
| `ReceiveServer` | the upload server | – |
| `ReceiveServerProofs` | theorems about `ReceiveServer` | extends `ReceiveServer`, `TLAPS` |
| `ReceiveOnce` | what must eventually happen in it | extends `ReceiveServer` |
| `Share` | `tunli share` and `tunli connect` with the relay between them | – |
| `ShareProofs` | theorems about `Share` | extends `Share`, `TLAPS` |
| `ReceivePage` | the page that sends to the upload server | – |
| `ReceivePageProofs` | theorems about `ReceivePage` | extends `ReceivePage`, `TLAPS` |
| `Launcher` | the launcher, restarts and updates | – |
| `ConfigStore` | the configuration files and the commands that edit them | – |
| `ConfigStoreProofs` | theorems about `ConfigStore` | extends `ConfigStore`, `TLAPS` |
| `Parser` | the argument parser | – |
| `CommandLineProofs` | theorems about `Launcher` and `Parser` | extends both, `TLAPS` |
| `Dashboard` | the live dashboard, the switch between tunnels and the daemon's side of an attach | – |
| `RequestLogProofs` | theorems about `ReplayStore` and `Dashboard` | extends both, `TLAPS` |
| `MCReceiveOnce`, `MCShare`, `MCLauncher`, `MCConfigStore`, `MCParser` | constants and symmetry for TLC | extend the module they name |

A definition whose comment begins with `Slip` is not part of a specification: it is a plausible
mistake in the definition that follows it, kept so that each property can be seen to catch one.

### TunnelLink and ProxyPool

`ProxyPool` has one element of `sock` per relay socket, numbered as in the `sockets` array. The
handler of a socket's `disconnect` is `HandleDisconnect`: hand the ping over to the first connected
socket (`HandOverPing`), clear the interval if there is none (`StopTimer`), count down and emit
(`CountDown`), in the code's order. `disconnect()` calls `disconnect` on each socket in turn; as
socket.io runs the handler of a connected socket at once, the handlers see a half-disconnected pool.
The model therefore takes one action per socket of that loop (`Disconnect` starts it,
`DisconnectNext` visits one), although nothing can run in between. socket.io itself is external: it
appears as sockets that connect, drop and fail in any order until `disconnect()` has visited them.
`status` is `TunnelInfo.status` as the daemon's three listeners set it.

`TunnelLink` is the abstraction: a link that goes up, goes down, is refused, or is closed for good.
`LinkSpec` is `TunnelLink!Spec` under the refinement mapping "up while a socket is connected, open
until `disconnect()` was called".

### ProxyRequest

One socket of the pool and the requests that arrive on it, each http or an upgrade to WebSocket.
`Request` is the handler of the `request` event: it starts the local connection and subscribes
`onPipe` and `onEnd` (the sets of requests that listen to `request-pipe` and to
`request-pipe-end`; those of http listen to `request-pipes` and `request-pipe-error` as well, together with the others).
`Pipe`, `Pipes`, `PipeEnd` and `PipeError` are events of the socket: every listener hears them and compares
the id. Upgrades do not listen to `request-pipes`, a batch, which is lost to them (`batched` is the history of that). The listeners of http requests unsubscribe themselves (`cleanup`); the end listener of an
upgrade is a `once`, which the first end removes whatever its id. `Answer`, `LocalError`, `Data` and
`TcpClose` are events of the local target and come whenever it likes: an http target may answer
before the body has come (`pending` is a non-null `pendingCapture`), and the bytes of a WebSocket
target come in chunks that know nothing of where the headers end. `destroy()` on a local request
makes its error come later (`local = "destroyed"`).

A chunk is a pair of its request's id and its number, `got` what `localReq.write` or
`tcpSocket.write` was given; `bodyChunks` and `bodySize` are read off it, with chunks of one size, as
both are filled by the same handler. The relay is external: it sends what belongs to a request in
order on the socket the request came from, and nothing after that socket dropped (`SocketDrops`).
Left out: response bodies of http requests (passed on without state), headers, latency, how an
upgrade behaves between `net.connect` and `connect`.

### DaemonServer

A tunnel is a handle with a stage: `creating` while `createProxy` awaits the relay, `live` once its
sockets exist, `ended` after `disconnect()` or a failed creation. `Start` and `CreateDone` /
`CreateFails` are the two halves of `#handleStart`, so starts overlap with each other and with every
other request. `Spawn`, `RestoreNext`, `Restored`/`RestoreFails` and `Listen` are
`#restoreFromDump`, which awaits one tunnel after the other. `Dump`, `WriteDump` and `Shutdown` are
the steps of `dumpAndStopDaemon` in the CLI's process; requests of others fit between them.
`StopDaemon` is a plain `tunli daemon stop`. `Crash` kills the process at any point; `dump.json`
survives, and has already been removed if the process was restoring.

A handle's events (`LinkUp`, `LinkDown`, `LinkRefused`, and the end of the link within `Disconnect`)
are those of `TunnelLink` (`LinksFollowPool` is proved), and `ProxyPool` shows that the real pool produces no other.

`before`, `quiet` and `failed` are history, read by properties only. `list` and `version` change no
state and are left out; replay requests are in `ReplayStore`, and attach is in `Dashboard`.

### ReplayBuffer and ReplayStore

`ReplayBuffer` is the class, on sequences with the oldest entry first. Of an entry only its id, body
and `bodyUnavailable` matter. In `ReplayStore` ids number the requests in the order they were
captured. A body is text, or binary and then `Mangled` by `Buffer.toString('utf8')`
(`Proxy.ts:167`), or absent. `Replay` is `#handleReplay` up to the await of the local target,
`ReplayDone`/`ReplayFails` the rest; captures, evictions, stop, shutdown and crash fit in between.
`Load` drops any subset of the saved entries as past their time to live, since clocks are not
modelled. `original` and `origin` are history: what each request really was.

### ReceiveServer and ReceiveOnce

`pc[r]` is the await request `r` is at:

| `pc` | await (`ReceiveServer.ts`) |
|---|---|
| `metadata` | body of the create (116) |
| `opening`, `opened` | opening and closing the new part file (126) |
| `writing` | body of a chunk being written (175-188) |
| `truncating` | removing the bytes of a failed chunk (190) |
| `linking` | `link(part, target)` (209), again under the next number after EEXIST |
| `linked` | between the link and `saved = true` |
| `unlinking` | removing the part file (220) |
| `finishing` | the response to the completing request, whose `finish` ends `--once` (223) |

A part file and the saved file are hard links to one inode; `content[u]` is its bytes, each `none`,
`junk` (written, not verified) or `good` (part of a chunk whose digest was right). File names are
sequences so that `Candidate` can put a number behind a name and collide with a sender who asks for
the numbered name itself. The directory starts with any set of other people's files.

Left out: GET requests (they only refresh `updatedAt`), time (any idle session may be past its
TTL when the cleanup timer fires), the contents of the page. Removing a part file and closing a new
one are assumed to succeed; every other file operation may fail. `Hangup` destroys the connection
of a completing request; in the earlier stages a lost connection only fails the body, which
`CreateRejected` and `PutFail` include.

A create that is at an await when `close()` discards the sessions registers its own afterwards, on a server
whose timer and route are gone, so that nothing removes its part file any more; `orphans` is the history of
those, and `CanEnd` says of every other session what will still remove its part file.

`ReceiveOnce` adds fairness and what must eventually happen.

### Share

Two processes and the relay. Each side has a queue of events to the relay (`toRelay`) and one from it
(`inbox`), in order, as a socket.io connection is; what is emitted while the socket is down waits, and
what was under way when it dropped is lost. The relay is external: `RelayTakes` creates a session per
`share-connect`, passes events on within a session that is not over, and ends all sessions of a side
whose socket drops (`Lose`). Its part is taken from what the two sides send and handle, which
`docs/share-relay-spec.md` describes.

The client's state is `sessionId`, `active` (`activeTcpClient`), `listening` and its local
connections; the host's the map `sessions` and its connections to the target, which the model names
by the local connection whose `share-session-start` opened them (the code has no such name; a
`start` and each chunk carry it as history). Both sides' sockets are half-closed and closed
separately, since `error` may follow `end` and the client's `closeClient` runs for both.

`orderly` is history: every local connection so far came when the ones before it were closed and the
next session was there. The client tracks a single session and connection (`ShareClient.ts:49`), and
what holds without that condition is little; with it, `PipedInOrder` and `EndsTogether` say that the
bookkeeping of both sides is right although `share-data` and `share-end` reach the client without
their session. Left out: the keys shown to the host's user, and `disconnect()` on a signal, which to
the other side is a socket that drops and stays down.

### ReceivePage

`run[r]` is the await an upload loop (`run` in the page) is at, with its own chunk offset, attempt and
request; `job[j]` is what all loops share: state, upload id, offset and the current
XMLHttpRequest. `Pump` is `pump()`, which starts at most one job since one slot becomes free or one
job queued at a time. `Look`/`Open` are the two requests of `session()`, `Put` the end of
`sendChunk`, `Asked` the question for the receiver's offset after a failed one, `Completed`/
`Confirmed` the completion and the question whether it was carried out after all, `Dropped` the
DELETE of a loop that finds its job cancelled. `Serve` is the receiver, reduced to what the page sees
of it; `ReceiveServer` has the detail. A chunk and a first completion stay in their handler's hands (`busy`, the
`active` of the receiver) until `Written`, `Linked` or `HandlerFails` answers; a DELETE, a chunk or a completion that comes in between is
refused, also when the page has stopped waiting for the handler. `CancelTry` is one of the cancel's DELETEs.
`Lose`, `DiskFull`, the expiry of an open session and `Reload` are what may go wrong, `MaxLost` times; a saved session may run out at any
time (`past`). `overlapped` and `gaveUp` are history: two loops ran for the job at once, and the last
DELETE of its cancel was refused.

### Launcher

`child` are the processes the launcher spawned, `inbox` the `restart` messages not yet handled, and
`task[t]` where a run of `dumpAndStopDaemon` and its caller is: one per handled message and one for
`tunli update` or `tunli daemon restart` in another terminal. `HandleRestart` is `onMessage` up to
its first await, `Spawn` the end of `onBeforeRestart` with the start of the new child. `bin` and
`next` are the installed binary and `<binary>.update`; a file being written is `Part`, and `copy`
says which file a process writes, which a rename changes. The daemon is reduced to whether it runs,
has the user's tunnels, and whether `dump.json` holds them. `CliKilled` is Ctrl-C in the other terminal, in the
middle of its copy or its restart, and `Starts` a new start of a launcher that has exited or died. `mixed`, `cut` and `killed`
are history: a restart or an update began while another was under way; a process ended in the middle of its
`copyFile`; the other terminal was interrupted in the middle of a restart. Left out: a launcher that is itself killed by a signal, and two
launchers at once. A copy that fails without the process dying leaves no file, as Node's `copyFile` removes its target then.

### ConfigStore

One process per command. `Start` reads both files (what cannot be parsed is `{}`, `Parse`), `Sync` is
the registry of local configs that every start brings up to date and saves. Then each command has its
steps between prompts and requests to the relay, and saves whole files: `Truncate` and `Write` are
the two halves of `writeFileSync`, so that others may read or write in between, and `Kill` may come
anywhere. `known` is `exists()`, which is decided when an entry is constructed. A value is the command
that wrote it. The relay a profile names (`R`) is an entry of its own, because `validateProfileConfig`
asks for the account of that relay before it looks for the active one; it names one without an account. `last`, `touched`, `tornRead` and `edited` are history: what a file held before the write
under way, what changed after a command had read it (an entry, or `File`, whether there is a file to be
read), what the command could not parse, and what it changed itself.

### Parser

A step is one call of `parseNode`: `Ext` are the options of this level taken out of what is left,
then `Descend`, `Default`, `Help`, one of three rejections, or `Run`. The operators are the functions
of `Parser.ts`; tokens are already classified (word, long or short option, `@profile`, url), as
their spelling matters to nothing else. The loop of `extractOptions` is `Scan`, the function from the number of
tokens read to what is known then, and `Take` is one turn of it; the loops of `buildOptionMap` and
`#directOpts` are functions of the same kind (`PutAll`, `Declared`), which can be proved about where a recursive operator cannot.
`Cmd(c)` is what the builder recorded of command `c`; `MCParser` has a tree with a
command of every kind. `Text` is what names are made of: all strings, but the provers are told only that
the five the code names itself are among them.

### Dashboard

Each attach has a socket and an emitter, numbered; `wire[g]` is what the daemon has sent and the
client not read. `LinkUp`, `LinkDown`, `LinkRefused`, `Serve`, `Stop` and `DaemonEnds` are what happens to the tunnels, as the
listeners of `#handleAttach` tell it to every attached socket; `AttachOk` is the answer to an attach, with the
status of that moment, or the refusal if the tunnel is gone. `SwitchTo` is `onSwitchTunnel` up to its first await, `Read` is the client's
side of a message, `Mount` is `initDashboard` or `rerender` and React's effect that subscribes the component (`ear`), which happens again
only when its key, the profile, changes; only then is the status of the answer emitted (`Told`), so that what came
in between had no listener (`missed`). `Response`, `FlushBatch` and `TogglePause` move entries between `pending`, `batch` and
`log`. A switch whose answer or list never comes stays where it is (`hung`). Left out: a tunnel or a daemon that is started
again under a dashboard.

## What TLC checks

| Run | Instance | States | Shows |
|---|---|---|---|
| `pool` | 4 sockets | 600 | the handlers' counter is exact, the ping follows a live socket, the status is sound, the pool implements `TunnelLink` |
| `daemon` | 2 profiles, 3 handles | 1 811 166 | a quiet restart keeps the tunnels; a live tunnel loses its owner only to an overlapping start; restoring ends |
| `replay` | 2 profiles, capacity 2, 3 requests, 1 replay at a time | 217 198 | faithful replays, newest first, eviction of the oldest only |
| `request` | 2 requests of any kind, bodies of up to 2 chunks, limit 1, headers of 2 bytes in 4 | 386 369 | captured once and whole, no bodies mixed, batches lost to upgrades only, no listener left behind, no frame lost, when an upgrade misses its end |
| `receive` | 2 uploads, 2 requests, sizes 0 and 3, chunks of 2, 1 session, suffixes to 3 | 64 174 | the resume point is verified, what is saved is complete and saved once, `--once` gives one file, a part file can still be removed or is that of a late create; every handler returns, `--once` stops unless the connection is cut |
| `share` | 2 connections, 3 sessions, 1 chunk each way, 1 drop | 1 241 728 | an orderly connection gets its own bytes in order, and its ends close together |
| `parser` | 7 commands, 17 tokens, lines of up to 3, or 2 after a command | 33 689 | options are found wherever they stand and asking for help runs nothing, if every value is given |
| `config` | 2 commands of any kind, 2 profiles | 1 464 247 | a save undoes only what was changed since its command read the file; the registry follows the local file; setup rejects only an account it has just made or a relay without one that the profile names |
| `setup_first` | same | – | **violated**: setup "saves the profile config" (`docs/setup-wizard.md:69`) |
| `page` | 1 file of 1 chunk, 2 loops, 3 upload ids, 2 attempts, 3 clicks, 1 loss | 371 765 | no job is stranded, a file is saved once unless two loops overlapped or a saved session ran out, a cancel leaves no upload unless every DELETE was refused, an upload ends |
| `launcher` | 2 versions, 3 restarts or new starts | 3 280 783 | one child, the tunnels survive, the binary is whole, as long as restarts and updates do not overlap and no copy is cut |
| `dashboard` | 2 tunnels, 3 responses or changes of a link, 3 attaches, a log of 1 | 4 014 050 | the component listens to what it shows, shows the status unless it lost an event before the mount, the log is what it was told, the counter is never ahead |

### Bounds, and why they are enough

- *Pool size 4* (the default pool is larger, but handlers tell apart only the ping socket, a socket
  to hand over to, and the rest); the theorems hold for every size.
- *Handles*: at most that many tunnels exist in memory at once. Two suffice for two overlapping
  starts of one profile and for a tunnel that replaces another; the third is a tunnel of the other profile beside them.
- *Capacity 2, MaxId 3*: one eviction and, with restarts, a restored buffer that overflows. MaxId 4
  was checked once (3.7 million states). The theorems of `RequestLogProofs` hold for every value.
- *Requests 2*: listeners of different requests interact only through the events of the others, so two
  show every interaction of a pair; three were too many to check. The theorems of
  `ProxyProofs` hold for any number. `MaxChunks = 2 > BodyLimit = 1` gives bodies of none,
  within and above the limit; `HeaderSize = 2` and chunks of 1 to 4 bytes give every cut of headers
  and frames.
- *Receive*: size 3 with chunks of 2 gives a full and a short last chunk; size 0 completes at once.
  One session with two requests lets creates exceed the limit. `MaxSuffix` bounds how many names are
  tried; the code has no bound, and with two uploads and the initial files of `Names` a free number
  always exists below it. A sender who asks for a numbered name himself was checked once
  (496 788 states), three uploads of one size once (1.27 million).
- *Share*: a connection that the host ends makes the client ask for two sessions, so that a second
  connection needs the third. The run does not explore beyond a disorderly connection (`CONSTRAINT
  OrderlyOnly`): its two properties say nothing of what follows. Drops of both sockets were checked
  once (3.5 million states).
- *Parser*: an option, its value and one more token are a line of three, and a command of three words
  is preceded by its words; every token kind and every kind of option, argument and requirement
  that the commands use is in the tree. The theorems of `CommandLineProofs` hold for every tree and every line.
- *Config*: two commands show every lost update of a pair; each writes at most four times, so the
  run needs no other bound. The theorems of `ConfigStoreProofs` hold for any number. The initial files are those of a new user or of one with an account and a
  default profile, with and without a local file.
- *Page*: a pause and a resume inside one await need two clicks, and a third cancels what
  they left; three ids are one more than an upload, its replacement and the upload of a second loop
  need after one loss. `Attempts` and `CancelAttempts` stand for four and five: the first and the last differ. The theorems
  of `ReceivePageProofs` hold for any number of clicks and losses.
- *Launcher*: the second restart is the one that overlaps; with `MaxRestarts = 3`, a launcher that quit in the middle of a
  copy starts again, installs what the copy left, and is restarted or started once more.
- *Dashboard*: three attaches are two switches, the second possibly during the first; three responses
  overflow a log of one, with one entry in the batch and one in the log, or in the buffer of a paused dashboard. The code's limit is 30. The
  theorems of `RequestLogProofs` hold for every limit and number.
- *Symmetry* is used in `share`, over connections, and in `config`, over commands; neither checks liveness.
- *Deadlock* is not checked: every one of these systems may come to rest (no request, no event, a
  command that is done).

### Fairness

- `DaemonServer!Fairness`: the restore loop goes on, and a request for connection data is answered
  or fails. Nothing is assumed of commands or the relay's connections. The relay request is
  an HTTP call, which fails if its connection does; it has no timeout of its own, so this is an
  assumption about the network stack and `RestoreTerminates` depends on it.
- `ReceiveOnce!Fairness`: an awaited file operation, request body or response completes or fails,
  the timer of `onOnceComplete` fires, and `server.close` calls back. Nothing is assumed of senders.
  A failure is never owed where a success is possible, except for `link` of a missing part file.
- `ReceivePage!Fairness`: a request is answered (by the receiver or as lost), a handler of the receiver that holds a chunk or
  a completion ends, and a loop whose await is over goes on, as does the cancel handler. Nothing is assumed of the person at the page; clicks and
  losses are bounded, so that pausing for ever is not a way not to end.
- The other modules are specifications of safety and assume none.

### A finding

`setup_first`: `exists()` of a server entry is decided when the entry is constructed, so the account that the
first `tunli setup` registers is taken for missing by `validateProfileConfig` at the end of the same run: it
reports "Not registered" and exits with 1, and the profile the wizard asked for is not saved
(`docs/setup-wizard.md:68-69` says it is). A second run works. `RejectsOnlyNewAccount` says that the one other way the wizard turns
a proxy away is a profile to be overwritten that names a relay without an account, which `WizardSavesProfile` leaves out.

### Known divergences

Where the documents promise more than the code keeps, a property of a passing run says exactly how
much is true, with the promise quoted in its comment:

- `docs/architecture.md:51`, the daemon "owns all active tunnel connections": two overlapping starts
  of a profile both pass the test of the map, and the tunnel registered first stays connected without an
  owner. `OwnerLostOnlyToOverlap`: only so.
- `README.md:155`, "`restart` preserves active tunnels": a tunnel whose start completes between the dump and
  the shutdown is lost. `QuietRestartPreserves`: none is lost if nothing starts or stops there.
- `README.md:30`, "HTTP & WebSocket tunneling": the end of any other request on the socket uses up the `once` listener of
  a WebSocket (`Proxy.ts:309`), whose own end is then missed. `EndMissedOnlyIfOvertaken`: only so.
  And what the relay sends a WebSocket in a batch is dropped: `forwardUpgrade` subscribes to `request-pipe` only
  (`Proxy.ts:308`). `LocalGetsOwnBody`: a target misses only that.
- `README.md:85`, `--once` will "stop after one successful upload": the stop hangs on the `finish`
  event of one response, which a connection that is destroyed while the file is being linked never
  emits. `OnceStopsUnlessCut`: only so.
- `share/ShareClient.ts:7`, "Any TCP client connecting to that port … gets its data piped": one that connects
  between the end of a session and the start of the next announces itself with the session id `null`
  and hangs. `orderly` in `Share` excludes such connections, and `PipedInOrder` and `EndsTogether` hold of the others.
- `docs/architecture.md:43`, "The launcher never exits between restarts": with two restarts after a download the
  second `rename` finds no file, and the launcher dies of the unhandled rejection; a second restart may
  also stop the daemon that has just restored the tunnels. `OneChild`, `TunnelsSurvive` and `BinaryWhole` hold while
  restarts and updates do not overlap (`mixed`). `docs/architecture.md:127` places the swap of the binary in the
  launcher; `tunli update` does it itself (`CommandUpdate.ts:52`).
- `docs/architecture.md:43` again: a copy that is interrupted leaves a truncated `<binary>.update` behind, and the next
  Ctrl-R renames it into place, also that of a launcher started later (`downloadBinaryUpdate.ts:49`,
  `launcher-main.ts:51`, `applyUpdate.ts:27`); a binary that is cut does not start. `BinaryWhole` names it as its exception (`cut`). A
  `tunli daemon restart` that is interrupted between the daemon's stop and its start leaves the tunnels in
  `dump.json` only, until something starts the daemon (`killed` in `TunnelsSurvive`).
- `CommandConfig.ts:36`, `config delete -p staging` is to `Delete a profile`: the command inherits `-p` and does not look at
  it; it removes the whole file (`configDeleteCommand.ts:15, 25`), as `README.md:193` has it for a delete without `-p`.
  `SaveUndoesOnlyRecent` counts the removal as the command's purpose and says so in its comment; `profile delete` removes one profile.
- `README.md:192`, profiles: `config set … -p <name>` with a profile that does not exist edits the default
  one (`Named`). Two commands that write at once may leave a file that is not JSON, which the next
  one reads as empty: `SaveUndoesOnlyRecent` names it as an exception.
- Pausing and resuming an upload within one await runs two loops for it, which may save the file twice. So may a page that has not
  heard of the save before the receiver forgets the saved session (`ReceiveServer.ts:78-82`): it is told that there is no such
  upload and begins again. `SavedOncePerFile`: only so.
- A cancel sends up to five DELETEs (`ReceivePage.ts:149`), each of which is answered 409 while a handler holds a chunk
  (`ReceiveServer.ts:145`); if all are, the upload stays open until it expires. `CancelLeavesNothing` names it as an exception.
- A create that is under way when the receiver closes leaves its part file behind (`ReceiveServer.ts:249`).
  `PartFilesOwned`: only so.
- Events between the answer to an attach and the mount of the dashboard reach nobody, and the older status of the answer is
  emitted after them (`CommandDashboard.ts:79-88`): a tunnel stopped there stays shown online. `ShownInStep`: only so, until the next
  event. A tunnel that is connecting or in error at the attach is shown as connecting.
- A switch to a tunnel that has been stopped meanwhile shows it all the same, offline, on a socket that is closed
  (`DaemonClient.ts:52-54`, `CommandDashboard.ts:79, 84`); a switch during which the daemon ends hangs, or ends the command by the
  unhandled rejection of its `list`. `ListensToWhatItShows` asks for an open socket as long as the tunnel runs.
- Two quick switches to one profile leave the dashboard subscribed to a destroyed socket; resuming within
  the 50 ms of a batch puts the log out of order (`CHANGELOG.md:228`); the buffer of a paused dashboard is
  unbounded. `ListensToWhatItShows` and `LogFaithful` name the first two as exceptions.
- `commands/helper/Parser.ts:262`, `--help` is put again at the end "so the child can detect it at its own
  level": the parser takes whatever follows a valued option as its value, and one that lost its own value to the
  level above takes the `--help`. `tunli http 80 --help --save -v` runs `http`, since `-v` is an option of `tunli`.
  `HelpRunsNothing` and `OptionsFoundAnywhere`: it works if every valued option is followed by a token that is no option
  (`ValuesGiven`) and no command declares an option of one above it again (`NoShadowing`, true of `client.ts`).
- Positional arguments in excess are ignored.

## What TLAPS proves

All theorems hold for every value of the constants that satisfies the named assumptions of the
modules (`PoolSizeAssumption`, `CapacityAssumption`, `StoreAssumption`, `RequestAssumption`,
`DaemonAssumption`, `ReceiveAssumption`, `DashboardAssumption`, `LauncherAssumption`,
`ShareAssumption`, `PageAssumption`, `ConfigAssumption`, `ParserAssumption`).

**`ProxyProofs`, the pool**: `PoolInvariant`, and from it `PoolTypeOK`, `PoolCountExact`,
`PoolPingFollowsLink`, `PoolStatusSound`, and `PoolImplementsLink`: the pool refines `TunnelLink`.
The inductive invariant `PoolInv` is the conjunction of the types and the invariants the run checks. No part of it is
inductive alone: whether the handler of a disconnect emits is decided by the counter, whether it
clears the interval by the sockets, so that counter, ping socket and sockets must be known to agree
(`CountExact`, `PingFollowsLink`) before any one of them can be shown to stay right.
`DisconnectKeepsInvariant` treats the handler once for a dropped socket and for the closing loop.
The refinement is `LinkInit` and `LinkStep`: each step of the pool is a step or a stutter of the
link.

**`RequestLogProofs`, the replay buffers**: `StoreInvariant`, and from it `StoreTypeOK`, `StoreBounded`,
`StoreReplayFaithful`, `StoreListedNewestFirst`, `StoreEvictsOldest`. `ReplayFaithful` is about
replays in progress only and says nothing of the entries they are taken from, so it is strengthened
to `Sound`: every entry of a buffer was recorded for that profile, earlier than `next`, in the order
of the buffer, and if its body is available it is the decoded original; `MetaSound` adds of the file
that no body is available, which is what makes `Load` safe. `PushShifts` describes `push` on every
sequence, and the lemmas `PushSound`, `ToMetaSound`, `FilteredSound`, `RestoreSound` and
`PushEvictsOldest` say what each buffer operation preserves. `Filtered` is the `filter` of
`#loadReplayMeta` written with increasing functions on positions, because facts about the recursive
`SelectSeq` of the standard module would need induction over an operator argument.

**`ProxyProofs`, the requests**: `RequestInvariant`, and from it the types and each of the five
properties of the `request` run (`RequestTypeOK`, `RequestCapturedWhole`, `RequestLocalGetsOwnBody`,
`RequestListenersReleased`, `RequestFramesComplete`, `RequestEndMissedOnlyIfOvertaken`). The
invariant is one predicate `RequestInv(i)` per request, next to the types and
`EndMissedOnlyIfOvertaken`, the only part that relates two requests. Its conjuncts tie together what
different callbacks leave behind: `BodyDelivered` (whoever still listens, was ended, or is finished
has the body so far, `Delivered`: the whole of it, but for the batches of an upgrade), `HttpListeners` (both listeners come and go together, and one who
listens and was answered is waiting to be captured), `UpgradeListeners`, `CapturedOnce` (the list of captures is exactly
what `finished` and `answered` determine), `HeadersThenFrames`. `CapturedWhole` follows only from
all of them: that a late answer captures a whole body rests on `finished`, an early one on the
listeners. Each event has a lemma of its own, with a case for the request it names and a case for
the others; `ChunksExtend` is the fact about sequences.

**`DaemonServerProofs`**: `TunnelInvariant`, and from it `DaemonTypeOK` and `DaemonOwnedIsOpen` (what the
map holds is live and of that profile); then `DaemonOwnerLostOnlyToOverlap`,
`DaemonQuietRestartPreserves` and `DaemonLinksFollowPool` as action properties. The invariant ties the map,
the stages and the links together: what the map holds is live (`OwnedIsOpen`), the status of a live handle is backed by its link
(`StatusBacked`), and a daemon that is down holds nothing (`DownIsEmpty`). `QuietRestartPreserves` compares the state after the restart with
one long past, so its invariant `Kept` says of each tunnel that ran at the dump of a quiet restart
where it is now: in the CLI's answer, in `dump.json`, in the queue, being restored, in the map, or among
those the relay refused.

**`ReceiveServerProofs`**: `ReceiveInvariant`, and from it all the safety properties of the `receive` run
and three more (`ReceiveTypeOK`, `ReceiveResumePointVerified`, `ReceiveSavedComplete`, `ReceiveSavedOnce`,
`ReceiveOnceAtMostOne`, `ReceivePartFilesOwned`, `ReceiveExclusiveWorker`, `ReceiveOnceLatchReleased`,
`ReceiveClosedKeepsNoData`), for any number of uploads, requests, sizes and names. The invariant has
four groups besides the types. `Owners`: a handler at a working await holds the `active` flag of its
session, alone, even when the session has been dropped from the map meanwhile; `active` is not left set
on one that can still be reached; a session under creation belongs to its create. `Bytes`: what is
below the offset is verified, and an offset a handler read before an await is still the session's when
it writes. This needs `Owners`, since only another worker could have moved it. `Saving`: no handler writes to a saved session,
and what is under a final name is complete. `OnceOnly`: under `--once` a create is alone, at most one
session is live, and a file in the directory is that session's; the latch alone
would not do, as it is held only while a create is in progress. Each group has a lemma with one step per
handler.

**`RequestLogProofs`, the dashboard**: `DashboardInvariant` is one predicate `Sock(g)` per attach. `Counted` and `Heard` say
that what the dashboard shows, what waits in its batch and what is on the wire of its attach add up to no more than
the daemon has served, and that the number in an `attach-ok` under way, with what is behind it on the wire, does
neither; `DashboardCountNeverAhead` follows. `News` and `Seen` say that the last status on the wire of a socket, or else what was read
from it, is the status of its tunnel or the end of the socket; `DashboardShownInStep` is the case of a wire that is empty.
`DashboardListens` proves `ListensToWhatItShows` from `Settles`: unless two switches crossed, either no
attach is under way and the component is subscribed to the current one and shows its tunnel, or the
only one under way is the current one, for another tunnel than the one shown; and from `Opened`: a socket is closed only by a switch, with its
tunnel gone, or by the end of the daemon. `DashboardLogFaithful`
follows from `LogInv`, which adds what the three buffers owe to the timer and the pause: a batch waits
only for its timer, and only a paused dashboard buffers, so that resuming appends to a batch that is empty
unless `shuffled`. The lemmas on `Ends`, a suffix by positions, carry what is at the end of the history
through a flush, a resume and a full log that drops its oldest entries.

**`CommandLineProofs`, the launcher**: `LauncherInvariant`, and from it `LauncherOneChild`, `LauncherTunnelsSurvive` and
`LauncherBinaryWhole`, each about the time before two restarts or updates overlap (`mixed`). The
properties speak of a launcher at rest, and of the binary only; what makes them inductive is
`OneThing`, the list of what can be under way: nothing, a download, the other terminal's update or restart, a
restart message, its restart, or the start of the next child. Each case says what the others must be, and a step either
leads to another case or makes `mixed` true; a process that is interrupted leads to the idle case, and so does, by way of a child
that boots, a new start. `NextWhole` says that `<binary>.update` is whole unless a copy was cut, which is what makes the
rename of a restart safe. `Tunnels` says where the tunnels are in between, with the
daemon or in `dump.json`, and that the file is there only while a restart is on its way to a daemon or was interrupted on it;
`Numbered`, that a child answers a message, so that the children are never used up.

**`CommandLineProofs`, the parser**: `ParserInvariant`, and from it `ParserOptionsFoundAnywhere` and
`ParserHelpRunsNothing`, for every tree of commands, of any depth, and every line. The properties compare the level
that runs with one pass over the whole line that knows all its options, and say nothing of the levels
before it, which know fewer. The invariant says of every level on the way (`LevelsAgree`, with `SameAsOnce`): one pass over
the line as typed, knowing what this level knows, finds what the levels above stored joined with what this one
finds in what was left to it, after the words that led here. `SameBelow` carries this one level down, from a map `X` to the larger `M`
of the child. Under it lies a simulation, `OneLevelMore`: a scan with `M`,
a scan with `X`, and a scan with `M` of what the second leaves over go in step, each token being
taken by the parent (`LowerTakes`), left to the child, which takes it or not (`UpperTakes`), or a word that led on (`WordPasses`). This needs
both hypotheses of the properties: values must stay with their options, or a token taken by one scan is left by
another, and the options of a level must not replace those above, or the two store under one key
(`MapGrows`). `ChildAgrees` adds that a `--help` put again at the end changes nothing but whether help is asked, and
`HelpFound` that a help token on the line is always found, so that a command that runs had none. A recursive
function over positions needs no induction over data: `UpTo` and `Carried` show that it is defined and
that what each turn preserves holds of every value, by the least position at which it would not.

**`ShareProofs`**: `ShareInvariant`, and from it `SharePipedInOrder` and `ShareEndsTogether`, for any
number of connections, sessions, chunks and drops. The two properties say nothing of what is in the
four queues, and the client does not look at the session of what it receives, so the invariant is
mostly about the queues. `OneSession`: a session serves one connection and a connection starts in one session,
counting what is under way. `Current`: what the client's session was used for is the connection it
still has, and a session announced to it was used for nothing. `Alive`: while the relay bridges a session
that serves a connection, either the client still has both, or its end of the session is under way
before any request for another one; so nothing for the next connection can overtake the end of the last one.
`HostFlow` and `ClientFlow`: for each connection that something may still be given to, what it was
not given of what the other end sent is a `Run` in the queue before it, followed by a `Run` in the queue
before that, each without a gap. A `Run` is a statement about positions in a queue, and the lemmas `RunAdd`,
`RunTake`, `RunDrop`, `RunSkip` say what the four ways of changing a queue do to it; `QueueEnds`
describes the ends of all sessions that the relay adds when it loses a side, in whatever order.
`TargetsEnd` and `LocalsEnd` add where the news of an end is while a connection is still open. `Final`,
that nothing of a session follows its end, is needed because the host
would otherwise open a connection for a session that is over. Every event has a lemma of its own.

**`ReceivePageProofs`**: `PageInvariant`, and from it `PageTypes`, `PageNoJobStranded` and
`PageSavedOncePerFile`, for any number of files, loops, uploads, clicks and losses. `Owned` holds of every
job: the uploads that a job, the browser's storage, a loop or an answer names are uploads of that job's
file; an answer that says saved is about a saved one; a loop that drops an upload belongs to a
job that is over. `Sole` holds of the jobs no two loops ever shared: one loop at most; one saved upload at
most, or one that a handler still holds and may save (`Holds`); and that one is, until the job is closed, the upload `session()` would resume (`JobSole`), and with a loop
at work the one it looks for, or the job's own; while it opens a new one there is none
(`RunSole`). It is this last part that an answer `gone` to a GET could break, if it were ever about a saved
upload; it is, once the receiver has forgotten one, and `Sole` leaves those jobs out (`Forgot`). `Waited` says that a loop that waits for a
handler waits for one that is at work. Every handler of a loop changes its own job and slot and then either goes to the next await or
ends in `pump()`: `AwaitKeeps`, `ReturnKeeps` and `PumpKeeps` prove that once, of a job and a slot that are
`Local`, and each handler has only its own job and slot to account for. `PumpKeeps` needs that one job was
queued or one slot free, as `pump()` starts one loop in the model; `NoJobStranded` itself provides that.
`OnwardKeeps` and `SavingKeeps` do the same for what the receiver does to its uploads.

**`ConfigStoreProofs`**: `ConfigInvariant`, and from it `ConfigRegistrySynced`, `ConfigRejectsOnlyNew` and,
as an action property, `ConfigSaveUndoesOnlyRecent`, for any number of commands and profiles. The
invariant is one predicate `Good(i)` per command. Its core is `CopyInStep`: a command that may still
write holds of each entry what the file held before the write under way, unless it edited the entry,
the entry changed since, or the file could not be parsed. A save that breaks off or mixes with
another one makes the file torn and everybody's copy old, the writer's included, and this is what
keeps the predicate through interleaved truncations. `CreateInStep` and `NoLocalCopy` say the same of
the empty local file that `init` and the wizard create, `HasAccount` is the wizard's argument for
`RejectsOnlyNewAccount`, and `Registry` follows the registry through the save of the sync: first what
was read, then the copy being written, then the file. A step touches one command; `Bystander` shows once
for all others that `Good(j)` survives any change of the files they are told of (`Seen`), and
`GoGood`, `SaveGood` and `FileStep` treat the three ways in which commands go on.

What stays with TLC: liveness under fairness (`RestoreTerminates`, `HandlersReturn`, `OnceStopsUnlessCut`,
`CancelLeavesNothing`, `UploadSettles`) and `ENABLED`, which are outside of what the prover does. Every invariant and
every action property of a passing run is stated by a theorem.

## What is not modelled, and why

- `@tunli/daemon`: its source is not in the repository. Two daemons at once (`ensureRunning` spawning
  a second one while the first restores) are therefore excluded by assumption.
- socket.io, Node's streams and the relay: external; only the order of their events appears.
- The dashboard's rendering (layout, latency and blocked counters, QR code) and the live log without a
  dashboard, which keeps no state.
- The output formats of commands, the first installation, logging, identity keys and the API client:
  formatting, I/O, or small sequential functions without shared state. In the API client a request
  either is answered or fails, and that is how it appears in `DaemonServer` and `ConfigStore`.
- Stopping a tunnel while its start is pending is answered "not running" and the tunnel comes up
  afterwards; a CLI killed between writing `dump.json` and the shutdown leaves a file that a much later
  start restores. Both are reachable in `DaemonServer`, but no document excludes them, so no property
  does.

## Plan

Done:

1. `TunnelLink`, `ProxyPool`, `ProxyProofs`.
2. `ReceiveServer`, `ReceiveOnce`, `ReceiveServerProofs`.
3. `DaemonServer`, `DaemonServerProofs`.
4. `ReplayBuffer`, `ReplayStore`, `RequestLogProofs`.
5. `ProxyRequest`, `ProxyProofs`.
6. `Share`, `ShareProofs`; 7. `ReceivePage`, `ReceivePageProofs`; 8. `ConfigStore`, `ConfigStoreProofs`, `Launcher`; 9. `Parser`, `CommandLineProofs`;
   10. `Dashboard`, `RequestLogProofs`.

Left, in this order:

1. `ReceivePage` composed with `ReceiveServer`, in place of the reduced receiver of `Serve`; the liveness of
   the receiver can then be checked with this sender.
2. The commands `up`, `down`, `restart` and `http` of several processes over the daemon's requests.
3. Version comparison and the layering of profile configs against reference definitions.
