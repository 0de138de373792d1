# simbeam: a TLA+ verification project

simbeam streams an iOS simulator (or a browser) from a Mac to an iPad over
WebRTC. `simbeamd` runs on the Mac; `simbeam-signal` is the broker through which
a client finds it. The hard parts are not the video: they are the goroutines
that share one session's state, the handshake relayed through a broker by
goroutines that lock, unlock and then write, and the pairing of a device through
a one-time code that a timer, a keyboard, a second process and a crash all
touch, the helper processes that produce the video and the transfers that share
a channel. These modules model those parts, TLC checks them on small instances,
and TLAPS proves the central safety properties for instances of any size.

Paths below are relative to the repository root (`src/` in `PROJECT.json`).

## Inventory

| Component | State | Operations | What is hard, and what makes it correct |
|---|---|---|---|
| Session dispatcher (`internal/server/attach.go`, `rtcdispatch.go`, `bulk.go`, `rtc.go`) | current attachment, generation counter, pending udid, the reply route | attach, detach, quality, boot, shutdown, restart, input, shake, screenshot, list; watchdog; pump; teardown | two channels, one goroutine per attach, one per pump; every feed is closed exactly once, every attach is answered, and what a shutdown or restart takes down is closed before the simulator powers off (an attach still spawning is not: `attach_restart`) |
| Pairing (`internal/server/pairing_window.go`, `pinned.go`, `cmd/simbeamd/main.go`, `pairctl.go`) | the window, its timer and screen block, the pinned map and its file | P, C, timer, `simbeamd pair`, `simbeamd unpair`, connect, proof, restart | one key per code, pins survive a crash, revocation, races with a timer and with a sibling process |
| Bulk channel (`internal/server/bulk.go`) | one request being served, a transfer in chunks | list, screenshot, quality; lifecycle replies of other goroutines | every request is answered once, chunks are reassembled by their count alone, a transfer's frames fit a packet |
| Daemon signalling loop (`internal/server/remote.go`) | the one client being authenticated or served, its session, early candidates | connect, proof, offer, candidate, peerLeft; reconnect with backoff | messages of a client that is no longer current; no session outlives its client |
| Broker presence (`internal/signalbroker/presence.go`, `broker.go`) | table of daemons, set of watchers | register, drop, watch, leave, notify | deltas and snapshots written outside the lock; watchers converge to the table |
| Broker relay (`internal/signalbroker/broker.go`) | `d.client` | join, takeover, relay, leave, daemon drop | check under the lock, write after it; one client's messages never act on another's session |
| TURN and subscriptions (`internal/signalbroker/cfturn.go`, `subscription.go`, `internal/store/sqlite.go`) | cached credential and its lock, subscription rows | report, look up, fetch | last write wins by `issued_at`; a credential with half its life left; a slow Cloudflare delays joins, it does not stop them |
| WebRTC peer (`internal/server/rtc.go`, `internal/rtc/peer.go`) | candidates waiting for the remote description, the once-only close | answer, add candidate, close | callbacks on pion's goroutines, candidates before the description |
| Simulator backend (`internal/backend/sim`) | the helper process, its three pipes, the channels `newControl` selects on | attach, frames, input, close | two deadlines, an exit racing its own error envelope, readers before `Wait`, a device clock that is subtracted and converted modulo 2^64 |
| Browser backend and encoder (`internal/backend/browser`, `internal/encoder`) | a tab, ffmpeg, three goroutines, the bytes not yet cut | attach, pictures, frames, close | NAL units split across reads, access units of several slices, a pipeline that ends at every stage |
| Companion, wire types, service, updates, web pages | none or I/O only | | |

The components meet at five places. The broker writes `connect`, `proof`,
`offer` and `peerLeft` to the daemon's WebSocket, which `serveOnce` reads in
order; `serveOnce` asks the pairing window and the pinned store whether a key may
pass; an accepted offer starts a session, whose two DataChannels call the
dispatcher; the dispatcher starts and stops feeds of a `Backend`, through an
interface both backends implement; and the broker hands a join whose proof it
verified the ICE servers its subscription allows.

`PROJECT.json` lists the hazards at their lines, with the properties that would
catch them.

## Modules

| Module | Models |
|---|---|
| `Attach` | `rtcDispatch`: the attachment life cycle under d.mu |
| `Pairing` | window, timer and screen block, pinned store, the gate of `serveOnce`, `simbeamd pair` and `simbeamd unpair` |
| `Presence` | the slot of one daemonID and its watchers, writes to them that fail included |
| `Relay` | `serveClient` and `serveDaemon`, composed with `serveOnce` over the daemon's WebSocket |
| `Turn` | the subscription endpoint and its table, the gate of `iceServers`, the credential joins share |
| `Broker` | the broker in the two services `Presence` and `Turn`, which share a process and no state |
| `Feed` | the contract of `server.Backend.Attach` and `server.Feed`: an abstract specification |
| `Helper` | a feed of the simulator backend; implements `Feed` |
| `Encoder` | a feed of the browser backend with ffmpeg, the NAL splitter and the access-unit assembler; implements `Feed` |
| `Feeds` | a daemon's feed, which is of one backend or of the other |
| `Session` | the loop of `serveOnce` with sessions, candidates and reconnection, and pion's callbacks |
| `Bulk` | requests and transfers on the bulk channel, the client's reassembly included |
| `Peer` | a peer in its two parts, `Session` and `Bulk` |
| `*Proofs` | the proofs about `Attach`, `Pairing`, `Presence`, `Relay`, `Turn`, `Helper`, `Peer` and `Feeds` |
| `MC*` | the symmetry sets and data TLC uses; the instances are in the `.cfg` files |

`Attach` takes its backend to be what `Feed` says; `Helper` and `Encoder` show
that both backends are. `Relay` and `Session` both contain `serveOnce`'s loop:
`Relay` with the broker's interleavings and one bit of session, `Session` with
the sessions and the candidates and with the broker as a source of messages in
any order. Who passes the gate in `Session` is `Pairing`'s matter, and what is
attached in it is `Attach`'s.

### Attach

A section of code under `d.mu` is one action, and the code between two sections
is another, so each unlock is a point where another goroutine runs. The agents
are the goroutines of the two channels and those that end the session
(`Teardowns`); `pc`, `op`, `arg`, `claimed` and `victim` are their program
counters and locals. An attempt, its feed and its pump carry the generation the
attempt claimed: `stage[g]` is where `attachAs` is, `feed[g]` whether the backend
feed is open and who closed it, `pump[g]` where its pump is. `cancelled[g]` and
`base` are the two contexts. `Close` remembers a second close, which is what
`ClosedOnce` forbids. The backend is external: `BackendReturns` may return a feed
or an error at any time, even after its context is done, and a feed may end at
any time. `shutdown` and `restart` share `PowerCheck`, `stopAttachment`,
`PowerGo` and `PowerOff`; they differ in what they tell the client and in
restart's boot. Left out: the wording and the typed codes of replies, video
frames, the quality values, and the requests that only read `d.att` (input,
shake, screenshot, list).

### Pairing

A secret is the number of the arming that generated it, so it is fresh by
construction, as 32 random bytes are in practice. `Open`, `Close`, `State` and
`Accepts` are the window's methods; `verify` accepts exactly in the phase that
`State` reports as open. The timer's callback is two steps (`win.Close`, then
`retire`), and once it has started `Stop` does not stop it; at most one callback
is under way at a time. `Add` changes the map and then the file, which a rename
replaces, so a failed save or a crash leaves the old one. `onEnroll` runs between
the save and `authed = true`, on `serveOnce`'s goroutine, which reads no message
meanwhile. `UnpairLoad` and `UnpairSave` are another process. `Faults` selects
the failures an instance allows: `"save"` (a save fails), `"unpair"`, `"crash"`.
`Connect(k, s)` is a join with key k and a proof made with code s: the HMAC binds
the key, so knowing s is all that matters. `enrolledBy` is a history variable,
which no action reads.

### Presence

One daemonID stands for all, since they share no state. `Register` and `Drop` are
the locked sections of `serveDaemon`; `notifyPresence` collects its targets under
`b.mu` and `sendPresence` writes to one of them, waiting for the write lock that
a snapshot holds. Keepalive appears as the `Drop` it leads to. `Overlap` says
whether the daemon may register again while the goroutine of an earlier
connection is still telling the watchers; the daemon's reconnect backoff makes
that unlikely, and a watcher whose write stalls for up to five seconds makes it
possible. A half-open connection (registered again before the broker noticed the
drop) is allowed in every instance. A write to a watcher may fail or pass its
deadline (`Write`): the broker drops the error and keeps the watcher in
`b.watchers`, so `broken` only remembers whose socket takes no more. Such a
watcher is exempt from `ViewSettles`; what `DotConverges` says of it is that it
goes.

### Relay

Each join has its `serveClient` goroutine; the check of `d.client` and the write
that follows it are separate steps, as are freeing the slot and `peerLeft`, and
reading a daemon message together with `d.client` and delivering it. Both
directions of the daemon's WebSocket are FIFO queues, and `serveOnce` handles one
message at a time. A challenge's nonce is named by the join it was made for;
`Verify` says whose signature over which nonce passes. Clients follow the
protocol and may hang up at any time. Messages in flight are lost when the
daemon's connection drops. `Keys` lists the ways joins may share out the keys:
one key, two pinned keys, a pinned and an unknown one. Left out: a failing
random source, candidates (they are in `Session`), ICE servers (in `Turn`), the
pairing proof (in `Pairing`), and a second registration of the daemon (in
`Presence`).

### Turn

One action is `handleSubscription` with the upsert it makes, whose `WHERE`
compares RFC 3339 strings without a fraction: times are rounded down to a
`Second`. A report may arrive at any moment of its window, any number of times.
`first` is a history: of each second, the report of a key that was taken first,
which is what a row must be. `gate` is the broker's configuration: no relay,
`TURNOpen`, or the subscription.
On a join's goroutine, `Lookup` is the gate, `Cached` and `Fetch` are the two
branches of `turnFetcher.get` under `f.mu`, and `Fetched` and `FetchFails` how
the request ends, with `f.mu` held since `Fetch`. Cloudflare is external: it
mints at some moment (`Mint`) before its answer arrives, or not at all, and the
HTTP client gives up after `FetchMax`. The clock does not pass while a goroutine
that waits for nobody has something to do: the bounds proved are in time that
Cloudflare takes.

### Feed, Helper, Encoder and Feeds

`Feed` has the five things the session layer can see of a feed: `Attach` is under
way, failed or returned one, frames arrive, and `Frames()` is closed, which
happens only to a feed that was cancelled or died, for good, and certainly then.

`Helper` is `newControl` (`main`, `branch`, `outcome`), the goroutine on stderr
(`ReadLine`, `ReadEOF`), the one on stdout (`reader`), a `writeCmd` that may hold
`c.mu` on a full pipe (`writer`), and `Close` step by step. The process
(`helper`) is external: it may write notes, handshakes and an error envelope,
hang, exit at any moment, or ignore its stdin. The lines in the stderr pipe
outlive it, so an exit and an envelope can be seen in either order by the
`select`. A `"cut"` in the pipe is a line over the scanner's limit, or a stderr
the process closed: the goroutine on stderr ends there while the process lives
and writes on. Which fields make a line a handshake or an envelope is left out. A timestamp is a number modulo `2^Width` and is converted to a duration
in that width, as the code's 64-bit arithmetic does with microseconds; `Jumps` are the differences
the device may report.

`Encoder` is `browser.Attach`, the goroutine that takes pictures, and `Encode`'s
two goroutines. ffmpeg's output is one of `Streams`, handed out by `read()` in
pieces of any length and cut short where ffmpeg dies. `split` is one turn of the
loop of `splitNALUnits`, `push` is the assembler. What they are checked against
looks at the whole prefix at once: `Boundaries` are the places where it has a
start code, and `NALUnit` is what stands from one to the next. A stream is H.264
(`WellFormed`, assumed of every stream and evaluated by TLC): it begins with a
start code, a slice has a header and a first byte, and between the slices of one
picture there are no parameter sets.

`Feeds` chooses one backend as `main.go` does; the other stays idle.

### Session, Bulk and Peer

`Session` numbers joins and offers; `Join`, `ICEServers`, `Proof`, `Dropped`,
`Offer` with `Answer` or `AnswerFails`, and `Candidate` are the cases of the
loop, each with the `cleanup` it calls. `Answer` blocks the loop; the cap on
candidates is the same number before an offer and inside the peer. Per session,
`pc` is the peer connection, `fire` the once-only close, `gather` pion's
goroutine with local candidates, whose check of the session's context and whose
write are two steps. `heard` and `stray` are histories.

`Bulk` is one session's channel: `Handle` takes a request, `Listed`, `Captured`
and `NotCaptured` are the backend's answers, `Chunk` one turn of `sendChunked`'s
loop, `Lifecycle` a reply another goroutine sends between any two frames, and
`Read` the client's side. Text has a length: `Capped` cuts what a backend said
before `Marshal` writes the frame, which may stretch the text by `Escape` and
adds the rest of the reply, with the client's udid of up to `MaxRest`. A byte is
the number of its request and its place, so a byte lost, repeated or swapped
shows.

In `Peer` a behaviour is of one part or the other (`part`): all they share is
that the channel dies with its session, at any moment, and `Hangup` is that.

## Runs

Passing runs:

| Run | Instance | Shows |
|---|---|---|
| `attach_streams` | 2 devices, 2 generations, every request, session end | no feed is leaked or closed twice; `stream_ended` only for a feed that died, on the channel the client reads; `pending` is exact; while a shutdown or restart is in the backend nothing from before its claim is or becomes current, and what it took is closed |
| `attach_live` | 1 device, 2 generations, attach/quality/boot, session end | every attach is answered or superseded; every superseded or orphaned feed is closed |
| `pairing` | 2 keys, 2 codes, TTL 1, clock to 3, all faults | one key per code; every pin had a code; every block has a timer; a client past the gate is on disk unless a save failed or another process rewrote the file |
| `broker` | 2 watchers, 3 registrations, no overlap, failing writes; 2 joins, 4 reports, Second 2, Window 3, TTL 4, clock to 8, all gates | a quiet watcher whose socket works shows the table; watchers converge or go; the newest report wins, and the first of its second; a relay credential has half its life left; waits are bounded |
| `relay` | 2 joins of the same or different keys, takeovers, rejoins, daemon drop | a refused join never reaches the daemon; a session is the authenticated key's; slots are freed; a join that takes the slot before the daemon's goodbye is answered |
| `feeds` | deadlines 1 and 2, 2 lines, 2 handshakes, 3 frames; 4-bit clock; 4 streams | both backends implement `Feed`; starts are reported truly; nothing is left; durations follow the device; access units are whole |
| `peer` | 3 joins, 2 offers, 2 candidates per handshake, cap 1; 2 requests, 1 lifecycle reply, escapes of 2, udids of 2 | no session is forgotten; candidates reach their own session; answers match requests, whole; a transfer's frames are of one packet each, a lifecycle reply has a bound |

Two generations let each of two channels have an attempt, one of them stale, and
two devices let a request name a device other than the current one;
`attach_shutdown` and `attach_restart` take three. Two codes let one be replaced, cancelled or
expired while the other is in use, and the clock runs past both deadlines. Three
registrations make one half-open, one dropping and one registering. Two joins
make one displaced or refused and one current. In `broker` the reports are a
subscription, a cancellation in the same second, a later one and another key's,
and the clock passes a credential's whole TTL after a first fetch. In `feeds` a
4-bit clock with three units to a tick wraps within three frames, also backwards;
the streams have pictures of one slice and of several, both lengths of start
code, zeros before a start code, and an empty unit, and `read()` cuts them
everywhere. In `peer` the third join displaces the second session, a second
candidate is one more than the cap, a payload of three takes two chunks of two or
three of one, a long text exceeds both `FrameMax` and `MsgMax`, and a capped one
may exceed `FrameMax` once it is escaped.

Deadlock is checked except in `Broker`, `Presence`, `Relay`, `Feeds` and `Peer`,
where a finite number of connections, joins, frames or requests end and nothing
is left to do.

Runs that are expected to fail show where the code does not keep what a comment
or the documentation says; the quotations are in `PROJECT.json`:

| Run | What the trace shows |
|---|---|
| `attach_shutdown` | a shutdown stops the feed of another simulator |
| `attach_restart` | an attach still spawning when a restart supersedes it spawns on while the simulator is shut down |
| `pairing_save` | a key whose save failed passes the gate at its next join |
| `presence_race` | a watcher stays on offline while the daemon is registered |
| `relay_left` | a leaver's late `peerLeft` tears down the next client |

Every property of a passing run has a mutant: a definition of the model changed
as a plausible bug would change the code, under which TLC finds the property
violated. The mutants stand before the definitions they change.

## Other places where text and code differ

These were met while modelling and have no run of their own. Each is a trace of
the modules here, or of the modules with the history variable named.

- A detach can be answered between `attachAs`'s unlock and its reply, so
  "attached" may follow the "detached" that dismissed the device
  (`docs/HOW-IT-WORKS.md:425-426`); a history of the devices the client was told
  are detached shows it.
- `claimAttach` cancels the old attachment after unlocking, so for a moment two
  pumps may write to the track (`attach.go:28-29`).
- The window is consumed at `connect` and the key pinned at `proof`: C in between
  does not stop the pin, and `simbeamd pair` reports "paired" even when the
  challenge then fails (`pairing_window.go:25-26, 89`).
- The timer of a code shown with P closes whatever window is armed, so it can end
  the later code of `simbeamd pair` early (`pairctl.go:186`).
- `simbeamd unpair` edits the file only. A running daemon admits the key until it
  restarts, and writes it back at its next enrolment; a client enrolled between
  unpair's load and save is dropped from the file, so `HelloNeverLies` needs
  "unpair" out of `Faults` (`README.md:80-81`).
- `serveClient` checks `d.client`, unlocks and then writes: a displaced client's
  offer may be written after the new client's proof, and the daemon then answers
  it. `SessionIsAuthenticated` therefore excepts a session whose client was
  displaced; without that disjunct it fails (`broker.go:286-288`).
- A join that looked the daemon up before it dropped and takes its slot after
  `serveDaemon` said goodbye waits for good. `JoinAnswered` is therefore about
  the joins that take the slot before that (`docs/HOW-IT-WORKS.md:612-613`).
- A second client of another key is refused as busy, where
  `docs/HOW-IT-WORKS.md:281-282` says the first is dropped.
- "EVERY frame" is to fit `bulkFrameMax`. `bulkError` cuts nothing, so a long
  backend message makes a larger frame; and `replyBulk` cuts the text to 512
  bytes before `json.Marshal`, which takes up to six bytes for one and adds the
  udid the client sent, so a lifecycle reply may be larger too. In the model both
  happen: `FrameBounds` bounds a lifecycle reply by the escaped cap and the udid
  and an error envelope by nothing, and with `FrameMax` in place of either, TLC
  finds it violated (`bulk.go:19-31, 273-307`).
- A second offer in one handshake overwrites the session without closing the
  first, which then lives until its peer goes away (`Reoffered`;
  `remote.go:264-277`).
- "Disconnected" counts as closed although ICE may recover: a peer that comes
  back (`PeerBack`) finds its session cancelled (`peer.go:115-121`).
- Without trickle, `Answer` waits for all local candidates on the loop's own
  goroutine, so a takeover is not read meanwhile (`peer.go:158-162`).
- A helper that wrote its handshake and exited at once is reported as "exited
  before the handshake" when the `select` takes the exit (`control.go:205-268`).
- The goroutine on stderr stops at a line of over 1 MiB while the helper lives.
  `newControl` then reports an exit that did not happen, unless the handshake
  came before (`control.go:198-201, 241-260`); `StartReported` excepts it (`Deaf`).

Two properties see less than their subject. In `StreamEndedUnasked` a feed counts
as died once its pump has decided so, so the pump's own look at `baseCtx`
(`attach.go:226`) is covered only where the session's end goes through
`stopAttachment`. In `BackendsAreFeeds` a browser feed whose `Attach` failed holds
nothing by definition, so what a failed `Attach` must release is shown for the
simulator only (`ReapedLast`).

## Fairness

`Attach`: goroutines that can run do, an armed timer fires, and a backend call
returns once its context is done, which is what `exec.CommandContext` gives;
restart bounds its calls by 60 s. Nothing is assumed of requests, of the end of
the session, of a feed that is not cancelled, or of `Boot` and `Shutdown`, which
have no deadline. `Presence`: writes to watchers are bounded by a deadline, so
goroutines that are telling get on with it, and once a write has failed the pings
fail too, no pong extends the read deadline, and that watcher's loop ends
(`presence.go:131-160`). `Relay`: goroutines run and sockets deliver; nothing is
assumed of joins, hang-ups or drops.

`Helper`: goroutines run, the session closes a feed it cancelled and its pump
receives; a goroutine that wants `c.mu` gets it in the end (strong fairness of
`closeStdin`, since writes may alternate with it); the helper settles its start
unless it hangs, and a write ends once the process is dead. `Encoder`: a launch
that is cancelled returns, ffmpeg ends when it is killed or its stdin is closed.
Nothing else is assumed of either process: that a feed ends is the daemon's own
doing. `Bulk`: the handler runs, simctl lists in the end, `screenshotTimeout`
passes, the client reads. `Turn`, `Session` and `Pairing` have safety properties
only; `Turn`'s bound on waiting is a safety property of its clock.

## Proofs

`AttachProofs`: `IInv` is inductive, for every set of devices, every set of
session-ending goroutines and every bound on generations (`AttachAssumption` only
separates the names). The safety properties are not inductive alone. `OwnerInv`
says that an open feed has exactly one owner (`d.att`, one agent, its pump or its
`attachAs`), which is why it is closed once; `StageInv` ties the owner to the
stage; `GenInv` says that a claimed generation belongs to one handler until it is
spawned, which makes the comparison with `d.gen` decisive; `PowerInv` says of a
shutdown or restart, from its claim on, that no attempt it superseded is or can
become current, and `AgentInv` that a handler in the backend holds no feed;
`RouteInv` says that a feed asked for on bulk was acknowledged there first. From these follow `TypeOK`, `NoOrphanFeed`,
`ClosedOnce`, `PendingExact`, `PowerCycleClean`, `StreamEndedUnasked` and
`EventOnRequestRoute`.

`PairingProofs`: `CodeInv` says that the armed code has let nobody in and nobody
holds it, that a held code has let in nobody but its holder, and that codes not
yet generated are unused; `GateInv` says that a key is being enrolled exactly
while a code is held for it. `OneKeyPerCode`, `PinnedByCode` and `BlockHasTimer`
follow for any number of keys, codes and restarts, with saves failing, siblings
unpairing and crashes at any point. `HelloNeverLies` is proved where `Faults` is
at most `{"crash"}`: `DurableInv` says that the map then never runs ahead of the
file and that whoever passed the gate, or is in the enrolment callback, is in the
map. `pairing_save` shows that the assumption on saves is needed.

`PresenceProofs`: if registrations do not overlap, the one that is telling tells
what the slot says (`SlotInv`), and a watcher that is there has heard what the
slot says, has something on its way or has a broken socket (`HeardInv`);
`ViewSettles` follows. `PresenceTypeOK` is proved with and without overlap.

`PairingProofs` also has `HelloDurable`, which is checked with all faults: it
says of every instance that a client past the gate is on disk unless a save of
its key failed or another process rewrote the file since it was enrolled.

`RelayProofs`: `AbsentInv` says of a join that was refused that it holds no slot
and is named by no message in either queue, no local of a goroutine and no state
of the daemon; `WireInv` and `JoinInv` say whom a message and a goroutine can
name. `TypeOK` and `RefusedNeverReaches` follow for any number of joins, keys and
displacements.

`SessionIsAuthenticated` needs to know who may know what. A client's offer can be
behind another's messages in the queue, so the invariant follows it while it is
awaited (`Awaited`): `SlotInv`, `PhaseInv` and `OrderInv` say that a client that
has not been displaced has the slot, and that its proof and then its offer come
once each, in that order; `ConnectInv` and `NonceInv` that nobody knows a
challenge before the daemon was asked for it. `KeyInv` is the core: if, while the
offer of c is awaited, the daemon authenticates another key, then it has not
finished, the slot and so the challenge went to the other join, nobody else holds
the challenge's answer, and a proof with it stands behind the offer. So no key
but that of c is authenticated when the offer is read. TLC checked this
strengthening on `relay`'s instance before it was proved.

`PeerProofs` has the two parts of `Peer` side by side, each left alone by the
other's steps. Session: `HandInv` says that the current session is the last made
and of the handshake under way, `MadeInv` that a session not yet made has touched
nothing; so what `cleanup` ends is the only session that could be left behind.
`QuietInv` adds to `DeadIsQuiet` that a session that spent its one late candidate
is cancelled and past the check. `CandInv` says where the candidates are (held,
with `Answer`, or with pion) and that those held are the first `held` of the
client; `SkipNext` is the lemma about the sequence pion gets.

Bulk: the client puts chunks together by their count, so what it will get is a
fact about all the frames on the wire. `CourseInv` says that there is a course:
a place (answers done, bytes needed, bytes there) before the first frame and
after each, such that each frame takes the client from one to the next
(`Takes`), the first is where the client is, and, while the channel is open, the
last is where the handler is (`Serving`: what is left of its payload is the part
behind that place, and the requests in the inbox are the ones after it).
`Extended` and `Shortened` are the two moves of a course: a frame sent, a frame
read. `PartConcat` and `PartCut` are the arithmetic of a payload's parts.
`AnswersMatch` follows for any number of requests, any length of payload and any
frame size where the peer takes the longest text, `FrameBounds` without that
condition. What a closed channel still carries is the beginning of a course.

`TurnProofs`: with `RowInv`, that a key has a row once a report of it was taken,
`NewestWins` is inductive; `MuInv` relates the lock to the goroutine that
fetches, `CacheInv` the refresh time to the credential's expiry.
The bound on waiting needs an argument about several joins: `WaitInv` says that
the time one has waited is at most `FetchMax` for each join that was served since
and what is left to the request under way, and at most all the others are ever
served, by a count over the set of joins. The proofs are for every set of
reports, every window, TTL and timeout, and any finite set of joins.

`HelperProofs`: `StageInv` says which step of `newControl` goes with which channel
and closer; `CauseInv` and `FailureInv` follow an envelope from the process
through the pipe to the channel, so that the `select` cannot see EOF without
it; `AnswerInv` ties the outcome to what was said, where stderr was not cut; `CloseInv` says that whoever is
past the kill has a dead process; `ClockInv` is the arithmetic of frames. From
these follow `StartReported`, `ReapedLast` and `PlayoutExact`, the last one by a
lemma on signed differences modulo a power of two. `KeepsContract` is the
refinement: the initial states of `Helper` are initial states of `Feed`, and each
step is one of `Feed`'s steps or leaves it unchanged. `HelperAssumption` states
what is used of `2^Width` (it is twice `2^(Width-1)`, a positive number), since
the provers know nothing of powers; TLC evaluates it. It also assumes that
timestamps differ by less, in nanoseconds, than half the range; that is what makes
a difference modulo the width mean anything.

`FeedsProofs` has the browser's feed, beside the simulator's. The units and the
boundaries are counted, not built up by recursion: `CutInv` says that the units
handed on, held and to be pushed are those of the boundaries of the whole stream
up to `Base`, in order and nothing else, and that `buf` is what was read behind
it. A turn of `split` keeps it by `NextCode`: the start code found next in `buf`
is the stream's next boundary, because a start code is seen once all its bytes
are there (`CodeSeen`) and two have no byte in common (`Apart`), and a code of
three bytes found within one of four is out of the question once the full code in
front is skipped; if none is found, none was read. `StreamIntact` follows since
what was read has the boundaries of the stream that are in it (`PrefixUnits`).
`AuInv` says that `cur` is one whole picture so far, or has no slice yet, and
that behind another access unit it opens with what starts one. The slice that
continues a picture needs both invariants (`HeadFits`): `WellFormed` has the
first slice before it in the stream, `CutInv` finds that slice's place among the
units, and `AuInv` that it cannot have been flushed, for then `cur` opens between
the two with a parameter set. From these follow `FeedsTypeOK`, `StreamIntact` and
`OnePicture`, for any stream that is H.264 and any way of reading it.
`BothKeepContract` is the safety half of `BackendsAreFeeds`. What `FlattenSeq`
yields is a recursive function of the community modules; what is needed of it
(`FlattenIs`, `FlattenAppend`) is proved from its definition by least
counterexample.

Only model-checked: liveness (TLAPS does not reason about fairness here) and with
it `Feed`'s fairness under refinement; and the expected violations.

## Plan

Done are the core (`Attach`, `Pairing`, `Presence`, `Relay`), the extension
(`Turn`, `Feed` with its two implementations, `Session`, `Bulk`) and the proofs
of every safety invariant. What is left, in order:

1. An abstract single-slot specification (`StreamSlot`: at most one current
   stream, replaced or ended by the latest request) that `Attach` implements.
2. The order of replies as the client sees it (`attach.go:110`), which needs the
   two channels' outgoing queues in `Attach`.
3. `ServeSignal`'s second registration composed with `Presence`.

## Not modelled

- Process and socket I/O (ffmpeg's arguments, simctl, idb, launchd, websockets,
  pion): what they may do is a nondeterministic choice in the module that uses
  them. The companion package wraps single runs of simctl and keeps no state.
- Message encodings and cryptography: a signature is the fact of who signed what.
- Tap, swipe, touch, key and shake, which change no state of the daemon; the key
  map; the order of gestures inside Chrome, which is Chrome's own.
- Lengths that matter to no property: the reconnect backoff, keepalive periods,
  and `frameTimer`, which smooths the browser's
  frame durations by the wall clock and has no reference to be compared with.
- `/v1/subscription/me`, which only reads, and the filter on relay URLs.
- Flag parsing, the service, update checks, statistics counters and the web
  pages.
