# Verification of HenWen

TLA+ models of HenWen's server, the TLC runs that check them and the proofs TLAPS checks.
HenWen is a Flask application (`app.py`) with a few helper processes that manages AllStarLink
nodes: it commands Asterisk, shows node status, and carries live audio to browsers,
recordings and streaming services. Line numbers refer to this commit.

Contents: [the system](#1-the-system), [the modules](#2-the-modules-and-the-code),
[the runs](#3-the-runs), [fairness](#4-fairness), [the proofs](#5-the-proofs),
[where the code differs from what it says](#6-where-the-code-differs-from-what-it-says),
[what is not modelled](#7-what-is-not-modelled), [how to run it](#8-running-it).

## 1. The system

`app.py` is one process with a thread per request and about twenty daemon threads. They share
module-level dictionaries under locks, a SQLite database, one AMI connection to Asterisk, and
child processes (ffmpeg, `audio_relay.py`). `audio_ws_relay.py` is a second server process,
for low-latency audio; the two talk over an internal HTTP API.

| component | state | operations | hard behaviour | what makes it correct |
|---|---|---|---|---|
| live broadcasts (app.py 9419-10660, 11160-11560) | `_audio_active`, the `_AudioBroadcast` objects, FIFOs, processes, captures in Asterisk | start or join, leave, shut down, forced teardown | a shutdown interleaves with starts of the same node; Asterisk restarts under a start | one capture per node; a joined client is served or told; what is torn down is released, and only that |
| WebM queues (9680-9800, 9898-9943) | a bounded queue per client, init segment | fan-out, join, leave, end | eviction races the client's own `get` | clients get items in order; only the oldest are lost; the sentinel never is |
| WebM cutter (9806-9895) | the bytes not cut yet | drain a chunk | reads split IDs and sizes anywhere | no byte lost; cuts do not depend on the reads |
| low-latency sessions (app.py 10662-11160, audio_ws_relay.py) | claims on a capture, encoder, clients | attach, detach, ensure, release, reap | a call times out and is served late; a process crashes | no orphan capture; encoder iff clients; an idle node holds nothing |
| frame fan-out (audio_ws_relay.py 420-560) | a bounded queue per browser | fan out, write, remove | stalled sockets | order, newest kept, stalls stay local |
| PCM feed (audio_relay.py 60-190, audio_ws_relay.py 700-860) | TCP connections, owner of a node | connect, send, receive, claim | two senders of one node; partial sends | one feeder; whole frames; feed resumes |
| jitter buffer (audio_relay.py 380-520) | pending bytes | read, trim, emit | overflow, underrun | bounded delay, sample alignment, a fade at each splice |
| recording session (recording.py 110-335, app.py 11600-11870) | two processes, three pipes, three threads, a row | feed, stop, watchdog, finalize | stop from several threads; a process dies | flushed before final; finalized once, and always |
| recording store (app.py 11690-11710, 12308-12366, recording.py 62-105) | rows and files | caps, janitor, rename, delete | janitor against delete; a file that cannot be removed | caps respected, files and rows agree |
| stream relay (stream_relay.py, app.py 16722-17080) | one decoder, an encoder per target | attach, feed, reconnect | one target stalls or dies | one queue in the broadcast; it does not stay dark |
| AMI pool (app.py 2476-2924, 5216) | one connection | command, retry once, invalidate | a late answer; a timeout that is only logged | no answer to another command, or as late as the timeouts let through |
| status poller and kiosk links (2925-3205, 3461-3765, 8728-9000) | status cache, history, idle clocks, their rows | poll, connect, disconnect, exempt, restore | database writes deferred past the lock, and failing; failed commands; restarts | every link is timed out; history opens and closes pair up |
| Smart Connector (17398-17790) | a state per row | fire, wait, connect, watch, disconnect | stale status cache | a wait ends; a quiet link is ended |
| announcements, weather (14109-15290, 17096-17395) | rows, sound files | schedule, defer, force, sync, prune | rows change during a pass | an alert is heard in time, and gone in time |
| identification (18112-18490) | a timed state per node | initial, interval, final | its own sound looks like activity | an ID at least every ten minutes of use |
| AudioSocket taps, breaker, leak monitor (10034-10260, 4010-4075) | channels, a deadline and process id per node, the unowned taps | originate, hang up, prove stranded, trip, expire, alert | a call raises; Asterisk restarts; a listing is read before the owners | a stranded leg stops the next; no alert without a tap |
| accounts (1548-2333, 7353-7715) | users, sessions, tokens | login, reset, invite | late answers bring older cookies back; two requests on one account; a deleted name is given again | a revoked session stays out |
| chat and relays (11939-12308, irc_relay.py) | rows, two bounded queues, one connection | post, relay, reconnect | flapping server | nothing is left of a connection that ended |
| database schema (get_db, 640-1300) | the file, a migration at a time | create, add, rename, copy | two first callers race; a failure or restart in between | a file of any age ends up whole, and every thread is served |
| rpt.conf and its editors (5254-5330, 5401-5760) | the text, a cache, backups | read, edit, back up, rename | requests side by side; a file changed outside; a read that fails | a read is no older than what was there when it began; an edit changes only its setting |
| favorites, health alerts, DNS, geocoding, feeds, stress test, scripts, pages | caches, files | polls and edits | little shared state | see `PROJECT.json` |

The listening paths meet in the live broadcasts: a Listen request, a recording, the stream
relay and a stress-test listener are all clients of one `_AudioBroadcast` per node. Its
capture is Asterisk's MixMonitor or an AudioSocket channel, read by an `audio_relay.py`
process that also sends the PCM to `audio_ws_relay.py`. The low-latency path reference-counts
a capture of its own when no broadcast exists.

## 2. The modules and the code

`PROJECT.json` maps every definition to the lines it stands for. A module holds one
component; its comments name the code. ffmpeg, Asterisk, browsers, the sockets and the pipes are
modelled from how the code uses them and marked external in the map.

### Audio

**AudioBroadcast** - the registry and the objects' lives. A step is what runs between two
acquisitions of a lock or two blocking calls. `_AudioBroadcast._lock` is never held across
one, so its critical sections are atomic; `_audio_lock` is held through a whole start, so
its holder is the variable `lock`. Thread locals are `mine` (the broadcast a thread works
on), `want` and `todo`. `Consumers` are the requests: plain Listen, `Recorders` (with a
set-up after `add_client` that may raise; also the stream relay) and `Stressors` (that look
the broadcast up under the lock and join after it). `Reapers` are the poll loop and a
settings change. `mark, unregister, sentinel, clear, processes, capture` are `shutdown()`'s
steps in order. `born` records the Asterisk instance a capture was attached to. The FIFO's name
carries a random tag per broadcast, which is the second component of `FifoPath`.

**WebmFanout**, **LossyFeed** - the queues of one broadcast. Items carry numbers. `_fanout`
holds the object's lock, a client's `get` does not, so the put, the eviction and the second
put are steps (`evict` is the client being made room for). LossyFeed is the promise: items
in order, none twice, all of them unless the client once had a full queue waiting.
`FeedSpec` is the refinement, with `offered` mapped to the last item in a queue.

**WebmParser** - `_drain_webm`. Bytes are `W` bits wide; `VintLen` and `VintValue` are
the arithmetic of the code. Each round of the loop is a step (`CutSegment`, `CutUnit`), and so is a read
(`ReadChunk`): a unit is the next element or Cluster, `UnitEnd` says where it ends in what was
received, or that this cannot be said yet. `Streams` are all short byte strings, and assembled
well-formed ones with the positions where their Clusters end.

**LowLatency** - one node, both processes. A connection's thread goes from the upgrade to
the end; a call it makes to `app.py` lives on as a handler there (`ensure`, `release`)
whether or not the caller still waits, which is what a timeout means. `faulted` records the
faults of a behaviour, so that a property can say under which of them it is promised.

**FrameFanout** - `fanout()`, the writer threads and `remove_client`: no lock covers a
queue across two calls, so each `put_nowait` and `get_nowait` is a step.

**PcmFeed** - senders, connections, receiving threads and the ownership of the node.
Frames are sequences of numbered units, so a frame put together from two is seen.

**JitterBuffer** - `audio_relay.py`'s paced loop. The input is the bytes 0, 1, 2, ..., so a
position stands for the audio and a splice is a jump of position.

**Recorder** - the response generator, the watchdog, `stop()`, the pump and both ffmpeg
processes, with bounded pipes: a write blocks on a full pipe, and closing a pipe's buffered
writer waits for a write in progress in another thread (CPython's buffered objects hold a
lock through both).

**Taps** - the AudioSocket taps of a node and their breaker. `Taps` are ids of
channels, made by a start of a broadcast or of a capture-only session. `st` is where each
starter is; `old` and `orphans` belong to the leak monitor, which lists Asterisk's channels,
then reads who owns which, and alerts when an unowned one is old. `proved` remembers that a
leg outlived its Hangup and the breaker knows; `asteriskPid` is Asterisk's process,
which `_asterisk_pid()` may fail to find (`Absent`).

### Nodes

**AmiPool** - `ami_send_command` and the poller over the one manager connection. The
code gives its commands no ActionID, so an answer is taken by whoever reads next: the model
numbers the commands to tell whose answer that was. `pending` is what Asterisk
has still to answer on this connection, `unread` the answers nobody has read. A command that
fails or times out drops the connection (`Broken`), but for the one by which the poller ends an
idle link: its failure is caught and logged, and the poller's next command goes out on the same
connection (`GoesOnAnyway`). `skipped` is a ghost: the answers not waited for on it.

**Links** - the poller, the requests and the far end act on the links of one local node. A tick is
a poll; ages are in ticks. `link`, `perm` and `keyed` are Asterisk's; `conn` is
`_kiosk_temp_conns`; `row` and `permRow` are the two tables; `open` and `prev` are the
history and the poller's last sample. The poller's database writes are collected under
`_ami_pool_lock` and done after it, so requests slip between. A command may fail, and so may any
write: each peer's by itself (`Written`), and nobody but a request that makes a link permanent
does more than log it. A restart forgets memory and reads back those rows it can read.
`unwritten` is a ghost: the peers whose last write to the history failed.

**Connector** - `_run_connectors` on one row. The scheduler works on the copy it read and on the
poller's cache, which may say something else than the link (`Corrects` is the poller's
next refresh). Ages are counted in passes of 15 s.

**StationId** - `_run_id_monitors` on one row. A pass copies the runtime state, plays, and
stores the copy: `Copy` and `Store` are two steps and a Test Play may come between. `air`
is what is on the air, `unid` how long the node has been in use without an ID, `heard`
whether anybody keyed it since the last one, `lost` that the guard against hearing the ID itself as
activity was overwritten or forgotten.

**Announcer** - one weather alert from its issue to its expiry: the NWS poller that
tracks it, synthesises a file and writes a row, the scheduler that plays what is due, defers
for a busy node and forces in the end, and the requests that toggle, edit or delete. `over`
counts how long a row outlives its life and its listing, `wait` how long an alert that is
awaited goes unheard: one that is listed while the service answers and the switch is on, and
whose row, if there is one, is neither disabled nor being deleted and on the schedule the poller
gave it. An edit may change a row's text, hence its file, and then its row: window, interval,
node and settling time become any others, or the poller's again (`row.kept`); a row on another
schedule may or may not be due, whatever the time. A row's id is never given
again, so `sched.own` says whether the row in the scheduler's snapshot is the one that is
there. Times are in ticks of the poller's base interval (120 s), rounded up. The constants'
assumptions are the code's: a grace of half an hour, a replay interval of at least a minute
(what `api_ann_update` and the alerts form accept), a longest sleep of twenty minutes.

### Recordings and streaming

**RecordingStore** - ids are rows in the order of their starts, `disk` the files. A thread
keeps its SQLite connection, hence `tx`: rows deleted and not committed, and with them the
write lock. A deletion by a request takes the file, then the row; the janitor plans from
rows it read earlier; both may meet, and a restart may come between. A removal that fails is only
logged and the row goes all the same; `stuck` are the files that were left that way.

**StreamRelay** - the loop that attaches to a broadcast and feeds a session, the
decoder, the pump that writes each chunk to the targets in turn, and an encoder per target.
A pipe holds one chunk, which is the smallest that can be full.

### The web service

**ChatRelay** - a post offers a message to two bounded queues; `_irc_relay_loop` connects,
reads and backs off; each `IRCClient` has its own queue and a sender thread.

**Accounts** - a session is the signed cookie: every answer sends it back, so a late
answer puts an older one into the browser. `work` holds the requests between reading a row and
writing it. A name whose account was deleted may be given again, by an administrator, an
invitation or the set-up; `uid` is `users.id` and tells the accounts of one name apart, in the
handlers that look a row up by id as in the ghosts. `revoked` is one: the sessions that existed
when their account changed its password or left.

**ConfLines** - `rpt.conf` as lines: a header or a setting, each live or commented out.
`Settings` is what the code reads of a section, `Updated` what an edit makes of the text. The
text is read in two ways by two pieces of code, by the last line of a key in the last stanza of a
name and by the first in any stretch of it, and both are kept: no loop over lines is copied, the
sets of lines it finds are stated.

**ConfFile** - `rpt.conf` as a file: a cache keyed by modification time, backups named after
the second, pruning, a temporary file and its rename. The texts are numbers. A read may find no
modification time, and then goes past the cache, or no text (`OpenFails`): a page answers an
error, and a save goes on with the empty text.

**Schema** - the statements of `get_db()` in their order, in chapters about tables of their own;
the chapter of the favorites ends with the table of the accounts, which their migration reads: a
second caller may find that table made, and still empty, by a first one that is ahead.
`stored` is what is committed, `draft` what the transaction under way has made of it, `writer` who
holds SQLite's write lock. A chapter starts from any file an earlier version left, and any
statement may fail or be the last before a restart.

### One part at a time

Components that share no state are checked in one run, and `part` picks the one that moves
in a behaviour; the others stand still in a fixed initial state, so the states add up instead
of multiplying. Parts whose theorems are in section 5 are EXTENDed, so the run and the proof
state the same definition; their names differ for that reason (`LinksInit`,
`StoreTypeOK`, `relayVars`). The others are INSTANCEd with variables of their own, and a
property of theirs is `part = "x" => X!Property`; a component's fairness is
conjoined under its `part`. Such a run shows each part's properties and nothing about two
parts together. Components that do interact are one module: both processes in LowLatency,
the four kinds of client in AudioBroadcast, poller, requests and database in Links, loop and
session in StreamRelay.

## 3. The runs

| run | parts and properties | instance |
|---|---|---|
| `registry` | AudioBroadcast: `OneReachablePerNode`, `ListedOrTold`, `LiveHasFifo`, `RegisteredIsCaptured`; Taps: `BreakerHolds`, `ClearedOnEvidence`; FrameFanout: `NewestInOrder`; WebmParser: `CutsExactly`; Links: `HistoryMatches`, `PermanentSurvivesIdle`; StationId: `InUseIdentified`, `OwnIdIgnored` | one node, two broadcasts, two listeners and a recording, two reapers, every failure; two taps, two processes of Asterisk, two looks; two clients, queues of two, three frames; every 2-bit stream of six bytes and the assembled ones, reads of one to three; one peer, one request thread, two requests and a restart, failing commands and failing database writes; an ID every 4 ticks at most |
| `fanouts` | WebmFanout: `QueuesExact` and the refinement `FeedSpec`; PcmFeed: `OneFeeder`, `FeedResumes`; AudioBroadcast: `TornDown` | two clients, queues of two, four items; two senders, two connections, frames of two units, buffers of three; one broadcast, the three kinds of request, one restart of Asterisk |
| `sessions` | LowLatency: `CapturesAccounted`, `EncoderMatchesClients`, `NobodyLeftHanging`; Links: `TimedEntryEnds` | two connections, two captures, time-outs, a failing encoder, a crash, one restart, one settings change; one link, two requests or one and a restart, failing commands |
| `services` | JitterBuffer: `Playout`; Recorder: `StopIsClean`, `RecordingEnds`; RecordingStore: `NoOrphanFile`, `CapIsRestored`; StreamRelay: `OneClient`, `NeverDark`; ChatRelay: `NothingLeftOpen`, `SendersEnd` | frames of four bytes, a cap of three frames, bursts beyond it, eighty bytes; pipes of two, every fault; two users, three recordings, a cap of one and a half, one restart, one file that cannot be removed; two targets, one save, one crash; queues of one, two connections, two posts |
| `nodes` | AmiPool: `AnswersMatch`, `CallsComeBack`; Connector: `ConnectorMoves`; Schema: `Served` | two callers and the poller, three calls, two commands in a call, timeouts anywhere; every time limit one tick, a request or a failing command; two pollers and the main thread, one cut |
| `web` | ConfFile: `ReadsAreFresh`; ConfLines: `OnlyItChanges`; Announcer: `AlertsOnTime`; Accounts: `RevokedStaysOut`; Schema: `SchemaWhole`, `ChoicesKept` | two requests, one backup kept, two seconds, two writes, a read or a write that fails; texts of three lines over two sections and two keys; an alert of four ticks, three requests and changes, a fault; two names, one of them or both given again, two browsers, lockout at the first failure, four handlers; two first callers and the main thread over every old file, one cut |
| `audio_selflock`, `ll_timeout`, `rec_encoder`, `links_forgotten`, `conn_forced`, `store_lock` | one property each, violated: section 6 | the least instance that shows it |

`FeedSpec` is the refinement of the abstract LossyFeed, `FrameFanout` and `WebmFanout` check
their queues under every interleaving of a put, an eviction and a get.

The bounds and why they are enough:

- Two broadcasts of one node are what every race over the registry needs (an old one being
  torn down, a new one being started); nodes share nothing but the lock, which one node's
  threads contend for just as well. Two reapers and the last client give three concurrent
  teardowns of one object. For `TornDown` one broadcast suffices: its liveness depends on
  the lock and on Asterisk. `MaxPid = 2` lets Asterisk be replaced once; the poll loop
  compares only neighbouring samples.
- A queue of two holds an eviction and a survivor; `MaxItems` and `MaxFrames` let it
  overflow more than once. `BufLen = 3` with `FrameLen = 2` makes partial sends possible
  and a full frame too.
- An identifier of two bytes and a two-bit byte keep every branch of the size arithmetic
  reachable: one- and two-byte sizes, the unknown size, an ID that overlaps itself and
  a payload that looks like one.
- Two connections of one node are the first and last listener at once; two captures are the
  one being torn down and its successor. Two taps are the stranded leg and the next one.
- With an idle limit of no tick (`Limit = 0`) a link is overdue at the first tick nobody touched
  it: a tick that touches it and one that does not are both there, and longer waits only repeat
  them. One link shows all that Links promises, for its loops treat peers one by one; two requests
  are a connect and a disconnect around the poller's deferred writes, and a request followed by a
  restart is a timed entry read back from its row. In `sessions` both are explored, but not two
  requests and a restart in one behaviour, which `registry` has. Database writes do not fail in
  `sessions`: a timed row that was never written is not read back after a restart, and nothing
  ends that link (section 6). StationId's interval
  is half of the required one, and a sound is longer than a tick, so the ID's own sound spans passes.
- Two callers and the poller are a late answer, the one who reads it and the one who
  should have; two commands in a call leave a second answer over.
- Three recordings are one in progress, one being deleted and one the sweep takes; they
  come to more than the cap and than a user's.
- Two first callers are enough for a race between statements, the main thread's earlier call
  included; a second cut would only repeat the first over another initial file, and every
  file one cut can leave is itself an initial file or one that a later call meets.
- Two epochs and two browsers are a session from before a password change next to one from
  after it; a cookie that comes back late needs one answer under way; a deletion, the name given
  again and a stale cookie take two handlers each and an answer.
- One file that cannot be removed is the orphan; the sweep meets it in the middle of its plan.
- Three lines hold two sections and a setting, or one section with a setting twice, live and
  commented out.

All runs have `CHECK_DEADLOCK FALSE`: the bounded inputs run out, requests end, Asterisk may
stop for good. Where a stuck thread would be an error, a liveness property looks for it.

## 4. Fairness

Every thread that can take a step eventually does: weak fairness on each thread's steps is
what the operating system's scheduler gives. A thread waiting for `_audio_lock` or for
`lifecycle_lock` gets strong fairness on the acquisition: Python's locks promise no order,
but a waiter that is overtaken for ever while the lock is free infinitely often does not
happen. The environment is not fair: no client has to leave, no process has to fail, Asterisk
need not restart, a browser may stall for ever. Calls with a time limit end, by
answering or by timing out. A child process that is killed, or whose input is closed, ends.

- AudioBroadcast: each consumer, the reapers and the reader threads. `TornDown` is stated for
  behaviours in which no starter blocks itself on `_audio_lock` (`[]ShutdownWithoutLock`):
  once one does, nothing more can be promised. In `fanouts` MixMonitor does not fail, so the
  premise holds there and hides nothing; neither do a stop, an encoder or a set-up, and the poll
  loop is the only reaper. The teardown after a settings change is met in `registry`, for safety.
- LowLatency, Recorder, PcmFeed: every thread and process, never the clients or the faults.
- Links: the poller (`PollThread`) and time (`Tick`); no request, no far end, no fault.
- Connector: time (`Ages`), the scheduler's passes, and the poller's refresh of the cache
  (`Corrects`), for it polls every few seconds.
- StreamRelay: the loop, the pump, the decoder's end, and each encoder, which gives up on a
  stuck target because ffmpeg is started with `-rw_timeout`; strong fairness for the step in
  which the loop finds that the broadcast has ended.
- ChatRelay: loop, worker and sender threads. AmiPool: each thread's steps, its acquisition
  of `_ami_pool_lock` included, for calls have time limits. Schema: each thread; a writer that
  waits for the lock waits at most ten seconds.
- RecordingStore: the janitor, which runs every few minutes.

## 5. The proofs

The eight `*Proofs` modules hold hierarchical proofs for every value of the constants that
meets the modules' ASSUMEs: identities are distinct from `None` or from one another, capacities
positive, the jitter buffer's numbers whole samples. `IdAssumption` says of an
identification that its interval is at most the ten minutes required, which the code enforces
(app.py:18179), that its pause takes the loop one pass at least, and that its recording
with the grace after it is shorter than those ten minutes: the code does not check that
one, but a longer ID would still be on the air when the next one is due. Each theorem rests on an
invariant that holds initially and through every step, and implies the property; section 3's
runs have the same property on a small instance. The `*Types` and `TypeCorrect`
theorems say that the state keeps its shape.

### Audio

**AudioBroadcastProofs** - `TypeCorrect`, `NoOrphan`, `AtMostOneLive`, `OneReachable`,
`NobodyDropped`, `FifosAreSafe`, `CapturesAreSafe`. None of the invariants is inductive: that a
broadcast is registered says nothing of the request that is just building the next one. The
strengthening says what `_audio_lock` gives: only a starter holds it from one step to the next
(`LockHolder`), and while it does, its node has no reusable broadcast and nobody else has seen
the one it builds (`StarterAlone`); every broadcast in use was created for the node it is
registered under (`OnlyCreated`); one thread at a time is past the `_dead` check of a
broadcast, because that check and its setting are one critical section (`OneTeardown`); and a
client that joined is told or will be, from the moment its queue is added (`Told`).
`CapturesAreSafe` adds that, as long as no broadcast without its MixMonitor's id was torn down,
every live broadcast attached to the Asterisk that runs is captured or being given up by
its own starter (`LiveIsCaptured`), and that a capture is no younger than Asterisk
(`BornInThePast`). Each conjunct has a lemma with one step per action.

**FanoutProofs** - `Runs`, `Sentinel`, `Queues` and `FanoutImplementsFeed`, of the WebM queues.
The invariant adds to the runs that a client's gap is what its drop counter admits to
(`Accounted`), that a listed client is told or its turn is coming (`Told`), and which phases of
the reader, of `shutdown` and of an eviction go together (`Phases`). The refinement maps a put
to `Offer`, an eviction to `Lag`, a client's get to `Take`, the rest to stutters; a lemma
per action uses the invariant to show that the abstract guard holds. `OneSenderFeeds`, of
the PCM feed: whoever reads or writes is the owner and the owner has not closed
(`Ownership`); and what a connection and its buffer hold, until a send is cut short, is a
number of whole frames (`Untorn`), which needs lemmas on what concatenating and cutting
such sequences gives.

`ClustersCutExactly`, of the cutter, for streams of any length, bytes of any width and reads of any
size. What is fanned out and what is still buffered, put together, are the bytes received
(`NothingLost`), in order (`Ordered`). That how the stream arrived makes no difference
(`ChunkingIrrelevant`) is the hard part: it holds because `UnitEnd` depends only on the bytes up to
the end it gives (`UnitEndPrefix`), so a unit that was cut would have been cut from any longer
buffer too. Of a well-formed stream the next unit is the next Cluster (`NextUnit`), so the last
cut is the end of a Cluster, with all that end before it cut (`ClustersCut`), which has to be known
while the drain is still going on and is what makes the invariant (`CutterInv`) inductive.

**LowLatencyProofs** - `NoOrphans`, `TornUnreachable` and `Accounted`, whatever times out,
fails or crashes. The claim on a start (`starting`) has one holder while nothing is
registered, what is registered is up, and each capture being torn down has one handler at it.
`EncoderIsShared`: whoever is inside a call holds `lifecycle_lock` (`HolderCalls`), the first
client is alone while it asks for the capture (`FirstAlone`), and without clients nothing
encodes (`IdleIsSilent`).

**WatchersProofs**, on FrameFanout - `NewestArrivesInOrder`. What is queued for a browser
lies between what its writer took and what was offered to it, in order (`Ordered`), its end is the newest
(`HasNewest`), a sentinel is queued only once the browser is no longer listed
(`Unsealed`), and the reader alone puts frames, so the room it made by evicting is
there when it puts again (`Offering`).

**ServicesProofs**, on JitterBuffer - `Latency`, `Aligned`, `Faded`, `PlaysOut`. All positions are
multiples of the sample size, and after a frame of audio the buffer starts where that frame
ended; the modular arithmetic is in lemmas of its own.

### Nodes

**WatchersProofs**, on Taps - `BreakerAlwaysHolds`, that no start is let through while the
breaker knows of a stranded leg, unless its cooldown is over or Asterisk was replaced; and
`AlertClearsOnEvidence`. A tap dies with its Asterisk (`DiesWithAsterisk`), the breaker remembers
the process that holds the leg or none (`BreakerKnows`), a tap being connected is young
(`OldAreMade`), and who had no owner when the channels were listed has none later
(`OrphansStay`).

**WatchersProofs**, on Links - `HistoryIsWhole` and `PermanentLinksStay`. The history is
behind the poller's sample while a cycle writes: at each point the open rows, what is still to be
opened and what is still to be closed add up to the sample, for every peer whose own last write did not fail
(`Settled`); a request saves only an entry it made (`SavesEntry`).

**WatchersProofs**, on StationId - `InUseIsIdentified` and `OwnIdBeginsNothing`. The time in
use never runs ahead of the clock since the last ID by more than a pass (`Dated`), the guard
covers the rest of the sound that started it and no more (`Fits`), and while an ID is on the
air and its guard was not lost, either nobody keyed or somebody really did (`OnGuard`).
`Counted` and `Working` say how long the node can have been in use in each state, between two
passes and on the copy a pass works on: a pause is counted in passes, and each failed play costs
one more.

**WatchersProofs**, on AmiPool - `RepliesMatch`: an answer that is read is the one to the command
just sent, or late by no more commands than the poller's swallowed timeouts on this connection;
with none, nobody takes another command's answer. It rests on the lock: who is inside holds it
(`HolderInside`), and what is under way are the last commands sent, one more than were skipped
while somebody listens (`FewUnderWay`) and no more than were skipped otherwise
(`FewerOtherwise`). They are answered in their order (`InOrder`), so that whoever reads takes the
oldest; any other failure leaves through the step that drops the connection.

### Recordings, streaming and chat

**ServicesProofs** - `RecordingStopsCleanly`: `stop()` is run once, and its progress orders
what is closed and who has ended (`StopOrder`); while nothing died and no wait ran out, each
stage ends only when the one before it is over and its pipe empty (`FlushOrder`).
`FilesHaveRows`, for all files but those whose removal failed: a row goes only after its file was
tried, in a request's deletion (`DeletionOrder`) and in a sweep, whose plan and whose transaction hold finished recordings only
(`SweepOrder`). `RelayHasOneClient` is almost inductive: the pump is idle outside a
session. `NoConnectionLeft`: only the connection at hand is ever open, from its registration
until the loop closes it, and only it can be offered a message (`ConnectionAtHand`).

### The web service

**WebProofs**, on ConfFile - `ReadsStayFresh`: a read that returns a text returns one the file had at
some moment since it began, and one that fails leaves none in the cache. The cache is keyed by modification time, so the invariant speaks of times: what
is stored or about to be under the file's present time is its present text
(`PresentIsPresent`); under the time a request found, the cache has or gets only texts the
request has seen (`TimedIsSeen`); the time of a file written and not yet in place is
nobody else's (`TimesOwn`), and none is ahead of the clock (`TimesPast`). The model assumes
that two writes have two modification times.

**WebProofs**, on ConfLines - `EditsChangeOnlyTheirs`, for texts of any length, and `LinesTypes`.
An edit is seen through the lines it keeps: the old text is found in the new one by an
order-preserving map (`Moved`) that takes headers to the same headers, and for the section `m` and
the key `q` of some reader it loses, changes and adds no line that this reader looks at (`Spares`).
Whatever spares a reader leaves it what it read (`SparedReads`): the map takes the chosen
header to the chosen header, the lines of its stanza to lines of its stanza, and the last of them to the last. Each
edit then has one lemma: a line replaced, a line put in, a stanza appended
(`ReplacedSpares`, `InsertedSpares`, `AppendedSpares`). The argument stands on a commented-out header
being a boundary to both pieces of code (`OneSection`), and is lost without it.

**SchemaProofs**, on Schema - `ChoicesAlwaysKept`, for any number of threads, first calls and
failures, with two facts about the scripts themselves (`UsersScript`, `FavoritesScript`; that the
other chapters hold none of the statements concerned follows from what concatenation keeps,
`JoinedOps`). A role given cannot be migrated again, for whoever is past the migration has its mark
in the database, and whoever is about to run it since a role was given has been told of the mark
(`Migrated`); the old favorites of a file that has accounts are dropped only in the transaction that
copied them (`Copied`); and both what is committed and what is drafted keep what was chosen
(`Kept`), so a rollback does too. Of a file from before there were accounts nothing is claimed
about favorites, for they can be lost (section 6).

**SchemaWholeProofs**, on Schema - `SchemaAlwaysWhole`: what the migrations leave once a caller
reached the end and none is under way. A column with a test of its own: a statement adds under a
test that its caller has made (`Tested`), the database only grows, and of what a thread was told
it still sees every column (`Growing`), so whoever passes such a line leaves its column behind,
and a transaction comes to its commit (`Closing`). Columns added under the test of another one
come together, and one thread at most is between them (`Together`): it is the one that added the
first, for a second would have raised. Rows to be filled: the main thread alone calls while the service
starts (`Alone`), and `MainOfAlerts` and `MainOfFavorites` say how far its first call has come. The favorites
are the hard case, since their table is set aside, made anew and copied: one thread at most holds
what was set aside (`OneMoves`), the new table has its owner (`WithUsers`), and whoever is past
the line that adds the order leaves it in the table, or somebody under way still comes to add it
(`WithOrder`, `Comes`). The invariant is the conjunction of the chapters' (`WholeInv`).

**WebProofs**, on Accounts - `RevokedAlwaysOut`: a session that a password change, a reset or a
deletion has put out is not let in again, in whichever order answers and the cookies they
carry come back, unless its name has been given to another account since, whose session the code then
takes it for (section 6); and `SessionsInStep`. The numbers of the accounts of a name only
grow, and while a number stays its account does not come back and never loses an epoch
(`Grows`), a held cookie is of an account and an epoch that existed (`HeldKnown`), a request at
work knows no later one (`WorkKnown`), and what is revoked is behind its account, or that account
is gone (`RevokedPast`). One lemma turns
each action into how it changes these; the action lemmas cite it.

**WebProofs**, on Announcer - `AlertsAlwaysOnTime`. A wait is bounded by what is still to
happen, so the invariant follows one alert through its stages, each with a clock. A poller that
got an answer sleeps one interval and a failing one up to `MaxSleep`, which the service's
recovery does not cut short (`Polled`); a successful pass leaves a row that outlives the next one
by the grace (`RowKept`); a row that was never played has waited no longer than its age and the
sleep before it, and a played one no longer than its age (`Played`); the row in the scheduler's
snapshot, if it is still there, is the one that is due (`PassKnows`); and an overdue row
or one whose alert is gone has at most the rest of the present sleep to live (`TakenDown`).
The bound is reached: TLC finds runs whose wait is exactly `Longest`. It is a bound for alerts on
the poller's own schedule only: an edited row is not waited for, and one whose schedule is edited
back is waited for anew.

### Only model-checked

Everything temporal under fairness (`TornDown`, `FeedResumes`, `NobodyLeftHanging`,
`TimedEntryEnds`, `RecordingEnds`, `CapIsRestored`, `NeverDark`, `SendersEnd`,
`CallsComeBack`, `ConnectorMoves`, `Served`), which is out of the prover's reach. All
other properties of the passing runs are stated by a theorem, for every value of the
constants.

## 6. Where the code differs from what it says

With a run that shows it:

- **Self-deadlock** (`audio_selflock`). The docstring of `_force_teardown_all_broadcasts`
  says `shutdown()` must not be called with `_audio_lock` held, for it takes the lock
  itself. `_start_broadcast` runs under the lock and calls `shutdown()` when the
  MixMonitor command fails (app.py:10632). The lock is not reentrant, so the thread waits
  for itself and all audio requests after it wait too.
- **A leaked claim** (`ll_timeout`). audio_ws_relay.py gives each `ensure-capture` five
  seconds. If app.py serves the call later it counts a listener the caller does not know
  of, and the capture stays up with nobody listening until the node's capture ends some other way.
- **A recording that does not end** (`rec_encoder`). When the encoder dies, the pump returns
  at its first failed write and nobody drains the decoder: its output fills, then its
  input, and the route blocks in `feed()`. The watchdog's `stop()` first closes the
  decoder's input, and `close()` waits for the write in progress (recording.py:302). The
  response never ends and the row stays `recording`, against the docstring of
  `api_recording_start`.
- **A forgotten link** (`links_forgotten`). The poller drops an overdue link from
  `_kiosk_temp_conns` before it tells Asterisk to disconnect it (app.py:3098). If that command
  fails, or the link is permanent in Asterisk, it stays up and nothing times it any more: what the
  comment at 3734 calls the thing the table exists to prevent.
- **No wait for an idle node** (`conn_forced`). A row that enters `waiting` is judged in the
  same pass by the `state_updated` of the copy read before (app.py:17628), which is as old as
  the last change of state: past two minutes, so the connect is forced at once.
- **A write lock that stays** (`store_lock`). When a row the janitor planned is gone, it raises
  between a DELETE and the commit (app.py:12353); its connection lives on with the
  transaction, and every other writer times out until a later sweep commits.

Seen while modelling, in the models as the code has it, without a comment in the code that claims
the contrary (or, where it says so, without a run):

- *Audio.* The reader's end of file fans a sentinel out without marking the broadcast dead
  (app.py:9920): a client that joins before the last one leaves gets a broadcast with no
  reader. A recording or relay that raises between `add_client` and its own clean-up
  stays listed (11725, 16992). A restart of Asterisk before the poll loop's first
  sample is not noticed (9509), so `FirstSeen = 1` is a premise of `TornDown`. A MixMonitor
  whose id could not be read back is stopped by channel, which ends every MixMonitor there;
  hence the premise of `RegisteredIsCaptured`. The init segment is the first thing a slow
  joiner loses (9753).
- *Low latency.* If the encoder fails to start, the claim on the capture stays until a later
  client detaches (audio_ws_relay.py:914); if app.py restarts, clients already attached are
  not told (907); a settings change takes effect at the encoder's next start (903). With which
  settings a capture was started is not in the models, so what a listener hears between such a
  change and the teardown it causes is left open. A frame fanned
  out between the two steps of waking a departing writer takes the sentinel's place (501). A
  non-blocking `send()` that takes part of a frame shifts that connection's frames for good
  (audio_relay.py:129), hence `torn` in `FramesWhole`.
- *Taps.* The breaker reads Asterisk's process id when it trips, not when the leg was seen
  (app.py:10043); a lost answer to Originate leaves a tap nobody owns; the leak monitor lists
  channels before it reads the owners and judges by the channel's age, not by how long it has been
  unowned (4021), so a teardown in progress may raise an alert.
- *Recordings.* The first line of a recording's response is yielded outside the `try`
  (11801): a browser that is gone by then leaves the recorder to the watchdog. Caps
  count finished recordings only; rows of recordings that a crash cut short are never swept. A
  file that could not be removed (11927-11933, 12354-12359) loses its row all the same, and
  nothing looks for it again nor counts it; hence `stuck` in `NoOrphanFile`.
- *AMI pool.* The docstring of `ami_send_command` (2494-2502) has every timeout drop the
  connection; the poller's disconnect of an idle link catches its own (3089-3098) and goes on, so
  the answer that comes late is taken for that of the poller's next command, and so on until the
  connection breaks; hence `skipped` in `AnswersMatch`.
- *Links, Connector.* A deferred prune or save may delete or overwrite the row that a
  concurrent `api_status_connect` has just saved. A database failure is only logged (3602-3646)
  and the poller's sample moves on, so a connection is left out of the history, or its row is left
  open until the peer connects and leaves again or the service restarts. A timed row that
  could not be written is not there after a restart, and the link is no longer timed. A one-time connector is disabled when it
  connects, so it is never disconnected for idleness; a stale cache sends a connected
  row back; `state_updated` is written in two time zones.
- *StationId.* The mark of a Test Play is overwritten by a pass's `Store`; a restart during
  the ID's own sound loses the guard; an initial ID that fails is not tried again.
- *Announcer.* An edit may be overwritten by the poller's re-sync; a deletion takes the file
  before the row; switching weather alerts off leaves the rows that are there. An edit may give an
  alert another window, interval or node (14614-14684) and nothing sets them back: the
  re-sync changes expiry and text only, so the alert may stay silent as long as it is listed.
- *StreamRelay.* The pump writes to the targets in turn, so one stuck target
  holds the others for as long as its time limit, against "entirely independent"
  (stream_relay.py:24-28). A constructor that raises leaves its queue in the broadcast.
- *ChatRelay.* The backoff is reset at the join (12076): a server that drops each connection soon
  after it is tried again a minute later, however often, for a connection below the flap threshold
  raises the backoff from nothing (12138-12144), where the docstring of `_irc_relay_loop` has it
  grow as that of a failed connection does; two posts may reach a queue in the other order.
- *Accounts.* The check for the last owner is not atomic with the deletion (7435-7439); two
  failed logins at once count as one. A name whose account was deleted can be given again
  (7398-7405, 2311, 2022) and starts at epoch 1, while `check_auth` compares name and epoch alone
  (1661-1666): a cookie of the deleted account that was still at epoch 1 is then a session of the
  new one. Hence `Another` in `RevokedStaysOut`. The set-up's INSERT OR REPLACE replaces an account
  that came to have its name since the check that there was none.
- *rpt.conf.* An edit changes the first line of a repeated key and a read takes the last.
  A commented line of a stanza's own hides the template's value. Two saves read, modify and
  write without a lock; two backups in a second share a name; a restart leaves a `.rpt_tmp_` file.
  `read_conf_file` answers any failure to open or decode with None (5272-5280), and a save takes
  that for the empty text (6746): what it writes over the file is the edit of nothing. The
  earlier text is in the backup made just before; when it cannot be copied, the save fails.
- *Schema.* Two first callers may race to add a column and the later one raises "duplicate column name", against
  the comment at 646-650. One that finds the favorites without an owner while a first one is ahead,
  past them and at the accounts, sets them aside, finds `users` there without a row, copies
  nothing and drops them (682-687): the same comment calls such a race harmless; hence the exception
  in `ChoicesKept`. A restart between a column and the data that goes with it
  (928-938, 950-954, 1218-1226) leaves the second half undone for good; hence what
  `SchemaWhole` and `ChoicesKept` promise of cut starts.

## 7. What is not modelled

- *Favorites statistics, node lookup and geocoding, APRS, ISS, Meshtastic, EchoLink and weather
  feeds*: pollers that each fill a cache from a remote service; parsing and network I/O, with no
  state that two protocols share.
- *The other health alerts and the process leak counters*: a flag each, kept by one thread.
- *The stress test*: its listeners are a kind of client in AudioBroadcast; the measurements are not
  modelled. *Installation scripts and pages*: outside the server's state.
- Errors raised past their handlers: a frame of the PCM feed written to an encoder's input
  that was just closed raises a ValueError (audio_ws_relay.py:802), which ends the receiving thread.
- Clusters are 200 ms of audio apart, so WebmFanout has none between the two adjacent statements of
  `shutdown()` that queue the sentinel and clear the list. The code does not forbid one there; it
  could evict the sentinel of a full queue, and that `QueuesExact` says the end is not lost rests on
  this premise.
- In the components modelled: how an AudioSocket tap is negotiated (one step with its outcomes),
  drift correction and the arithmetic of the fade, silence gating and spoken timestamps in
  recordings, renaming a recording, what announcements say, ranks and node locks of accounts, paging of the chat table, HTTP and
  WebSocket framing, and authentication of the internal API.

Next in line: the composition of WebmParser with WebmFanout (what a client can decode
after an eviction), and the favorites poller's rotation with its
backoff.

## 8. Running it

    tlc -config registry.cfg MCRegistry
    tlapm WebProofs.tla

Each run is the configuration of its name; `PROJECT.json` names the module. On two cores the
longest run takes under three minutes, the longest proof (WebProofs) about six.
