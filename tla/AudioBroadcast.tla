--------------------------- MODULE AudioBroadcast ---------------------------
(***************************************************************************)
(* The life of a live-audio broadcast: the registry _audio_active under    *)
(* _audio_lock, the _AudioBroadcast objects it names, the request threads  *)
(* that start, join and leave them (Listen, recordings and the stream      *)
(* relay, the stress test), the threads that tear every broadcast down     *)
(* (the poll loop after an Asterisk restart, a change of the RX settings), *)
(* and what a broadcast owns outside the process: FIFOs, an encoder, and   *)
(* a MixMonitor or an AudioSocket tap inside Asterisk.                     *)
(*                                                                         *)
(* A step is what runs between two acquisitions of a lock or two calls     *)
(* that block.  The object's own _lock is never held across such a call,   *)
(* so each of its critical sections is one step; _audio_lock is held       *)
(* across a whole start, so its holder is a variable.                      *)
(***************************************************************************)
EXTENDS Integers

CONSTANTS
    Nodes,          \* nodes that can be listened to
    Consumers,      \* requests that consume a broadcast
    Recorders,      \* those with a fallible set-up after add_client
    Stressors,      \* those that add_client after _audio_lock is released
    Reapers,        \* threads that tear down every broadcast
    Poller,         \* the reaper that is the AMI poll loop
    Gens,           \* identities of broadcasts; also the random FIFO tag
    None,
    FirstSeen,      \* Asterisk pid sampled before the first request, 0 if none
    MaxPid,         \* bound: Asterisk instances 1..MaxPid; the last never stops
    MonitorMayFail,     \* MixMonitor or its read-back may raise
    ReadbackMayFail,    \* MixMonitor may start without revealing its id
    StopMayFail,        \* the AMI call that stops a capture may raise
    EncoderMayExit,     \* ffmpeg may exit by itself
    SetupMayRaise       \* recorder set-up may raise outside its handler

ASSUME ConsumersAssumption ==
    /\ Recorders \subseteq Consumers
    /\ Stressors \subseteq Consumers
    /\ Recorders \cap Stressors = {}
    /\ Consumers \cap Reapers = {}
    /\ Poller \in Reapers
    /\ None \notin Gens \cup Consumers \cup Reapers \cup Nodes
ASSUME PidAssumption == MaxPid \in Nat \ {0} /\ FirstSeen \in {0, 1}

VARIABLES
    lock,       \* the thread that holds _audio_lock, or None
    active,     \* _audio_active: the broadcast registered for a node
    bnode,      \* the node of a broadcast, None while not created
    dead,       \* broadcasts with _dead set
    clients,    \* the consumers whose queue is in a broadcast's _clients
    eof,        \* consumers whose queue holds the None sentinel
    reader,     \* state of a broadcast's _read_loop thread
    encoder,    \* broadcasts whose ffmpeg process runs
    fifos,      \* FIFO paths that exist
    mode,       \* _tap_mode, and whether the MixMonitor id was read back
    capturing,  \* broadcasts whose MixMonitor or tap exists in Asterisk
    born,       \* the Asterisk pid a broadcast's capture was attached to
    pc, mine, want, todo,   \* per thread: program counter and locals
    pid, astUp, seen        \* Asterisk's pid, whether it runs, last pid sampled

registry == <<lock, active>>
objects  == <<bnode, dead, clients, eof, reader>>
outside  == <<encoder, fifos, mode, capturing, born>>
locals   == <<pc, mine, want, todo>>
asterisk == <<pid, astUp, seen>>
vars     == <<registry, objects, outside, locals, asterisk>>

Threads == Consumers \cup Reapers

ShutdownPCs == {"mark", "unregister", "sentinel", "clear", "processes", "capture"}
ConsumerPCs == {"idle", "locked", "monitor", "started", "handle", "setup",
                "listening", "gone"} \cup ShutdownPCs
HoldingPCs  == {"monitor", "started", "handle", "setup", "listening"} \cup ShutdownPCs
ReaperPCs   == {"idle", "snapshot", "reap"} \cup ShutdownPCs

TypeOK ==
    /\ lock \in Threads \cup {None}
    /\ active \in [Nodes -> Gens \cup {None}]
    /\ bnode \in [Gens -> Nodes \cup {None}]
    /\ dead \subseteq Gens
    /\ clients \in [Gens -> SUBSET Consumers]
    /\ eof \subseteq Consumers
    /\ reader \in [Gens -> {"none", "reading", "ended"}]
    /\ encoder \subseteq Gens
    /\ fifos \subseteq Nodes \X Gens
    /\ mode \in [Gens -> {"none", "mixmonitor", "mixmonitor+id", "audiosocket"}]
    /\ capturing \subseteq Gens
    /\ born \in [Gens -> 0..MaxPid]
    /\ pc \in [Threads -> ConsumerPCs \cup ReaperPCs]
    /\ \A t \in Threads : pc[t] \in IF t \in Reapers THEN ReaperPCs ELSE ConsumerPCs
    /\ mine \in [Threads -> Gens \cup {None}]
    /\ \A t \in Threads : pc[t] \in HoldingPCs => mine[t] \in Gens
    /\ want \in [Consumers -> Nodes \cup {None}]
    /\ \A c \in Consumers : pc[c] \in {"locked", "monitor", "started"} => want[c] \in Nodes
    /\ todo \in [Reapers -> SUBSET Gens]
    /\ pid \in 1..MaxPid /\ astUp \in BOOLEAN /\ seen \in 0..MaxPid
    /\ astUp \/ pid < MaxPid

Init ==
    /\ lock = None
    /\ active = [n \in Nodes |-> None]
    /\ bnode = [g \in Gens |-> None]
    /\ dead = {} /\ eof = {} /\ encoder = {} /\ fifos = {} /\ capturing = {}
    /\ clients = [g \in Gens |-> {}]
    /\ reader = [g \in Gens |-> "none"]
    /\ mode = [g \in Gens |-> "none"]
    /\ born = [g \in Gens |-> 0]
    /\ pc = [t \in Threads |-> "idle"]
    /\ mine = [t \in Threads |-> None]
    /\ want = [c \in Consumers |-> None]
    /\ todo = [r \in Reapers |-> {}]
    /\ pid = 1 /\ astUp = TRUE /\ seen = FirstSeen

At(t, here) == pc[t] = here
Goto(t, there) == pc' = [pc EXCEPT ![t] = there]

(***************************************************************************)
(* Starting and joining: "with _audio_lock: get or create; add_client".    *)
(***************************************************************************)

Request(c, n) ==
    /\ At(c, "idle") /\ lock = None
    /\ lock' = c
    /\ want' = [want EXCEPT ![c] = n]
    /\ Goto(c, "locked")
    /\ UNCHANGED <<active, objects, outside, mine, todo, asterisk>>

Reusable(n) == active[n] # None /\ active[n] \notin dead

(* add_client gives the consumer a fresh queue; it never looks at _dead.   *)
AddClient(c, g) ==
    /\ clients' = [clients EXCEPT ![g] = @ \cup {c}]
    /\ eof' = eof \ {c}

(* Mutant: the client is added after the lock is released.                 *)
AttachUnlocked(c, g) ==
    /\ mine' = [mine EXCEPT ![c] = g]
    /\ want' = [want EXCEPT ![c] = None]
    /\ lock' = None
    /\ Goto(c, "handle") /\ UNCHANGED <<clients, eof>>

(* The end of the get-or-create block, with the lock released.  The stress *)
(* test keeps the reference and adds its clients afterwards.               *)
Attach(c, g) ==
    /\ mine' = [mine EXCEPT ![c] = g]
    /\ want' = [want EXCEPT ![c] = None]
    /\ lock' = None
    /\ IF c \in Stressors THEN Goto(c, "handle") /\ UNCHANGED <<clients, eof>>
       ELSE AddClient(c, g) /\ Goto(c, IF c \in Recorders THEN "setup" ELSE "listening")

JoinExisting(c) ==
    /\ At(c, "locked") /\ Reusable(want[c])
    /\ Attach(c, active[want[c]])
    /\ UNCHANGED <<active, bnode, dead, reader, outside, todo, asterisk>>

(* No channel, a blocked node, or any error before the object exists.      *)
StartFails(c) ==
    /\ At(c, "locked") /\ ~Reusable(want[c])
    /\ lock' = None
    /\ want' = [want EXCEPT ![c] = None]
    /\ Goto(c, "idle")
    /\ UNCHANGED <<active, objects, outside, mine, todo, asterisk>>

(* Mutant: the path is the node's alone.                                   *)
FifoPathOfNode(n, g) == <<n, CHOOSE h \in Gens : TRUE>>

(* The per-instance path: node and random tag.                             *)
FifoPath(n, g) == <<n, g>>

(* FIFOs, relay, ffmpeg and the _AudioBroadcast with its reader thread.    *)
CreateObject(c, g) ==
    /\ At(c, "locked") /\ ~Reusable(want[c]) /\ bnode[g] = None
    /\ bnode' = [bnode EXCEPT ![g] = want[c]]
    /\ reader' = [reader EXCEPT ![g] = "reading"]
    /\ encoder' = encoder \cup {g}
    /\ fifos' = fifos \cup {FifoPath(want[c], g)}
    /\ mine' = [mine EXCEPT ![c] = g]
    /\ UNCHANGED <<registry, dead, clients, eof, want, todo, asterisk>>

CreateWithTap(c, g) ==
    /\ CreateObject(c, g) /\ astUp
    /\ mode' = [mode EXCEPT ![g] = "audiosocket"]
    /\ capturing' = capturing \cup {g}
    /\ born' = [born EXCEPT ![g] = pid]
    /\ Goto(c, "started")

CreateForMonitor(c, g) ==
    /\ CreateObject(c, g)
    /\ mode' = [mode EXCEPT ![g] = "mixmonitor"]
    /\ Goto(c, "monitor")
    /\ UNCHANGED <<capturing, born>>

StartMixMonitor(c, readback) ==
    /\ At(c, "monitor") /\ astUp
    /\ readback \/ ReadbackMayFail
    /\ capturing' = capturing \cup {mine[c]}
    /\ born' = [born EXCEPT ![mine[c]] = pid]
    /\ mode' = [mode EXCEPT ![mine[c]] = IF readback THEN "mixmonitor+id" ELSE @]
    /\ Goto(c, "started")
    /\ UNCHANGED <<registry, objects, encoder, fifos, mine, want, todo, asterisk>>

(* The AMI call raised, before or after Asterisk attached the monitor: the *)
(* starter calls shutdown() with _audio_lock still held.                   *)
MixMonitorFails(c, attached) ==
    /\ At(c, "monitor")
    /\ MonitorMayFail \/ ~astUp
    /\ attached => astUp
    /\ capturing' = IF attached THEN capturing \cup {mine[c]} ELSE capturing
    /\ born' = [born EXCEPT ![mine[c]] = pid]
    /\ Goto(c, "mark")
    /\ UNCHANGED <<registry, objects, encoder, fifos, mode, mine, want, todo, asterisk>>

Register(c) ==
    /\ At(c, "started")
    /\ active' = [active EXCEPT ![want[c]] = mine[c]]
    /\ Attach(c, mine[c])
    /\ UNCHANGED <<bnode, dead, reader, outside, todo, asterisk>>

StressJoin(c) ==
    /\ At(c, "handle")
    /\ AddClient(c, mine[c])
    /\ Goto(c, "listening")
    /\ UNCHANGED <<registry, bnode, dead, reader, outside, mine, want, todo, asterisk>>

(***************************************************************************)
(* Consuming and leaving.                                                  *)
(***************************************************************************)
SetupDone(c) ==
    /\ At(c, "setup")
    /\ Goto(c, "listening")
    /\ UNCHANGED <<registry, objects, outside, mine, want, todo, asterisk>>

(* An exception between add_client and the try that would remove it (the   *)
(* INSERT, makedirs, the overlay file, Relay()): the request is over, the  *)
(* queue stays in _clients.                                                *)
SetupRaises(c) ==
    /\ SetupMayRaise /\ At(c, "setup")
    /\ Goto(c, "gone")
    /\ UNCHANGED <<registry, objects, outside, mine, want, todo, asterisk>>

(* remove_client: the emptiness test is made under _lock, shutdown() is    *)
(* called after it is released.                                            *)
RemoveClient(c) ==
    /\ clients' = [clients EXCEPT ![mine[c]] = @ \ {c}]
    /\ eof' = eof \ {c}
    /\ IF clients'[mine[c]] = {} THEN Goto(c, "mark") /\ UNCHANGED mine
       ELSE Goto(c, "idle") /\ mine' = [mine EXCEPT ![c] = None]
    /\ UNCHANGED <<registry, bnode, dead, reader, outside, want, todo, asterisk>>

SetupFails(c) == At(c, "setup") /\ RemoveClient(c)

TakeEof(c) == At(c, "listening") /\ c \in eof /\ RemoveClient(c)

(* A Listen generator blocks in get() without a timeout: it learns that    *)
(* its browser left only when a chunk is written.  The others poll.        *)
Disconnect(c) ==
    /\ At(c, "listening")
    /\ c \in Recorders \cup Stressors \/ reader[mine[c]] = "reading"
    /\ RemoveClient(c)

(***************************************************************************)
(* _AudioBroadcast.shutdown, run by thread t on mine[t].                   *)
(***************************************************************************)
Resume(t) == IF t \in Reapers THEN "reap" ELSE "idle"

(* The exception of a failed start leaves the "with _audio_lock" block.    *)
Return(t) ==
    /\ Goto(t, Resume(t))
    /\ mine' = [mine EXCEPT ![t] = None]
    /\ want' = [c \in Consumers |-> IF c = t THEN None ELSE want[c]]
    /\ lock' = IF lock = t THEN None ELSE lock

MarkDead(t) ==
    /\ At(t, "mark") /\ mine[t] \notin dead
    /\ dead' = dead \cup {mine[t]}
    /\ Goto(t, "unregister")
    /\ UNCHANGED <<registry, bnode, clients, eof, reader, outside, mine, want, todo, asterisk>>

AlreadyDead(t) ==
    /\ At(t, "mark") /\ mine[t] \in dead
    /\ Return(t)
    /\ UNCHANGED <<active, objects, outside, todo, asterisk>>

(* Mutant: whoever ends takes the node's entry out.                        *)
UnregisterAny(t) ==
    /\ At(t, "unregister") /\ lock = None
    /\ active' = [active EXCEPT ![bnode[mine[t]]] = None]
    /\ Goto(t, "sentinel")
    /\ UNCHANGED <<lock, objects, outside, mine, want, todo, asterisk>>

(* "with _audio_lock: if active[node] is self: del".  The lock is not      *)
(* reentrant: a thread that already holds it waits for itself.             *)
Unregister(t) ==
    /\ At(t, "unregister") /\ lock = None
    /\ active' = [n \in Nodes |->
                    IF n = bnode[mine[t]] /\ active[n] = mine[t] THEN None ELSE active[n]]
    /\ Goto(t, "sentinel")
    /\ UNCHANGED <<lock, objects, outside, mine, want, todo, asterisk>>

(* Mutant: the clients are not told.                                       *)
FanoutNothing(t) ==
    /\ At(t, "sentinel")
    /\ Goto(t, "clear")
    /\ UNCHANGED <<registry, objects, outside, mine, want, todo, asterisk>>

FanoutSentinel(t) ==
    /\ At(t, "sentinel")
    /\ eof' = eof \cup clients[mine[t]]
    /\ Goto(t, "clear")
    /\ UNCHANGED <<registry, bnode, dead, clients, reader, outside, mine, want, todo, asterisk>>

ClearClients(t) ==
    /\ At(t, "clear")
    /\ clients' = [clients EXCEPT ![mine[t]] = {}]
    /\ Goto(t, "processes")
    /\ UNCHANGED <<registry, bnode, dead, eof, reader, outside, mine, want, todo, asterisk>>

(* Terminate the relay, wait for ffmpeg, unlink the FIFOs.                 *)

StopProcesses(t) ==
    /\ At(t, "processes")
    /\ encoder' = encoder \ {mine[t]}
    /\ fifos' = fifos \ {FifoPath(bnode[mine[t]], mine[t])}
    /\ Goto(t, "capture")
    /\ UNCHANGED <<registry, objects, mode, capturing, born, mine, want, todo, asterisk>>

OnChannel(n) == {g \in capturing : bnode[g] = n /\ mode[g] # "audiosocket"}

(* Mutant: the MixMonitor is never named by its id.                        *)
StopTargetsOnChannel(g) ==
    IF mode[g] = "audiosocket" THEN {{g}} ELSE {{h} : h \in OnChannel(bnode[g])}

(* The captures an answered stop request may end: the tap or the           *)
(* MixMonitor named by its id, or, with no id, one monitor of the channel. *)
StopTargets(g) ==
    IF mode[g] = "mixmonitor" THEN {{h} : h \in OnChannel(bnode[g])}
    ELSE {{g}}

StopCapture(t) ==
    /\ At(t, "capture")
    /\ \/ /\ StopMayFail \/ ~astUp \/ StopTargets(mine[t]) = {}
          /\ UNCHANGED capturing
       \/ \E S \in StopTargets(mine[t]) : astUp /\ capturing' = capturing \ S
    /\ Return(t)
    /\ UNCHANGED <<active, objects, encoder, fifos, mode, born, todo, asterisk>>

(***************************************************************************)
(* The encoder and its reader thread.                                      *)
(***************************************************************************)
EncoderExits(g) ==
    /\ EncoderMayExit /\ g \in encoder
    /\ encoder' = encoder \ {g}
    /\ UNCHANGED <<registry, objects, fifos, mode, capturing, born, locals, asterisk>>

(* The finally of _read_loop: one sentinel to the clients of this moment.  *)
ReaderEnds(g) ==
    /\ reader[g] = "reading" /\ g \notin encoder
    /\ reader' = [reader EXCEPT ![g] = "ended"]
    /\ eof' = eof \cup clients[g]
    /\ UNCHANGED <<registry, bnode, dead, clients, outside, locals, asterisk>>

(***************************************************************************)
(* Threads that tear everything down.                                      *)
(***************************************************************************)
Restarted(last, now) == last # 0 /\ now # last

(* _check_asterisk_restart: no pid while Asterisk is down, and the last    *)
(* pid is kept over that time.                                             *)
SamplePid(r) ==
    /\ r = Poller /\ At(r, "idle") /\ astUp
    /\ seen' = pid
    /\ Goto(r, IF Restarted(seen, pid) THEN "snapshot" ELSE "idle")
    /\ UNCHANGED <<registry, objects, outside, mine, want, todo, pid, astUp>>

SettingsChanged(r) ==
    /\ r # Poller /\ At(r, "idle")
    /\ Goto(r, "snapshot")
    /\ UNCHANGED <<registry, objects, outside, mine, want, todo, asterisk>>

Snapshot(r) ==
    /\ At(r, "snapshot") /\ lock = None
    /\ todo' = [todo EXCEPT ![r] = {active[n] : n \in Nodes} \ {None}]
    /\ Goto(r, "reap")
    /\ UNCHANGED <<registry, objects, outside, mine, want, asterisk>>

ReapNext(r, g) ==
    /\ At(r, "reap") /\ g \in todo[r]
    /\ todo' = [todo EXCEPT ![r] = @ \ {g}]
    /\ mine' = [mine EXCEPT ![r] = g]
    /\ Goto(r, "mark")
    /\ UNCHANGED <<registry, objects, outside, want, asterisk>>

ReapDone(r) ==
    /\ At(r, "reap") /\ todo[r] = {}
    /\ Goto(r, "idle")
    /\ UNCHANGED <<registry, objects, outside, mine, want, todo, asterisk>>

(***************************************************************************)
(* Asterisk, as seen from here.                                            *)
(***************************************************************************)
AsteriskStops ==
    /\ pid < MaxPid
    /\ astUp /\ astUp' = FALSE
    /\ capturing' = {}
    /\ UNCHANGED <<registry, objects, encoder, fifos, mode, born, locals, pid, seen>>

AsteriskStarts ==
    /\ ~astUp
    /\ astUp' = TRUE /\ pid' = pid + 1
    /\ UNCHANGED <<registry, objects, outside, locals, seen>>

Shutdown(t) ==
    \/ MarkDead(t) \/ AlreadyDead(t) \/ Unregister(t) \/ FanoutSentinel(t)
    \/ ClearClients(t) \/ StopProcesses(t) \/ StopCapture(t)

Start(c) ==
    \/ JoinExisting(c) \/ StartFails(c) \/ Register(c) \/ StressJoin(c)
    \/ \E g \in Gens : CreateWithTap(c, g) \/ CreateForMonitor(c, g)
    \/ \E b \in BOOLEAN : StartMixMonitor(c, b) \/ MixMonitorFails(c, b)

Consume(c) == SetupDone(c) \/ SetupRaises(c) \/ SetupFails(c) \/ TakeEof(c)

Reap(r) == Snapshot(r) \/ ReapDone(r) \/ \E g \in Gens : ReapNext(r, g)

Next ==
    \/ \E c \in Consumers :
          \/ \E n \in Nodes : Request(c, n)
          \/ Start(c) \/ Consume(c) \/ Disconnect(c) \/ Shutdown(c)
    \/ \E r \in Reapers :
          SamplePid(r) \/ SettingsChanged(r) \/ Reap(r) \/ Shutdown(r)
    \/ \E g \in Gens : EncoderExits(g) \/ ReaderEnds(g)
    \/ AsteriskStops \/ AsteriskStarts

Spec == Init /\ [][Next]_vars

(* Threads that are not blocked run.  Strong fairness where a step may wait *)
(* for _audio_lock, of the teardowns together: one of those that wait is   *)
(* not overtaken for ever.                                                 *)
Fairness ==
    /\ \A c \in Consumers : WF_vars(Start(c)) /\ WF_vars(Consume(c))
    /\ SF_vars((\E r \in Reapers : Reap(r)) \/ \E t \in Threads : Shutdown(t))
    /\ WF_vars(SamplePid(Poller))
    /\ \A g \in Gens : WF_vars(ReaderEnds(g))

FairSpec == Spec /\ Fairness

(***************************************************************************)
(* Properties.                                                             *)
(***************************************************************************)
Created(g) == bnode[g] # None
Live(g) == Created(g) /\ g \notin dead

(* Every broadcast that is not shut down is reachable: it is the           *)
(* registered one of its node, or its starter still holds _audio_lock.     *)
(* This is what "if _audio_active.get(node) is self" in shutdown protects: *)
(* the late unregistration of an old broadcast must not drop a new one.    *)
NoOrphanBroadcast ==
    \A g \in Gens : Live(g) =>
        \/ active[bnode[g]] = g
        \/ \E c \in Consumers : lock = c /\ mine[c] = g /\ pc[c] \in {"monitor", "started", "mark"}

(* At most one live broadcast per node: two listeners never start two      *)
(* captures of the same node's channel.                                    *)
OneLivePerNode ==
    \A g, h \in Gens : Live(g) /\ Live(h) /\ bnode[g] = bnode[h] => g = h

(* Both: of any set of requests and teardowns, exactly one live broadcast  *)
(* of a node survives, and it is the one later requests are given.         *)
OneReachablePerNode == NoOrphanBroadcast /\ OneLivePerNode

(* A consumer that joined under _audio_lock has the sentinel, or is in the *)
(* fan-out list of a broadcast that is alive or whose teardown has yet to  *)
(* send it: however shutdown() and a join interleave, nobody is dropped    *)
(* from _clients, or added to them too late, without being told.           *)
ListedOrTold ==
    \A c \in Consumers \ Stressors : pc[c] = "listening" =>
        \/ c \in eof
        \/ /\ c \in clients[mine[c]]
           /\ mine[c] \in dead => \E t \in Threads :
                 mine[t] = mine[c] /\ pc[t] \in {"unregister", "sentinel"}

(* The FIFO of a live broadcast exists: no teardown of another broadcast   *)
(* unlinks it (the comment in _start_broadcast on the 34-minute wedge).    *)
LiveHasFifo ==
    \A g \in Gens : Live(g) => FifoPath(bnode[g], g) \in fifos

(* No stop request ends the capture of another, registered broadcast, as   *)
(* long as no broadcast whose MixMonitor id was not read back is torn down *)
(* (shutdown then stops every MixMonitor of the channel).                  *)
RegisteredIsCaptured ==
    (\A g \in dead : mode[g] # "mixmonitor") =>
        \A n \in Nodes : LET g == active[n] IN
            (g # None /\ g \notin dead /\ astUp /\ born[g] = pid) => g \in capturing

(* The docstring of _force_teardown_all_broadcasts: shutdown() acquires    *)
(* _audio_lock itself, so no caller may hold it across the call.           *)
ShutdownWithoutLock == \A t \in Threads : pc[t] = "unregister" => lock # t

(* A broadcast once marked dead gives everything back: its FIFO, encoder   *)
(* and capture, and its place in the registry; and whoever listens to it   *)
(* is told and gets away from it.  Like the property after it, this is     *)
(* promised only while no starter has blocked itself on _audio_lock:       *)
(* ShutdownWithoutLock is refuted by a run of its own.                     *)
Released(g) ==
    /\ g \notin encoder /\ g \notin capturing
    /\ FifoPath(bnode[g], g) \notin fifos
    /\ \A n \in Nodes : active[n] # g
TeardownCompletes ==
    []ShutdownWithoutLock =>
        /\ \A g \in Gens : g \in dead ~> Released(g)
        /\ \A c \in Consumers \ Stressors :
              (pc[c] = "listening" /\ mine[c] \in dead) ~> pc[c] # "listening"

(* _check_asterisk_restart: a broadcast whose Asterisk was replaced is torn *)
(* down, unless Asterisk goes away again.  The poll loop must have sampled *)
(* a pid before the broadcast started (FirstSeen = 1).                     *)
StaleIsTornDown ==
    []ShutdownWithoutLock => \A g \in Gens :
        (Live(g) /\ born[g] # 0 /\ born[g] < pid /\ astUp)
            ~> (g \in dead \/ ~astUp)
=============================================================================
