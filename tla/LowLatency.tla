----------------------------- MODULE LowLatency -----------------------------
(***************************************************************************)
(* The low-latency listen path of one node: the browser connections of     *)
(* audio_ws_relay.py, the Opus encoder they share, and app.py's reference- *)
(* counted capture, which the relay process asks for and gives back over   *)
(* an internal HTTP API with a five-second timeout.  Nodes do not interact.*)
(*                                                                         *)
(* A connection's thread goes "off" -> "waiting" (authorized, wants        *)
(* lifecycle_lock) -> "ensuring" -> "reading" -> "closing" -> "releasing"  *)
(* -> "gone".  A call it makes lives on in app.py as a request handler of  *)
(* its own, whether or not the caller still waits.                         *)
(***************************************************************************)
EXTENDS Integers, FiniteSets

CONSTANTS
    Conns,          \* browser connections
    Captures,       \* identities of _CaptureOnlyRelay objects
    Faults,         \* subset of {"timeout", "encoder", "crash"}
    MaxRestarts,    \* bound on restarts of Asterisk
    MaxSettings,    \* bound on saved settings changes
    None

ASSUME NoneAssumption == None \notin Conns /\ None \notin Captures
ASSUME SettingsAssumption == MaxSettings \in Nat /\ None \notin Nat

VARIABLES
    pc, lock, clients, captureActive, encoder, shut,            \* the relay
    ensure, seen, release, tearing,                             \* handlers
    active, starting, count, cap,                               \* captures
    asterisk, polled, victim,                                   \* poll loop
    settings, hup,                                              \* settings
    faulted                                     \* the faults there have been

relay == <<pc, lock, clients, captureActive, encoder, shut>>
handlers == <<ensure, seen, release, tearing>>
captures == <<active, starting, count, cap>>
poll == <<asterisk, polled, victim>>
config == <<settings, hup, faulted>>
vars == <<relay, handlers, captures, poll, config>>

(* cap: "up" is running, "dead" is marked _dead and not torn down yet;     *)
(* encoder: the settings the running ffmpeg was started with;              *)
(* shut: connections whose socket SIGHUP's handler shut down;              *)
(* seen: the settings an ensure-capture handler read, and replies with.    *)
TypeOK ==
    /\ pc \in [Conns -> {"off", "waiting", "ensuring", "reading", "closing",
                         "releasing", "gone"}]
    /\ lock \in Conns \cup {None}
    /\ clients \subseteq Conns /\ shut \subseteq Conns
    /\ captureActive \in BOOLEAN
    /\ encoder \in 0..MaxSettings \cup {None}
    /\ ensure \in [Conns -> {"none", "arrived", "wanted", "starting", "ok", "failed"}]
    /\ seen \in [Conns -> 0..MaxSettings]
    /\ release \in [Conns -> {"none", "arrived", "tearing", "done"}]
    /\ tearing \in [Conns -> Captures \cup {None}]
    /\ active \in Captures \cup {None} /\ starting \in Conns \cup {None}
    /\ count \in [Captures -> 0..Cardinality(Conns)]
    /\ cap \in [Captures -> {"free", "up", "dead", "down"}]
    /\ asterisk \in 0..MaxRestarts /\ polled \in 0..MaxRestarts
    /\ victim \in Captures \cup {None}
    /\ settings \in 0..MaxSettings /\ hup \in BOOLEAN
    /\ faulted \subseteq Faults

Init ==
    /\ pc = [c \in Conns |-> "off"] /\ lock = None /\ clients = {} /\ shut = {}
    /\ captureActive = FALSE /\ encoder = None
    /\ ensure = [c \in Conns |-> "none"] /\ seen = [c \in Conns |-> 0]
    /\ release = [c \in Conns |-> "none"] /\ tearing = [c \in Conns |-> None]
    /\ active = None /\ starting = None
    /\ count = [k \in Captures |-> 0] /\ cap = [k \in Captures |-> "free"]
    /\ asterisk = 0 /\ polled = 0 /\ victim = None
    /\ settings = 0 /\ hup = FALSE /\ faulted = {}

Fault(f) == f \in Faults /\ faulted' = faulted \cup {f}

(***************************************************************************)
(* audio_ws_relay.py: _handle_ws_connection.                               *)
(***************************************************************************)

(* Handshake read, cookie authorized, upgrade sent.                        *)
Connect(c) ==
    /\ pc[c] = "off"
    /\ pc' = [pc EXCEPT ![c] = "waiting"]
    /\ UNCHANGED <<lock, clients, captureActive, encoder, shut, handlers, captures, poll, config>>

(* add_client under lifecycle_lock; the first client asks for the capture. *)
Attach(c) ==
    /\ pc[c] = "waiting" /\ lock = None
    /\ clients' = clients \cup {c}
    /\ IF clients = {}
       THEN /\ lock' = c
            /\ pc' = [pc EXCEPT ![c] = "ensuring"]
            /\ ensure' = [ensure EXCEPT ![c] = "arrived"]
       ELSE /\ pc' = [pc EXCEPT ![c] = "reading"]
            /\ UNCHANGED <<lock, ensure>>
    /\ UNCHANGED <<captureActive, encoder, shut, seen, release, tearing, captures, poll, config>>

Ensured(c) == pc[c] = "ensuring" /\ ensure[c] = "ok"

StartEncoder(c) ==
    /\ Ensured(c)
    /\ captureActive' = TRUE
    /\ encoder' = seen[c]
    /\ pc' = [pc EXCEPT ![c] = "reading"]
    /\ lock' = None
    /\ UNCHANGED <<clients, shut, handlers, captures, poll, config>>

(* _start_node_ffmpeg raises: the exception leaves the `with` block, and   *)
(* the finally block will want the lock again.                             *)
EncoderFails(c) ==
    /\ Fault("encoder")
    /\ Ensured(c)
    /\ captureActive' = TRUE
    /\ pc' = [pc EXCEPT ![c] = "closing"]
    /\ lock' = None
    /\ UNCHANGED <<clients, encoder, shut, handlers, captures, poll, settings, hup>>

(* Mutant: the early return does not release the lock.                     *)
EnsureFailsLocked(c) ==
    /\ pc[c] = "ensuring"
    /\ \/ ensure[c] = "failed" /\ UNCHANGED faulted
       \/ ensure[c] \notin {"ok", "failed"} /\ Fault("timeout")
    /\ clients' = clients \ {c}
    /\ pc' = [pc EXCEPT ![c] = "gone"]
    /\ UNCHANGED <<lock, captureActive, encoder, shut, handlers, captures, poll, settings, hup>>

(* Refused, or not answered within _internal_post's timeout.               *)
EnsureFails(c) ==
    /\ pc[c] = "ensuring"
    /\ \/ ensure[c] = "failed" /\ UNCHANGED faulted
       \/ ensure[c] \notin {"ok", "failed"} /\ Fault("timeout")
    /\ clients' = clients \ {c}
    /\ pc' = [pc EXCEPT ![c] = "gone"]
    /\ lock' = None
    /\ UNCHANGED <<captureActive, encoder, shut, handlers, captures, poll, settings, hup>>

(* The read loop ends: the browser leaves, or its socket was shut down.    *)
StopReading(c) ==
    /\ pc[c] = "reading"
    /\ pc' = [pc EXCEPT ![c] = "closing"]
    /\ UNCHANGED <<lock, clients, captureActive, encoder, shut, handlers, captures, poll, config>>

(* Mutant: the finally block does not take lifecycle_lock.                 *)
DetachUnlocked(c) ==
    /\ pc[c] = "closing"
    /\ clients' = clients \ {c}
    /\ IF clients = {c}
       THEN /\ encoder' = None
            /\ captureActive' = FALSE
            /\ pc' = [pc EXCEPT ![c] = IF captureActive THEN "releasing" ELSE "gone"]
            /\ release' = [release EXCEPT ![c] = IF captureActive THEN "arrived" ELSE @]
       ELSE /\ pc' = [pc EXCEPT ![c] = "gone"]
            /\ UNCHANGED <<encoder, captureActive, release>>
    /\ UNCHANGED <<lock, shut, ensure, seen, tearing, captures, poll, config>>

(* The finally block: the last client stops the encoder and gives the      *)
(* capture back.                                                           *)
Detach(c) ==
    /\ pc[c] = "closing" /\ lock = None
    /\ clients' = clients \ {c}
    /\ LET last == clients = {c}
           giveBack == last /\ captureActive
       IN /\ encoder' = IF last THEN None ELSE encoder
          /\ captureActive' = (captureActive /\ ~last)
          /\ lock' = IF giveBack THEN c ELSE None
          /\ pc' = [pc EXCEPT ![c] = IF giveBack THEN "releasing" ELSE "gone"]
          /\ release' = [release EXCEPT ![c] = IF giveBack THEN "arrived" ELSE @]
    /\ UNCHANGED <<shut, ensure, seen, tearing, captures, poll, config>>

Released(c) ==
    /\ pc[c] = "releasing"
    /\ \/ release[c] = "done" /\ UNCHANGED faulted
       \/ release[c] # "done" /\ Fault("timeout")
    /\ pc' = [pc EXCEPT ![c] = "gone"]
    /\ lock' = None
    /\ UNCHANGED <<clients, captureActive, encoder, shut, handlers, captures, poll, settings, hup>>

(* The relay process dies and its supervisor starts a new one.             *)
Crash ==
    /\ Fault("crash") /\ \E c \in Conns : pc[c] \notin {"off", "gone"}
    /\ pc' = [c \in Conns |-> IF pc[c] = "off" THEN "off" ELSE "gone"]
    /\ lock' = None /\ clients' = {} /\ captureActive' = FALSE /\ encoder' = None
    /\ UNCHANGED <<shut, handlers, captures, poll, settings, hup>>

(***************************************************************************)
(* app.py: the ensure-capture and release-capture handlers.                *)
(***************************************************************************)

(* The handler reads the settings; another path, a blocked node: refused.  *)
ReadSettings(c) ==
    /\ ensure[c] = "arrived"
    /\ seen' = [seen EXCEPT ![c] = settings]
    /\ \E r \in {"wanted", "failed"} : ensure' = [ensure EXCEPT ![c] = r]
    /\ UNCHANGED <<relay, release, tearing, captures, poll, config>>

JoinCapture(c) ==
    /\ ensure[c] = "wanted" /\ active # None
    /\ count' = [count EXCEPT ![active] = @ + 1]
    /\ ensure' = [ensure EXCEPT ![c] = "ok"]
    /\ UNCHANGED <<relay, seen, release, tearing, active, starting, cap, poll, config>>

(* Mutant: a start under way is not waited for.                            *)
ClaimStartAnyway(c) ==
    /\ ensure[c] = "wanted" /\ active = None
    /\ starting' = c
    /\ ensure' = [ensure EXCEPT ![c] = "starting"]
    /\ UNCHANGED <<relay, seen, release, tearing, active, count, cap, poll, config>>

(* One starter at a time: others wait for its Event and look again.        *)
ClaimStart(c) ==
    /\ ensure[c] = "wanted" /\ active = None /\ starting = None
    /\ starting' = c
    /\ ensure' = [ensure EXCEPT ![c] = "starting"]
    /\ UNCHANGED <<relay, seen, release, tearing, active, count, cap, poll, config>>

(* _start_capture_only: the tap or MixMonitor is up and the new capture    *)
(* registered (nothing can see it in between), or it raised.               *)
StartCapture(c) == \E k \in Captures :
    /\ ensure[c] = "starting" /\ cap[k] = "free"
    /\ cap' = [cap EXCEPT ![k] = "up"]
    /\ count' = [count EXCEPT ![k] = 1]
    /\ active' = k
    /\ starting' = None
    /\ ensure' = [ensure EXCEPT ![c] = "ok"]
    /\ UNCHANGED <<relay, seen, release, tearing, poll, config>>

StartFails(c) ==
    /\ ensure[c] = "starting"
    /\ starting' = None
    /\ ensure' = [ensure EXCEPT ![c] = "failed"]
    /\ UNCHANGED <<relay, seen, release, tearing, active, count, cap, poll, config>>

ReleaseNothing(c) ==
    /\ release[c] = "arrived" /\ active = None
    /\ release' = [release EXCEPT ![c] = "done"]
    /\ UNCHANGED <<relay, ensure, seen, tearing, captures, poll, config>>

(* The count, the mark and the removal are one hold of _capture_only_lock. *)
Release(c) ==
    /\ release[c] = "arrived" /\ active # None
    /\ count' = [count EXCEPT ![active] = @ - 1]
    /\ IF count[active] > 1
       THEN /\ release' = [release EXCEPT ![c] = "done"]
            /\ UNCHANGED <<tearing, active, cap>>
       ELSE /\ release' = [release EXCEPT ![c] = "tearing"]
            /\ tearing' = [tearing EXCEPT ![c] = active]
            /\ cap' = [cap EXCEPT ![active] = "dead"]
            /\ active' = None
    /\ UNCHANGED <<relay, ensure, seen, starting, poll, config>>

(* _teardown: the relay process is killed, the tap hung up.                *)
TearDown(c) ==
    /\ release[c] = "tearing"
    /\ cap' = [cap EXCEPT ![tearing[c]] = "down"]
    /\ release' = [release EXCEPT ![c] = "done"]
    /\ tearing' = [tearing EXCEPT ![c] = None]
    /\ UNCHANGED <<relay, ensure, seen, active, starting, count, poll, config>>

(***************************************************************************)
(* Asterisk, the poll loop's restart check, and a settings change.         *)
(***************************************************************************)
AsteriskRestarts ==
    /\ asterisk < MaxRestarts
    /\ asterisk' = asterisk + 1
    /\ UNCHANGED <<relay, handlers, captures, polled, victim, config>>

NoticeRestart ==
    /\ polled # asterisk /\ victim = None
    /\ polled' = asterisk
    /\ victim' = active
    /\ UNCHANGED <<relay, handlers, captures, asterisk, config>>

(* capture.shutdown(): first the mark, unless someone else set it.         *)
MarkVictim ==
    /\ victim # None /\ cap[victim] = "up"
    /\ cap' = [cap EXCEPT ![victim] = "dead"]
    /\ active' = IF active = victim THEN None ELSE active
    /\ UNCHANGED <<relay, handlers, starting, count, poll, config>>

SkipVictim ==
    /\ victim # None
    /\ cap[victim] = "down" \/ \E c \in Conns : tearing[c] = victim
    /\ victim' = None
    /\ UNCHANGED <<relay, handlers, captures, asterisk, polled, config>>

TearVictim ==
    /\ victim # None /\ cap[victim] = "dead" /\ \A c \in Conns : tearing[c] # victim
    /\ cap' = [cap EXCEPT ![victim] = "down"]
    /\ victim' = None
    /\ UNCHANGED <<relay, handlers, active, starting, count, asterisk, polled, config>>

SaveSettings ==
    /\ settings < MaxSettings
    /\ settings' = settings + 1
    /\ hup' = TRUE
    /\ UNCHANGED <<relay, handlers, captures, poll, faulted>>

(* SIGHUP: _force_disconnect_all shuts every client's socket; the threads  *)
(* that own them do the rest.                                              *)
Hangup ==
    /\ hup /\ hup' = FALSE
    /\ shut' = shut \cup clients
    /\ UNCHANGED <<pc, lock, clients, captureActive, encoder, handlers, captures, poll, settings,
                   faulted>>

Connection(c) ==
    \/ Attach(c) \/ StartEncoder(c) \/ EncoderFails(c) \/ EnsureFails(c)
    \/ Detach(c) \/ Released(c)
Handler(c) ==
    \/ ReadSettings(c) \/ JoinCapture(c) \/ ClaimStart(c) \/ StartCapture(c) \/ StartFails(c)
    \/ ReleaseNothing(c) \/ Release(c) \/ TearDown(c)
Poll == NoticeRestart \/ MarkVictim \/ SkipVictim \/ TearVictim
Environment(c) == Connect(c) \/ StopReading(c)

Next ==
    \/ \E c \in Conns : Connection(c) \/ Handler(c) \/ Environment(c)
    \/ Poll \/ AsteriskRestarts \/ SaveSettings \/ Hangup \/ Crash

Spec == Init /\ [][Next]_vars

(* A connection's steps that wait for no lock.                             *)
Unlocked(c) ==
    StartEncoder(c) \/ EnsureFails(c) \/ Released(c) \/ (c \in shut /\ StopReading(c))

(* Threads are scheduled, a waiter gets lifecycle_lock once it stays free, *)
(* and a shut socket ends its read loop.                                   *)
Fairness ==
    /\ \A c \in Conns :
          /\ WF_vars(Attach(c) \/ Detach(c))
          /\ WF_vars(Unlocked(c))
          /\ WF_vars(Handler(c))
    /\ WF_vars(Poll) /\ WF_vars(Hangup)

FairSpec == Spec /\ Fairness

(***************************************************************************)
(* Properties.                                                             *)
(***************************************************************************)

(* _ensure_capture_only's docstring: racing first listeners never leave a  *)
(* running capture nobody knows of; one marked dead has someone at work on *)
(* it.  Held with calls timing out and the relay process crashing.         *)
NoOrphanCapture == \A k \in Captures :
    /\ cap[k] = "up" => active = k
    /\ cap[k] = "dead" => victim = k \/ \E c \in Conns : tearing[c] = k

(* What is being torn down is not what a listener can still be handed.     *)
TornIsUnreachable == \A c \in Conns : tearing[c] # None => cap[tearing[c]] = "dead"

(* Both: every capture that runs or is being ended is accounted for.       *)
CapturesAccounted == NoOrphanCapture /\ TornIsUnreachable

(* lifecycle_lock: outside it, an encoder runs exactly while clients are   *)
(* attached, so no departing client stopped the encoder of a new one.  As  *)
(* long as no encoder failed to start: see the README.                     *)
EncoderMatchesClients ==
    lock = None /\ "encoder" \notin faulted => (encoder # None <=> clients # {})

Settled == \A c \in Conns : /\ ensure[c] \in {"none", "ok", "failed"}
                           /\ release[c] \in {"none", "done"}

(* The comment on capture_active: release-capture is called exactly once   *)
(* per successful ensure-capture, so an idle node holds no capture.        *)
IdleIsReleased == lock = None /\ clients = {} /\ Settled => active = None

(* A node whose last listener left gives its capture up.                   *)
CaptureIsGivenUp ==
    active # None /\ clients = {} ~> active = None \/ clients # {} \/ faulted \ {"encoder"} # {}

(* A browser that got its upgrade is not left hanging.                     *)
Admitted == \A c \in Conns : pc[c] = "waiting" ~> pc[c] \in {"reading", "closing", "gone"}
=============================================================================
