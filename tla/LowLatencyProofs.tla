-------------------------- MODULE LowLatencyProofs --------------------------
(***************************************************************************)
(* No capture is orphaned and none is handed out while it is torn down,    *)
(* for any number of connections, whatever times out, fails or crashes.    *)
(***************************************************************************)
EXTENDS LowLatency, TLAPS

(* The state the captures depend on.                                       *)
PCs == {"off", "waiting", "ensuring", "reading", "closing", "releasing", "gone"}
Types ==
    /\ pc \in [Conns -> PCs]
    /\ ensure \in [Conns -> {"none", "arrived", "wanted", "starting", "ok", "failed"}]
    /\ release \in [Conns -> {"none", "arrived", "tearing", "done"}]
    /\ tearing \in [Conns -> Captures \cup {None}]
    /\ active \in Captures \cup {None}
    /\ cap \in [Captures -> {"free", "up", "dead", "down"}]
    /\ victim \in Captures \cup {None}

(* The registered capture runs; the one starter holds the only claim, and  *)
(* nothing is registered while it works.                                   *)
ActiveIsUp == active # None => cap[active] = "up"
StarterHoldsClaim == \A c \in Conns : ensure[c] = "starting" => starting = c
ClaimMeansNone == starting # None => active = None

(* A handler that tears something down is the only one that tears it.      *)
TearersAreApart ==
    /\ \A c \in Conns : release[c] = "tearing" <=> tearing[c] # None
    /\ \A c, d \in Conns : tearing[c] # None /\ tearing[c] = tearing[d] => c = d

(* A connection asks for a release once, as the last thing it does.        *)
Left == {"releasing", "gone"}
ReleaseIsLast == \A c \in Conns : release[c] # "none" => pc[c] \in Left

IInv ==
    /\ Types /\ ReleaseIsLast
    /\ ActiveIsUp /\ StarterHoldsClaim /\ ClaimMeansNone /\ TearersAreApart
    /\ NoOrphanCapture /\ TornIsUnreachable

Shared == <<ensure, release, tearing, active, starting, cap, victim>>

(* The initial states satisfy the invariant.                               *)
LEMMA InitIInv == Init => IInv
BY NoneAssumption DEF Init, IInv, Types, PCs, ReleaseIsLast, ActiveIsUp, StarterHoldsClaim, ClaimMeansNone,
                      TearersAreApart, NoOrphanCapture, TornIsUnreachable

(* A step that leaves the captures alone keeps it, if nobody comes back.   *)
LEMMA RelayStep ==
    ASSUME IInv, UNCHANGED Shared, pc' \in [Conns -> PCs],
           \A c \in Conns : pc[c] \in Left => pc'[c] \in Left
    PROVE  IInv'
BY DEF Shared, IInv, Types, ReleaseIsLast, ActiveIsUp, StarterHoldsClaim, ClaimMeansNone,
       TearersAreApart, NoOrphanCapture, TornIsUnreachable

(* Every step of the system keeps the invariant.                           *)
LEMMA NextIInv ==
    ASSUME IInv, [Next]_vars
    PROVE  IInv'
<1> USE NoneAssumption
<1> USE DEF IInv, Types, PCs, Left, ReleaseIsLast, ActiveIsUp, StarterHoldsClaim, ClaimMeansNone,
            TearersAreApart, NoOrphanCapture, TornIsUnreachable
<1>1. CASE UNCHANGED vars
  BY <1>1, RelayStep DEF vars, relay, handlers, captures, poll, config, Shared
<1>2. ASSUME NEW c \in Conns, Connection(c) PROVE IInv'
  <2>1. CASE Attach(c)
    BY <2>1 DEF Attach, captures, poll, config
  <2>2. CASE StartEncoder(c) \/ EncoderFails(c) \/ EnsureFails(c) \/ Released(c)
    <3>1. /\ pc' = [pc EXCEPT ![c] = "reading"] \/ pc' = [pc EXCEPT ![c] = "closing"]
             \/ pc' = [pc EXCEPT ![c] = "gone"]
          /\ pc[c] \in {"ensuring", "releasing"}
          /\ pc[c] = "releasing" => pc' = [pc EXCEPT ![c] = "gone"]
      BY <2>2 DEF StartEncoder, EncoderFails, EnsureFails, Released, Ensured
    <3>2. UNCHANGED Shared
      BY <2>2 DEF StartEncoder, EncoderFails, EnsureFails, Released, handlers, captures, poll, Shared
    <3> QED BY <3>1, <3>2, RelayStep
  <2>3. CASE Detach(c)
    <3>1. /\ pc[c] = "closing" /\ release[c] = "none" /\ tearing[c] = None
          /\ UNCHANGED <<ensure, tearing, active, starting, cap, victim>>
      BY <2>3 DEF Detach, captures, poll
    <3>2. \/ pc' = [pc EXCEPT ![c] = "gone"] /\ release' = release
          \/ /\ pc' = [pc EXCEPT ![c] = "releasing"]
             /\ release' = [release EXCEPT ![c] = "arrived"]
      BY ZenonT(60), <2>3 DEF Detach
    <3>3. CASE pc' = [pc EXCEPT ![c] = "gone"] /\ release' = release
      BY <3>1, <3>3
    <3>4. CASE pc' = [pc EXCEPT ![c] = "releasing"] /\ release' = [release EXCEPT ![c] = "arrived"]
      BY <3>1, <3>4
    <3> QED BY <3>2, <3>3, <3>4
  <2> QED BY <1>2, <2>1, <2>2, <2>3 DEF Connection
<1>3. ASSUME NEW c \in Conns, Handler(c) PROVE IInv'
  <2>1. CASE ReadSettings(c)
    BY <2>1 DEF ReadSettings, relay, captures, poll, config
  <2>2. CASE JoinCapture(c)
    BY <2>2 DEF JoinCapture, relay, poll, config
  <2>3. CASE ClaimStart(c)
    BY <2>3 DEF ClaimStart, relay, poll, config
  <2>4. CASE StartCapture(c)
    <3>1. PICK k \in Captures :
              /\ ensure[c] = "starting" /\ cap[k] = "free"
              /\ cap' = [cap EXCEPT ![k] = "up"]
              /\ active' = k /\ starting' = None
              /\ ensure' = [ensure EXCEPT ![c] = "ok"]
              /\ UNCHANGED <<pc, release, tearing, victim>>
      BY <2>4 DEF StartCapture, relay, poll
    <3>2. starting = c /\ active = None
      BY <3>1
    <3> QED BY <3>1, <3>2
  <2>5. CASE StartFails(c)
    BY <2>5 DEF StartFails, relay, poll, config
  <2>6. CASE ReleaseNothing(c)
    BY <2>6 DEF ReleaseNothing, relay, captures, poll, config
  <2>7. CASE Release(c)
    BY <2>7 DEF Release, relay, poll, config
  <2>8. CASE TearDown(c)
    BY <2>8 DEF TearDown, relay, poll, config
  <2> QED BY <1>3, <2>1, <2>2, <2>3, <2>4, <2>5, <2>6, <2>7, <2>8 DEF Handler
<1>4. ASSUME NEW c \in Conns, Environment(c) PROVE IInv'
  BY <1>4, RelayStep DEF Environment, Connect, StopReading, handlers, captures, poll, config, Shared
<1>5. CASE Poll
  <2>1. CASE NoticeRestart
    BY <2>1 DEF NoticeRestart, relay, handlers, captures
  <2>2. CASE MarkVictim
    BY <2>2 DEF MarkVictim, relay, handlers, poll
  <2>3. CASE SkipVictim
    BY <2>3 DEF SkipVictim, relay, handlers, captures
  <2>4. CASE TearVictim
    BY <2>4 DEF TearVictim, relay, handlers
  <2> QED BY <1>5, <2>1, <2>2, <2>3, <2>4 DEF Poll
<1>6. CASE AsteriskRestarts \/ SaveSettings \/ Hangup \/ Crash
  BY <1>6, RelayStep DEF AsteriskRestarts, SaveSettings, Hangup, Crash, relay, handlers, captures, poll,
                         config, Shared
<1> QED BY <1>1, <1>2, <1>3, <1>4, <1>5, <1>6 DEF Next

(* Racing first listeners, timeouts and crashes never leave a running      *)
(* capture nobody knows of, or a dead one with nobody to tear it down.     *)
THEOREM NoOrphans == Spec => []NoOrphanCapture
<1>1. IInv => NoOrphanCapture
  BY DEF IInv
<1> QED BY <1>1, InitIInv, NextIInv, PTL DEF Spec

(* _release_capture_only's docstring: a capture about to be torn down can  *)
(* no longer be attached to.                                               *)
THEOREM TornUnreachable == Spec => []TornIsUnreachable
<1>1. IInv => TornIsUnreachable
  BY DEF IInv
<1> QED BY <1>1, InitIInv, NextIInv, PTL DEF Spec

(* What the run checks of the captures.                                    *)
THEOREM Accounted == Spec => []CapturesAccounted
BY NoOrphans, TornUnreachable, PTL DEF CapturesAccounted

(***************************************************************************)
(* The relay process: who holds lifecycle_lock, and what the encoder is    *)
(* while nobody does.                                                      *)
(***************************************************************************)
RelayTypes ==
    /\ pc \in [Conns -> PCs] /\ lock \in Conns \cup {None}
    /\ seen \in [Conns -> Nat] /\ settings \in Nat

(* The thread inside a call to app.py, or at work on the encoder, has the  *)
(* lock; the clients are the connections between their two turns at it.    *)
HolderCalls == \A c \in Conns : lock = c <=> pc[c] \in {"ensuring", "releasing"}
Attached == clients = {c \in Conns : pc[c] \in {"ensuring", "reading", "closing"}}

(* The first client is alone while it asks for the capture, and the last   *)
(* has stopped the encoder before it gives the capture back.               *)
FirstAlone == \A c \in Conns : pc[c] = "ensuring" => clients = {c} /\ encoder = None
IdleIsSilent == clients = {} => encoder = None
Encoded == "encoder" \notin faulted /\ clients # {} =>
              encoder # None \/ \E c \in Conns : pc[c] = "ensuring"

RelayInv == RelayTypes /\ HolderCalls /\ Attached /\ FirstAlone /\ IdleIsSilent /\ Encoded

LEMMA InitRelayInv == Init => RelayInv
BY NoneAssumption, SettingsAssumption
   DEF Init, RelayInv, RelayTypes, PCs, HolderCalls, Attached, FirstAlone, IdleIsSilent, Encoded

(* A step of app.py or of Asterisk leaves the relay process alone.         *)
LEMMA ElsewhereRelayInv ==
    ASSUME RelayInv, UNCHANGED <<pc, lock, clients, encoder, faulted>>,
           seen' \in [Conns -> Nat], settings' \in Nat
    PROVE  RelayInv'
BY DEF RelayInv, RelayTypes, HolderCalls, Attached, FirstAlone, IdleIsSilent, Encoded

(* A connection's step keeps it.                                           *)
LEMMA ConnectionRelayInv ==
    ASSUME RelayInv, NEW c \in Conns, Connection(c) \/ Environment(c)
    PROVE  RelayInv'
<1> USE NoneAssumption, SettingsAssumption
<1> USE DEF RelayInv, RelayTypes, PCs, HolderCalls, Attached, FirstAlone, IdleIsSilent, Encoded
<1>1. CASE Connect(c) \/ StopReading(c)
  BY <1>1 DEF Connect, StopReading, handlers, config
<1>2. CASE Attach(c)
  BY <1>2 DEF Attach, config
<1>3. CASE StartEncoder(c)
  BY <1>3 DEF StartEncoder, Ensured, handlers, config
<1>4. CASE EncoderFails(c)
  BY <1>4 DEF EncoderFails, Ensured, Fault, handlers
<1>5. CASE EnsureFails(c)
  BY <1>5 DEF EnsureFails, Fault, handlers
<1>6. CASE Detach(c)
  BY <1>6 DEF Detach, config
<1>7. CASE Released(c)
  BY <1>7 DEF Released, Fault, handlers
<1> QED BY <1>1, <1>2, <1>3, <1>4, <1>5, <1>6, <1>7 DEF Connection, Environment

LEMMA NextRelayInv == RelayInv /\ [Next]_vars => RelayInv'
<1> SUFFICES ASSUME RelayInv, [Next]_vars PROVE RelayInv'
  OBVIOUS
<1>1. ASSUME NEW c \in Conns, Handler(c) PROVE RelayInv'
  <2>1. UNCHANGED <<pc, lock, clients, encoder, faulted>> /\ settings' = settings
    BY <1>1 DEF Handler, ReadSettings, JoinCapture, ClaimStart, StartCapture, StartFails,
                ReleaseNothing, Release, TearDown, relay, config
  <2>2. seen' = seen \/ seen' = [seen EXCEPT ![c] = settings]
    BY <1>1 DEF Handler, ReadSettings, JoinCapture, ClaimStart, StartCapture, StartFails,
                ReleaseNothing, Release, TearDown, relay, config
  <2>3. seen' \in [Conns -> Nat] /\ settings' \in Nat
    BY <2>1, <2>2 DEF RelayInv, RelayTypes
  <2> QED BY <2>1, <2>3, ElsewhereRelayInv
<1>2. CASE Poll \/ AsteriskRestarts \/ SaveSettings \/ Hangup \/ UNCHANGED vars
  <2>1. UNCHANGED <<pc, lock, clients, encoder, faulted, seen>>
    BY <1>2 DEF Poll, NoticeRestart, MarkVictim, SkipVictim, TearVictim, AsteriskRestarts,
                SaveSettings, Hangup, relay, handlers, config, vars
  <2>2. settings' = settings \/ settings' = settings + 1
    BY <1>2 DEF Poll, NoticeRestart, MarkVictim, SkipVictim, TearVictim, AsteriskRestarts,
                SaveSettings, Hangup, relay, handlers, config, vars
  <2> QED BY <2>1, <2>2, ElsewhereRelayInv DEF RelayInv, RelayTypes
<1>3. CASE Crash
  BY <1>3, NoneAssumption, SettingsAssumption
     DEF Crash, Fault, handlers, RelayInv, RelayTypes, PCs, HolderCalls, Attached, FirstAlone,
         IdleIsSilent, Encoded
<1> QED BY <1>1, <1>2, <1>3, ConnectionRelayInv DEF Next

(* Outside lifecycle_lock the encoder runs exactly while clients are       *)
(* attached: no departing client stops the encoder of one that came after. *)
THEOREM EncoderIsShared == Spec => []EncoderMatchesClients
<1>1. RelayInv => EncoderMatchesClients
  BY NoneAssumption
     DEF RelayInv, RelayTypes, HolderCalls, FirstAlone, IdleIsSilent, Encoded, EncoderMatchesClients
<1> QED BY <1>1, InitRelayInv, NextRelayInv, PTL DEF Spec
=============================================================================
