--------------------------- MODULE WatchersProofs ---------------------------
(***************************************************************************)
(* The parts of the web service that watch a node or a stream: the breaker *)
(* and the alert of the taps, the Opus frames' queues, the links with      *)
(* their history, the station IDs, and the manager session that they ask;  *)
(* for every number of threads, peers, browsers and requests, every limit  *)
(* and every length of a behaviour.                                        *)
(***************************************************************************)
EXTENDS Taps, FrameFanout, Links, StationId, AmiPool, TLAPS

(***************************************************************************)
(* Taps.  What the breaker and the monitor know is still so.               *)
(***************************************************************************)

States == {"none", "up", "stuck", "gone"}
StartPlaces == {"idle", "begun", "made", "holds", "hangup", "look", "trip"}
Steps == [at : StartPlaces, tap : Taps \cup {Absent}, n : Nat]

Shape == /\ asteriskPid \in Nat \ {0} /\ up \in BOOLEAN /\ old \subseteq Taps
         /\ tap \in [Taps -> States] /\ st \in [Starters -> Steps]
         /\ breaker \in [pid : Nat, over : BOOLEAN] /\ proved \in BOOLEAN
         /\ (listed = Unknown \/ listed \subseteq Taps)

(* A leg is alive only while Asterisk runs.                                *)
DiesWithAsterisk == ~up => Alive = {}
(* The breaker remembers the process that holds the leg, or none.          *)
BreakerKnows == proved => /\ up /\ ~breaker.over
                          /\ breaker.pid \in {Absent, asteriskPid}

Mine(t, i) == st[t].tap = i /\ st[t].at \in {"made", "holds"}
(* A tap that is being connected is young, and never a new one's id.       *)
OldAreMade == \A i \in old : /\ tap[i] # "none"
                             /\ \A t \in Starters : ~(st[t].tap = i /\ st[t].at = "made")
(* Who had no owner when the channels were listed has none later.          *)
OrphansStay == listed # Unknown =>
                  \A i \in orphans : /\ i \in listed /\ i \in Taps /\ tap[i] # "none"
                                     /\ \A t \in Starters : ~Mine(t, i)

TapInv == Shape /\ DiesWithAsterisk /\ BreakerKnows /\ OldAreMade /\ OrphansStay

LEMMA InitTapInv == TapsInit => TapInv
<1> SUFFICES ASSUME TapsInit PROVE TapInv
  OBVIOUS
<1>1. Shape
  <2>1. Idle \in Steps /\ Closed \in [pid : Nat, over : BOOLEAN]
    BY DEF Steps, StartPlaces, Idle, Closed, Absent
  <2>2. st \in [Starters -> Steps] /\ breaker \in [pid : Nat, over : BOOLEAN]
    BY <2>1 DEF TapsInit
  <2>3. tap \in [Taps -> States] /\ asteriskPid \in Nat \ {0} /\ up \in BOOLEAN
    BY DEF TapsInit, States
  <2> QED BY <2>2, <2>3 DEF TapsInit, Shape
<1>2. DiesWithAsterisk /\ BreakerKnows /\ OldAreMade /\ OrphansStay
  BY DEF TapsInit, DiesWithAsterisk, BreakerKnows, OldAreMade, OrphansStay
<1> QED BY <1>1, <1>2 DEF TapInv

(* A starter's own step: it leaves the monitor's readings alone, takes no  *)
(* tap but a new one, and no tap comes back.                               *)
LEMMA StarterStep ==
    ASSUME TapInv, NEW t \in Starters, NEW a \in StartPlaces, NEW i \in Taps \cup {Absent}, NEW n \in Nat,
           Goes(t, a, i, n), UNCHANGED <<Asterisk, old, Monitor>>, tap' \in [Taps -> States],
           breaker' \in [pid : Nat, over : BOOLEAN], proved' \in BOOLEAN,
           DiesWithAsterisk', BreakerKnows',
           \A j \in Taps : tap[j] # "none" => tap'[j] # "none",
           a = "made" => i \in Taps /\ tap[i] = "none",
           a = "holds" => Mine(t, i)
    PROVE  TapInv'
<1> USE DEF Goes, Asterisk, Monitor
<1>1. Shape'
  BY DEF TapInv, Shape, Steps
<1>2. /\ st'[t] = [at |-> a, tap |-> i, n |-> n]
      /\ \A u \in Starters \ {t} : st'[u] = st[u]
  BY DEF TapInv, Shape
<1>3. ASSUME NEW j \in old, NEW u \in Starters, st'[u].tap = j, st'[u].at = "made"
      PROVE  FALSE
  BY <1>2, <1>3 DEF TapInv, OldAreMade
<1>4. OldAreMade'
  BY <1>3 DEF TapInv, Shape, OldAreMade
<1>5. ASSUME listed # Unknown, NEW j \in orphans, NEW u \in Starters PROVE ~Mine(u, j)'
  BY <1>2, <1>5 DEF TapInv, OrphansStay, Mine
<1>6. OrphansStay'
  BY <1>5 DEF TapInv, OrphansStay
<1> QED BY <1>1, <1>4, <1>6 DEF TapInv

(* No step of a starter that leaves taps and breaker alone harms either.   *)
LEMMA QuietStep ==
    ASSUME TapInv, NEW t \in Starters, NEW a \in StartPlaces, NEW i \in Taps \cup {Absent}, NEW n \in Nat,
           Goes(t, a, i, n), UNCHANGED <<Asterisk, tap, old, breaker, proved, Monitor>>,
           a # "made", a = "holds" => Mine(t, i)
    PROVE  TapInv'
<1>1. DiesWithAsterisk' /\ BreakerKnows'
  BY DEF TapInv, DiesWithAsterisk, BreakerKnows, Asterisk, Alive
<1> QED BY <1>1, StarterStep DEF TapInv, Shape

LEMMA TapOf == ASSUME TapInv, NEW t \in Starters
               PROVE  st[t].tap \in Taps \cup {Absent} /\ st[t].n \in Nat
BY DEF TapInv, Shape, Steps

LEMMA BeginTapInv == ASSUME TapInv, NEW t \in Starters, Begin(t) PROVE TapInv'
<1> USE DEF Begin
<1>1. ~proved
  BY DEF TapInv, BreakerKnows, Clears, ReadPid
<1>2. DiesWithAsterisk' /\ BreakerKnows'
  BY <1>1 DEF TapInv, DiesWithAsterisk, BreakerKnows, Asterisk, Alive
<1>3. breaker' \in [pid : Nat, over : BOOLEAN] /\ Absent \in Taps \cup {Absent} /\ 0 \in Nat
  BY DEF Closed, Absent
<1> QED BY <1>2, <1>3, StarterStep DEF TapInv, Shape, StartPlaces

LEMMA AbandonTapInv == ASSUME TapInv, NEW t \in Starters, Abandon(t) PROVE TapInv'
BY QuietStep DEF Abandon, StartPlaces

LEMMA OriginateTapInv == ASSUME TapInv, NEW t \in Starters, Originate(t) PROVE TapInv'
<1> USE DEF Originate
<1>1. PICK i \in Taps : /\ tap[i] = "none" /\ tap' = [tap EXCEPT ![i] = "up"]
                        /\ Goes(t, "made", i, 0) \/ Goes(t, "idle", Absent, 0)
  OBVIOUS
<1>2. /\ tap' \in [Taps -> States]
      /\ \A j \in Taps : tap[j] # "none" => tap'[j] # "none"
  BY <1>1 DEF TapInv, Shape, States
<1>3. DiesWithAsterisk' /\ BreakerKnows'
  BY DEF TapInv, DiesWithAsterisk, BreakerKnows, Asterisk
<1>4. CASE Goes(t, "made", i, 0)
  BY <1>1, <1>2, <1>3, <1>4, StarterStep DEF TapInv, Shape, StartPlaces
<1>5. CASE Goes(t, "idle", Absent, 0)
  BY <1>1, <1>2, <1>3, <1>5, StarterStep DEF TapInv, Shape, StartPlaces
<1> QED BY <1>1, <1>4, <1>5

LEMMA ConnectedTapInv == ASSUME TapInv, NEW t \in Starters, Connected(t) PROVE TapInv'
BY TapOf, QuietStep DEF Connected, StartPlaces, Mine

LEMMA LetGoTapInv == ASSUME TapInv, NEW t \in Starters, LetGo(t) PROVE TapInv'
BY TapOf, QuietStep DEF LetGo, StartPlaces

LEMMA HangupTapInv == ASSUME TapInv, NEW t \in Starters, HangupTap(t) PROVE TapInv'
<1> USE DEF HangupTap
<1>1. CASE Goes(t, "idle", Absent, 0) /\ UNCHANGED tap
  BY <1>1, QuietStep DEF StartPlaces
<1>2. CASE /\ up /\ Goes(t, "look", st[t].tap, 0)
           /\ tap' \in {tap, [tap EXCEPT ![st[t].tap] = IF @ = "up" THEN "gone" ELSE @]}
  <2>1. /\ tap' \in [Taps -> States]
        /\ \A j \in Taps : tap[j] # "none" => tap'[j] # "none"
    BY <1>2 DEF TapInv, Shape, States
  <2>2. DiesWithAsterisk' /\ BreakerKnows'
    BY <1>2 DEF TapInv, DiesWithAsterisk, BreakerKnows, Asterisk
  <2> QED BY <1>2, <2>1, <2>2, TapOf, StarterStep DEF TapInv, Shape, StartPlaces
<1> QED BY <1>1, <1>2

LEMMA LookForTapInv == ASSUME TapInv, NEW t \in Starters, LookFor(t) PROVE TapInv'
<1> USE DEF LookFor
<1>1. CASE Goes(t, "idle", Absent, 0)
  BY <1>1, QuietStep DEF StartPlaces
<1>2. CASE Goes(t, IF st[t].n + 1 = Looks THEN "trip" ELSE "look", st[t].tap, st[t].n + 1)
  <2>1. (IF st[t].n + 1 = Looks THEN "trip" ELSE "look") \in StartPlaces \ {"made", "holds"}
    BY DEF StartPlaces
  <2>2. st[t].n + 1 \in Nat
    BY TapOf
  <2> QED BY <1>2, <2>1, <2>2, TapOf, QuietStep
<1> QED BY <1>1, <1>2

LEMMA TripTapInv == ASSUME TapInv, NEW t \in Starters, Trip(t) PROVE TapInv'
<1> USE DEF Trip
<1>1. PICK now \in ReadPid : breaker' = [pid |-> now, over |-> FALSE]
  OBVIOUS
<1>2. now \in {Absent, asteriskPid} /\ now \in Nat
  BY DEF TapInv, Shape, ReadPid, Absent
<1>3. proved' => up
  BY DEF TapInv, DiesWithAsterisk, BreakerKnows
<1>4. DiesWithAsterisk' /\ BreakerKnows'
  BY <1>1, <1>2, <1>3 DEF TapInv, DiesWithAsterisk, BreakerKnows, Asterisk, Alive
<1>5. breaker' \in [pid : Nat, over : BOOLEAN] /\ proved' \in BOOLEAN
  BY <1>1, <1>2 DEF TapInv, Shape
<1> QED BY <1>4, <1>5, StarterStep DEF TapInv, Shape, StartPlaces

(* Asterisk and the clock.                                                 *)
LEMMA OutsideStep ==
    ASSUME TapInv, Shape', UNCHANGED <<st, Monitor>>, old' \subseteq old,
           \A j \in Taps : tap[j] # "none" => tap'[j] # "none",
           DiesWithAsterisk', BreakerKnows'
    PROVE  TapInv'
<1>1. OldAreMade'
  BY DEF TapInv, Shape, OldAreMade
<1>2. OrphansStay'
  BY DEF TapInv, OrphansStay, Mine, Monitor
<1> QED BY <1>1, <1>2 DEF TapInv

LEMMA CooledDownTapInv == ASSUME TapInv, CooledDown PROVE TapInv'
<1> USE DEF CooledDown, Asterisk
<1>1. Shape'
  BY DEF TapInv, Shape, Monitor
<1>2. DiesWithAsterisk' /\ BreakerKnows'
  BY DEF TapInv, DiesWithAsterisk, BreakerKnows, Alive
<1> QED BY <1>1, <1>2, OutsideStep

LEMMA TapChanges == ASSUME TapInv, NEW i \in Taps, TapEnds(i) \/ TapSticks(i) PROVE TapInv'
<1> USE DEF TapEnds, TapSticks, Asterisk
<1>1. Shape'
  BY DEF TapInv, Shape, States, Monitor
<1>2. /\ old' \subseteq old
      /\ \A j \in Taps : tap[j] # "none" => tap'[j] # "none"
  BY DEF TapInv, Shape
<1>3. up
  BY DEF TapInv, DiesWithAsterisk, Alive
<1>4. DiesWithAsterisk' /\ BreakerKnows'
  <2>1. UNCHANGED <<asteriskPid, up, breaker, proved>>
    OBVIOUS
  <2> QED BY <1>3, <2>1 DEF TapInv, DiesWithAsterisk, BreakerKnows
<1>5. UNCHANGED <<st, Monitor>>
  OBVIOUS
<1> QED BY <1>1, <1>2, <1>4, <1>5, OutsideStep

LEMMA AgesTapInv == ASSUME TapInv, NEW i \in Taps, TapAges(i) PROVE TapInv'
<1> USE DEF TapAges, Asterisk, Monitor
<1>1. Shape'
  BY DEF TapInv, Shape
<1>2. DiesWithAsterisk' /\ BreakerKnows' /\ OrphansStay'
  BY DEF TapInv, DiesWithAsterisk, BreakerKnows, OrphansStay, Alive, Mine
<1>3. OldAreMade'
  BY DEF TapInv, OldAreMade, Alive
<1> QED BY <1>1, <1>2, <1>3 DEF TapInv

LEMMA StopsTapInv == ASSUME TapInv, Stops PROVE TapInv'
<1> USE DEF Stops
<1>1. Shape'
  BY DEF TapInv, Shape, States, Monitor
<1>2. /\ old' \subseteq old
      /\ \A j \in Taps : tap[j] # "none" => tap'[j] # "none"
  BY DEF TapInv, Shape
<1>3. DiesWithAsterisk' /\ BreakerKnows'
  BY DEF TapInv, Shape, DiesWithAsterisk, BreakerKnows, Alive
<1> QED BY <1>1, <1>2, <1>3, OutsideStep

LEMMA StartsTapInv == ASSUME TapInv, Starts PROVE TapInv'
<1> USE DEF Starts
<1>1. Shape'
  BY DEF TapInv, Shape, Monitor
<1>2. DiesWithAsterisk' /\ BreakerKnows'
  BY DEF TapInv, DiesWithAsterisk, BreakerKnows
<1> QED BY <1>1, <1>2, OutsideStep DEF TapInv, Shape

(* The monitor.                                                            *)
LEMMA ListTapInv == ASSUME TapInv, List PROVE TapInv'
<1> USE DEF List, Asterisk
<1>1. Shape' /\ DiesWithAsterisk' /\ BreakerKnows' /\ OldAreMade'
  BY DEF TapInv, Shape, DiesWithAsterisk, BreakerKnows, OldAreMade, Alive
<1>2. ASSUME NEW i \in orphans', NEW t \in Starters PROVE ~Mine(t, i)
  BY <1>2 DEF TapInv, OldAreMade, Mine, Owned
<1>3. OrphansStay'
  BY <1>2 DEF TapInv, Shape, OldAreMade, OrphansStay, Mine
<1> QED BY <1>1, <1>3 DEF TapInv

LEMMA EvaluateTapInv == ASSUME TapInv, Evaluate PROVE TapInv'
BY DEF Evaluate, Asterisk, TapInv, Shape, DiesWithAsterisk, BreakerKnows, OldAreMade,
       OrphansStay, Alive

LEMMA NextTapInv == TapInv /\ [TapsNext]_tapVars => TapInv'
<1> SUFFICES ASSUME TapInv, [TapsNext]_tapVars PROVE TapInv'
  OBVIOUS
<1>1. ASSUME NEW t \in Starters, Begin(t) \/ Abandon(t) \/ Originate(t) \/ Connected(t)
      PROVE  TapInv'
  BY <1>1, BeginTapInv, AbandonTapInv, OriginateTapInv, ConnectedTapInv
<1>2. ASSUME NEW t \in Starters, LetGo(t) \/ HangupTap(t) \/ LookFor(t) \/ Trip(t)
      PROVE  TapInv'
  BY <1>2, LetGoTapInv, HangupTapInv, LookForTapInv, TripTapInv
<1>3. ASSUME NEW i \in Taps, TapEnds(i) \/ TapSticks(i) \/ TapAges(i) PROVE TapInv'
  BY <1>3, TapChanges, AgesTapInv
<1>4. CASE CooledDown \/ Stops \/ Starts \/ List \/ Evaluate
  BY <1>4, CooledDownTapInv, StopsTapInv, StartsTapInv, ListTapInv, EvaluateTapInv
<1>5. CASE UNCHANGED tapVars
  BY <1>5 DEF tapVars, TapInv, Shape, DiesWithAsterisk, BreakerKnows, OldAreMade, OrphansStay,
              Alive, Mine
<1> QED BY <1>1, <1>2, <1>3, <1>4, <1>5 DEF TapsNext

LEMMA AlwaysTapInv == TapsSpec => []TapInv
<1>1. TapsInit => TapInv
  BY InitTapInv
<1>2. TapInv /\ [TapsNext]_tapVars => TapInv'
  BY NextTapInv
<1> QED BY <1>1, <1>2, PTL DEF TapsSpec

(* _tap_breaker_remaining: no further tap is begun on a node while a leg    *)
(* known to be stranded is held, whatever the process id was read as.      *)
THEOREM BreakerAlwaysHolds == TapsSpec => BreakerHolds
<1>1. ASSUME TapInv, [TapsNext]_tapVars PROVE [NoneBegins]_tapVars
  <2> SUFFICES ASSUME NEW t \in Starters, st[t].at = "idle", st'[t].at = "begun", proved
               PROVE  FALSE
    BY <1>1 DEF NoneBegins
  <2>1. Begin(t)
    <3>1. ASSUME NEW u \in Starters, NEW a \in StartPlaces \ {"begun"}, NEW i, NEW n,
                 Goes(u, a, i, n)
          PROVE  FALSE
      BY <1>1, <3>1 DEF Goes, TapInv, Shape
    <3>2. st' # st
      OBVIOUS
    <3>3. PICK u \in Starters : \/ Begin(u) \/ Abandon(u) \/ Originate(u) \/ Connected(u)
                               \/ LetGo(u) \/ HangupTap(u) \/ LookFor(u) \/ Trip(u)
      BY <1>1, <3>2 DEF TapsNext, tapVars, CooledDown, Stops, Starts, List, Evaluate, TapEnds,
                        TapSticks, TapAges
    <3>4. ~(Abandon(u) \/ Connected(u) \/ LetGo(u) \/ Trip(u))
      BY <3>1 DEF Abandon, Connected, LetGo, Trip, StartPlaces
    <3>5. ~(Originate(u) \/ HangupTap(u) \/ LookFor(u))
      BY <3>1 DEF Originate, HangupTap, LookFor, StartPlaces
    <3>6. Begin(u)
      BY <3>3, <3>4, <3>5
    <3>7. u = t
      BY <1>1, <3>6 DEF Begin, Goes, TapInv, Shape
    <3> QED BY <3>6, <3>7
  <2> QED BY <1>1, <2>1 DEF Begin, Clears, ReadPid, TapInv, BreakerKnows
<1> QED BY <1>1, AlwaysTapInv, PTL DEF TapsSpec, BreakerHolds

(* _check_leaks: the alert about stranded taps ends only when the channels *)
(* that were listed had none.                                              *)
THEOREM AlertClearsOnEvidence == TapsSpec => ClearedOnEvidence
<1>1. ASSUME TapInv, [TapsNext]_tapVars PROVE [ClearsOnEvidence]_tapVars
  <2> SUFFICES ASSUME alerted, ~alerted' PROVE orphans = {}
    BY <1>1 DEF ClearsOnEvidence
  <2>1. Evaluate
    BY <1>1 DEF TapsNext, tapVars, Monitor, Begin, Abandon, Originate, Connected, LetGo, HangupTap,
                LookFor, Trip, TapEnds, TapSticks, TapAges, CooledDown, Stops, Starts, List
  <2>2. ASSUME NEW i \in orphans PROVE FALSE
    <3>1. i \in listed /\ \A t \in Starters : ~Mine(t, i)
      BY <1>1, <2>1 DEF Evaluate, TapInv, OrphansStay
    <3>2. i \notin Owned
      BY <3>1 DEF Owned, Mine
    <3> QED BY <2>1, <3>1, <3>2 DEF Evaluate
  <2> QED BY <2>2
<1> QED BY <1>1, AlwaysTapInv, PTL DEF TapsSpec, ClearedOnEvidence

-----------------------------------------------------------------------------
(***************************************************************************)
(* FrameFanout.  What is queued for a browser lies behind what its writer  *)
(* took and not beyond what was offered to it; a sentinel is queued only   *)
(* when the browser is no longer listed; and until then the reader alone   *)
(* puts, so that the room it made is still there.                          *)
(***************************************************************************)
Queued == 1..MaxFrames \cup {NoClient}

Unsealed(c) == \A i \in 1..Len(queue[c]) : queue[c][i] # NoClient

Offering(c) ==
    /\ taken[c] <= offered[c] /\ offered[c] <= frame
    /\ c \in targets => offered[c] < frame
    /\ c \in listeners /\ full = c /\ evicted => Room(c)

Ordered(c) == \A i \in FramesAt(c) :
    /\ taken[c] < queue[c][i] /\ queue[c][i] <= offered[c]
    /\ \A j \in FramesAt(c) : i < j => queue[c][i] < queue[c][j]

HasNewest(c) ==
    \/ offered[c] = taken[c]
    \/ queue[c] # <<>> /\ queue[c][Len(queue[c])] = offered[c]

BrowserInv(c) ==
    /\ c \in listeners <=> thread[c] = "reading"
    /\ thread[c] = "new" => offered[c] = 0 /\ taken[c] = 0 /\ queue[c] = <<>> /\ c \notin targets
    /\ thread[c] \in {"new", "reading", "unlisted", "full", "again"} => Unsealed(c)
    /\ Offering(c) /\ Ordered(c)
    /\ c \in listeners /\ full # c => HasNewest(c)

FramesInv ==
    /\ FramesTypeOK
    /\ full # NoClient => full \in targets
    /\ full = NoClient => ~evicted
    /\ \A c \in Clients : BrowserInv(c)

(* What the three threads do to a queue.                                   *)
LEMMA QueueAppend ==
    ASSUME NEW u \in Seq(Queued), NEW x \in Queued
    PROVE  /\ Append(u, x) \in Seq(Queued) /\ Len(Append(u, x)) = Len(u) + 1
           /\ Append(u, x) # <<>> /\ Append(u, x)[Len(u) + 1] = x
           /\ \A i \in 1..Len(u) : Append(u, x)[i] = u[i]
OBVIOUS

LEMMA QueueTail ==
    ASSUME NEW u \in Seq(Queued), u # <<>>
    PROVE  /\ Tail(u) \in Seq(Queued) /\ Len(Tail(u)) = Len(u) - 1 /\ Len(u) \in Nat \ {0}
           /\ Head(u) = u[1] /\ u[1] \in Queued
           /\ \A i \in 1..(Len(u) - 1) : Tail(u)[i] = u[i + 1]
           /\ Len(u) > 1 => Tail(u) # <<>>
<1>1. /\ Tail(u) \in Seq(Queued) /\ Len(Tail(u)) = Len(u) - 1 /\ Len(u) \in Nat \ {0}
      /\ Head(u) = u[1] /\ u[1] \in Queued
      /\ \A i \in 1..(Len(u) - 1) : Tail(u)[i] = u[i + 1]
    OBVIOUS
<1>2. Len(u) > 1 => Len(Tail(u)) # 0
    BY <1>1
<1>3. Len(u) > 1 => Tail(u) # <<>>
    <2>1. Len(<<>>) = 0
        OBVIOUS
    <2> QED BY <1>2, <2>1, Zenon
<1> QED BY <1>1, <1>3

(* A step that leaves a browser's queue, thread and place alone.           *)
LEMMA ApartStep ==
    ASSUME FramesTypeOK, NEW d \in Clients, BrowserInv(d),
           queue'[d] = queue[d], thread'[d] = thread[d], taken'[d] = taken[d],
           offered'[d] = offered[d], frame' = frame,
           d \in listeners' <=> d \in listeners, d \in targets' => d \in targets,
           full' = d <=> full = d, full = d => evicted' = evicted
    PROVE  BrowserInv(d)'
BY DEF BrowserInv, Unsealed, Offering, Ordered, HasNewest, FramesAt, Room


(* The newest frame at the end of a queue keeps the order and the newest.  *)
LEMMA PutStep ==
    ASSUME FramesTypeOK, NEW c \in Clients, BrowserInv(c), c \in targets, Room(c),
           queue' = [queue EXCEPT ![c] = Append(@, frame)],
           offered' = [offered EXCEPT ![c] = frame],
           targets' = targets \ {c}, full' = NoClient,
           UNCHANGED <<listeners, thread, frame, taken>>
    PROVE  BrowserInv(c)' /\ Len(queue'[c]) <= Cap /\ queue'[c] \in Seq(Queued)
<1>1. /\ queue[c] \in Seq(Queued) /\ frame \in Queued /\ frame \in 1..MaxFrames
      /\ Len(queue[c]) \in Nat /\ frame \in Nat /\ offered[c] \in Nat /\ taken[c] \in Nat
      /\ offered[c] < frame /\ Len(queue[c]) < Cap
    BY CapAssumption DEF FramesTypeOK, BrowserInv, Offering, Queued, Room
<1>2. /\ queue'[c] = Append(queue[c], frame) /\ offered'[c] = frame /\ taken'[c] = taken[c]
    BY DEF FramesTypeOK
<1>3. /\ queue'[c] \in Seq(Queued) /\ Len(queue'[c]) = Len(queue[c]) + 1
      /\ queue'[c] # <<>> /\ queue'[c][Len(queue[c]) + 1] = frame
      /\ \A i \in 1..Len(queue[c]) : queue'[c][i] = queue[c][i]
    BY <1>1, <1>2, QueueAppend
<1>4. frame # NoClient
    BY <1>1, NoClientAssumption
<1>5. FramesAt(c)' = FramesAt(c) \cup {Len(queue[c]) + 1}
    BY <1>1, <1>3, <1>4 DEF FramesAt
<1>6. \A i \in FramesAt(c) : i \in 1..Len(queue[c]) /\ queue[c][i] \in Nat /\ queue[c][i] < frame
    BY <1>1 DEF BrowserInv, Ordered, FramesAt, Queued
<1>7. Ordered(c)'
    <2> SUFFICES ASSUME NEW i \in FramesAt(c)'
                 PROVE  /\ taken[c] < queue'[c][i] /\ queue'[c][i] <= frame
                        /\ \A j \in FramesAt(c)' : i < j => queue'[c][i] < queue'[c][j]
        BY <1>2 DEF Ordered
    <2>1. CASE i \in FramesAt(c)
        <3>1. taken[c] < queue'[c][i] /\ queue'[c][i] <= frame
            BY <2>1, <1>1, <1>3, <1>6 DEF BrowserInv, Ordered
        <3>2. ASSUME NEW j \in FramesAt(c)', i < j PROVE queue'[c][i] < queue'[c][j]
            BY <3>2, <2>1, <1>1, <1>3, <1>5, <1>6 DEF BrowserInv, Ordered
        <3> QED BY <3>1, <3>2
    <2>2. CASE i = Len(queue[c]) + 1
        <3>1. \A j \in FramesAt(c)' : ~(i < j)
            BY <2>2, <1>1, <1>5, <1>6
        <3>2. taken[c] < frame
            BY <1>1 DEF BrowserInv, Offering
        <3> QED BY <3>1, <3>2, <2>2, <1>1, <1>3
    <2> QED BY <2>1, <2>2, <1>5
<1>8. HasNewest(c)' /\ Len(queue'[c]) <= Cap
    BY <1>1, <1>2, <1>3, CapAssumption DEF HasNewest
<1>9. Offering(c)'
    BY <1>1, <1>2, NoClientAssumption DEF Offering, BrowserInv
<1>10. Unsealed(c) => Unsealed(c)'
    BY <1>1, <1>3, <1>4 DEF Unsealed
<1>11. thread[c] # "new"
    BY DEF BrowserInv
<1> QED BY <1>3, <1>7, <1>8, <1>9, <1>10, <1>11 DEF BrowserInv

(* Without its oldest entry, a queue is still in order, and still has the  *)
(* newest frame unless it was the only one.                                *)
LEMMA TailOrder ==
    ASSUME FramesTypeOK, NEW c \in Clients, Ordered(c), queue[c] # <<>>,
           queue' = [queue EXCEPT ![c] = Tail(@)],
           taken'[c] = taken[c] \/ (taken'[c] = queue[c][1] /\ queue[c][1] # NoClient),
           taken'[c] \in Nat, offered'[c] = offered[c]
    PROVE  /\ Ordered(c)' /\ (Unsealed(c) => Unsealed(c)')
           /\ queue'[c] \in Seq(Queued) /\ Len(queue'[c]) = Len(queue[c]) - 1
           /\ Len(queue[c]) \in Nat \ {0}
           /\ Len(queue[c]) > 1 => /\ queue'[c] # <<>>
                                   /\ queue'[c][Len(queue'[c])] = queue[c][Len(queue[c])]
<1>1. queue[c] \in Seq(Queued) /\ queue'[c] = Tail(queue[c])
    BY DEF FramesTypeOK, Queued
<1>2. /\ queue'[c] \in Seq(Queued) /\ Len(queue'[c]) = Len(queue[c]) - 1
      /\ Len(queue[c]) \in Nat \ {0}
      /\ \A i \in 1..(Len(queue[c]) - 1) : queue'[c][i] = queue[c][i + 1]
      /\ Len(queue[c]) > 1 => queue'[c] # <<>>
    BY <1>1, QueueTail
<1>3. \A i \in FramesAt(c)' : i + 1 \in FramesAt(c) /\ queue'[c][i] = queue[c][i + 1] /\ i \in Nat \ {0}
    BY <1>2 DEF FramesAt
<1>4. 1 \in FramesAt(c) \/ queue[c][1] = NoClient
    BY <1>2 DEF FramesAt
<1>5. ASSUME NEW i \in FramesAt(c)'
      PROVE  /\ taken'[c] < queue'[c][i] /\ queue'[c][i] <= offered'[c]
             /\ \A j \in FramesAt(c)' : i < j => queue'[c][i] < queue'[c][j]
    <2>5. i + 1 \in FramesAt(c) /\ queue'[c][i] = queue[c][i + 1] /\ i \in Nat \ {0}
        BY <1>3
    <2>6. 1 < i + 1
        BY <2>5
    <2>1. i + 1 \in FramesAt(c) /\ queue'[c][i] = queue[c][i + 1] /\ 1 < i + 1
        BY <2>5, <2>6, Zenon
    <2>2. queue'[c][i] <= offered'[c] /\ taken[c] < queue'[c][i]
        BY <2>1 DEF Ordered
    <2>3. taken'[c] = queue[c][1] /\ queue[c][1] # NoClient => taken'[c] < queue'[c][i]
        BY <2>1, <1>4 DEF Ordered
    <2>4. ASSUME NEW j \in FramesAt(c)', i < j PROVE queue'[c][i] < queue'[c][j]
        <3>2. j + 1 \in FramesAt(c) /\ queue'[c][j] = queue[c][j + 1] /\ j \in Nat
            BY <1>3
        <3>1. i + 1 < j + 1
            BY <2>4, <2>5, <3>2
        <3> QED BY <2>1, <3>1, <3>2 DEF Ordered
    <2> QED BY <2>2, <2>3, <2>4
<1>6. Ordered(c)'
    BY <1>5 DEF Ordered
<1>7. ASSUME Unsealed(c) PROVE Unsealed(c)'
    <2> SUFFICES ASSUME NEW i \in 1..Len(queue'[c]) PROVE queue'[c][i] # NoClient
        BY DEF Unsealed
    <2>1. i \in 1..(Len(queue[c]) - 1) /\ i + 1 \in 1..Len(queue[c])
        BY <1>2
    <2> QED BY <1>2, <1>7, <2>1 DEF Unsealed
<1>8. Len(queue[c]) > 1 => queue'[c] # <<>> /\ queue'[c][Len(queue'[c])] = queue[c][Len(queue[c])]
    BY <1>2
<1> QED BY <1>2, <1>6, <1>7, <1>8


(* The sentinel at the end of a queue is not one of its frames.            *)
LEMMA SealStep ==
    ASSUME FramesTypeOK, NEW c \in Clients, Ordered(c), Room(c),
           queue' = [queue EXCEPT ![c] = Append(@, NoClient)],
           taken'[c] = taken[c], offered'[c] = offered[c]
    PROVE  Ordered(c)' /\ queue'[c] \in Seq(Queued) /\ Len(queue'[c]) <= Cap
<1>1. /\ queue[c] \in Seq(Queued) /\ NoClient \in Queued /\ Len(queue[c]) \in Nat
      /\ Len(queue[c]) < Cap
    BY DEF FramesTypeOK, Queued, Room
<1>2. queue'[c] = Append(queue[c], NoClient)
    BY DEF FramesTypeOK
<1>3. /\ queue'[c] \in Seq(Queued) /\ Len(queue'[c]) = Len(queue[c]) + 1
      /\ queue'[c][Len(queue[c]) + 1] = NoClient
      /\ \A i \in 1..Len(queue[c]) : queue'[c][i] = queue[c][i]
    BY <1>1, <1>2, QueueAppend
<1>4. FramesAt(c)' = FramesAt(c) /\ \A i \in FramesAt(c) : queue'[c][i] = queue[c][i]
    BY <1>1, <1>3 DEF FramesAt
<1>5. Ordered(c)'
    BY <1>4 DEF Ordered
<1> QED BY <1>1, <1>3, <1>5, CapAssumption

LEMMA InitFramesInv == FramesInit => FramesInv
<1> SUFFICES ASSUME FramesInit PROVE FramesInv
    OBVIOUS
<1>1. FramesTypeOK
    <2>1. \A c \in Clients : Len(queue[c]) <= Cap
        <3> SUFFICES ASSUME NEW c \in Clients PROVE Len(queue[c]) <= Cap
            OBVIOUS
        <3>1. queue[c] = <<>>
            BY DEF FramesInit
        <3>2. Len(<<>>) = 0 /\ 0 <= Cap
            BY CapAssumption
        <3> QED BY <3>1, <3>2
    <2>2. queue \in [Clients -> Seq(1..MaxFrames \cup {NoClient})] /\ 0 \in 0..MaxFrames
        BY CapAssumption DEF FramesInit
    <2> QED BY <2>1, <2>2 DEF FramesInit, FramesTypeOK
<1>2. ASSUME NEW c \in Clients PROVE BrowserInv(c)
    BY NoClientAssumption DEF FramesInit, BrowserInv, Unsealed, Offering, Ordered, HasNewest, FramesAt
<1> QED BY <1>1, <1>2 DEF FramesInv, FramesInit

(* The typing of what a step changes for one browser.                      *)
LEMMA QueueTyped ==
    ASSUME FramesTypeOK, NEW c \in Clients, NEW u, queue' = [queue EXCEPT ![c] = u],
           u \in Seq(Queued), Len(u) <= Cap
    PROVE  queue' \in [Clients -> Seq(1..MaxFrames \cup {NoClient})]
           /\ (\A d \in Clients : Len(queue'[d]) <= Cap)
           /\ queue'[c] = u /\ \A d \in Clients : d # c => queue'[d] = queue[d]
BY DEF FramesTypeOK, Queued

LEMMA NextFramesInv == FramesInv /\ [FramesNext]_frameVars => FramesInv'
<1> SUFFICES ASSUME FramesInv, [FramesNext]_frameVars PROVE FramesInv'
    OBVIOUS
<1>0. /\ FramesTypeOK /\ (full # NoClient => full \in targets) /\ (full = NoClient => ~evicted)
      /\ \A c \in Clients : BrowserInv(c)
    BY DEF FramesInv
<1>c. \A c \in Clients : c # NoClient
    BY NoClientAssumption
<1>1. CASE NextFrame
    <2>1. FramesTypeOK' /\ full = NoClient /\ full' = full /\ evicted' = evicted
        BY <1>0, <1>1, CapAssumption DEF NextFrame, FramesTypeOK
    <2>2. ASSUME NEW c \in Clients PROVE BrowserInv(c)'
        <3>0. BrowserInv(c) /\ frame \in Nat /\ offered[c] \in Nat /\ taken[c] \in Nat
            BY <1>0 DEF FramesTypeOK
        <3>1. Offering(c)'
            BY <3>0, <1>1, <2>1, <1>c DEF NextFrame, BrowserInv, Offering
        <3>2. c \in listeners => thread[c] # "new"
            BY <3>0 DEF BrowserInv
        <3> QED BY <3>0, <3>1, <3>2, <1>1
           DEF NextFrame, BrowserInv, Unsealed, Ordered, HasNewest, FramesAt
    <2> QED BY <2>1, <2>2, <1>0 DEF FramesInv
<1>2. ASSUME NEW c \in Clients, Fanout(c) PROVE FramesInv'
    <2>0. BrowserInv(c) /\ queue[c] \in Seq(Queued) /\ frame \in 0..MaxFrames /\ frame \in Nat
          /\ Len(queue[c]) \in Nat /\ Len(queue[c]) <= Cap /\ offered[c] \in Nat
        BY <1>0, CapAssumption DEF FramesTypeOK, Queued
    <2>1. ASSUME c \in targets, Room(c), Put(c, frame), Served(c),
                 UNCHANGED <<listeners, thread, writer, sockets, frame, taken>>,
                 full \in {NoClient, c}
          PROVE  FramesInv'
        <3>1. BrowserInv(c)' /\ Len(queue'[c]) <= Cap /\ queue'[c] \in Seq(Queued)
            BY <2>0, <2>1, <1>0, PutStep DEF Put, Served
        <3>2. queue' = [queue EXCEPT ![c] = queue'[c]]
            BY <2>1, <1>0 DEF Put, FramesTypeOK
        <3>3. FramesTypeOK' /\ \A d \in Clients : d # c => queue'[d] = queue[d]
            BY <3>1, <3>2, <2>1, <1>0, QueueTyped DEF Served, FramesTypeOK
        <3>4. ASSUME NEW d \in Clients, d # c PROVE BrowserInv(d)'
            <4>1. queue'[d] = queue[d] /\ thread'[d] = thread[d] /\ taken'[d] = taken[d]
                  /\ frame' = frame /\ listeners' = listeners
                BY <3>3, <3>4, <2>1
            <4>2. offered'[d] = offered[d] /\ full # d /\ full' # d /\ targets' \subseteq targets
                BY <3>4, <2>1, <1>0, <1>c DEF Served, FramesTypeOK
            <4> QED BY <4>1, <4>2, <1>0, ApartStep
        <3> QED BY <3>1, <3>3, <3>4, <2>1 DEF FramesInv, Served
    <2>2. CASE PutFrame(c)
        BY <2>1, <2>2 DEF PutFrame
    <2>3. CASE FindFull(c)
        <3>1. FramesTypeOK'
            BY <1>0, <2>3 DEF FindFull, FramesTypeOK
        <3>2. ASSUME NEW d \in Clients, d # c PROVE BrowserInv(d)'
            BY <3>2, <2>3, <1>0, <1>c, ApartStep DEF FindFull
        <3>3. BrowserInv(c)'
            BY <2>0, <2>3, <1>0
               DEF FindFull, BrowserInv, Unsealed, Offering, Ordered, HasNewest, FramesAt
        <3> QED BY <3>1, <3>2, <3>3, <2>3, <1>0, <1>c DEF FramesInv, FindFull
    <2>4. CASE EvictOldest(c)
        <3>a. c \in targets /\ full = c
            BY <2>4, <1>0, <1>c DEF EvictOldest
        <3>b. CASE queue[c] = <<>>
            <4>1. FramesTypeOK' /\ queue' = queue
                BY <1>0, <2>4, <3>b DEF EvictOldest, FramesTypeOK
            <4>2. ASSUME NEW d \in Clients, d # c PROVE BrowserInv(d)'
                BY <4>1, <4>2, <2>4, <1>0, ApartStep DEF EvictOldest
            <4>3. Room(c)'
                BY <4>1, <3>b, CapAssumption DEF Room
            <4>4. BrowserInv(c)'
                BY <4>1, <4>3, <2>0, <2>4, <1>0
                   DEF EvictOldest, BrowserInv, Unsealed, Offering, Ordered, HasNewest, FramesAt
            <4> QED BY <4>1, <4>2, <4>4, <3>a, <2>4, <1>0, <1>c DEF FramesInv, EvictOldest
        <3>c. CASE queue[c] # <<>>
            <4>1. queue' = [queue EXCEPT ![c] = Tail(@)] /\ taken' = taken /\ offered' = offered
                BY <2>4, <3>c DEF EvictOldest, Get
            <4>t. taken'[c] = taken[c] /\ taken'[c] \in Nat /\ offered'[c] = offered[c]
                BY <4>1, <1>0 DEF FramesTypeOK
            <4>2. /\ Ordered(c)' /\ (Unsealed(c) => Unsealed(c)')
                  /\ queue'[c] \in Seq(Queued) /\ Len(queue'[c]) = Len(queue[c]) - 1
                BY <4>1, <4>t, <3>c, <2>0, <1>0, TailOrder DEF BrowserInv
            <4>3. queue' = [queue EXCEPT ![c] = queue'[c]] /\ Len(queue'[c]) <= Cap /\ Room(c)'
                BY <4>1, <4>2, <2>0, <1>0, CapAssumption DEF FramesTypeOK, Room
            <4>4. FramesTypeOK' /\ \A d \in Clients : d # c => queue'[d] = queue[d]
                BY <4>2, <4>3, <2>4, <1>0, QueueTyped DEF EvictOldest, FramesTypeOK
            <4>5. ASSUME NEW d \in Clients, d # c PROVE BrowserInv(d)'
                BY <4>4, <4>5, <2>4, <1>0, ApartStep DEF EvictOldest
            <4>6. thread[c] # "new"
                BY <3>a, <2>0 DEF BrowserInv
            <4>7. BrowserInv(c)'
                BY <4>2, <4>3, <4>6, <2>0, <2>4 DEF EvictOldest, BrowserInv, Offering
            <4> QED BY <4>4, <4>5, <4>7, <3>a, <2>4, <1>0, <1>c DEF FramesInv, EvictOldest
        <3> QED BY <3>b, <3>c
    <2>5. CASE PutEvicted(c)
        <3>a. c \in targets /\ full = c
            BY <2>5, <1>0, <1>c DEF PutEvicted
        <3>b. CASE Room(c)
            BY <2>1, <2>5, <3>a, <3>b DEF PutEvicted
        <3>c. CASE ~Room(c)
            <4>1. FramesTypeOK' /\ queue' = queue
                BY <1>0, <2>5, <3>c DEF PutEvicted, Served, FramesTypeOK
            <4>2. c \notin listeners /\ offered'[c] = frame
                BY <2>0, <2>5, <3>a, <3>c, <1>0
                   DEF PutEvicted, Served, BrowserInv, Offering, FramesTypeOK
            <4>3. ASSUME NEW d \in Clients, d # c PROVE BrowserInv(d)'
                BY <4>1, <4>3, <2>5, <1>0, <1>c, ApartStep DEF PutEvicted, Served, FramesTypeOK
            <4>4. Ordered(c)'
                <5>1. \A i \in FramesAt(c) : queue[c][i] \in Nat
                    BY <2>0 DEF FramesAt, Queued
                <5> QED BY <5>1, <4>1, <4>2, <2>0, <2>5
                   DEF PutEvicted, Served, BrowserInv, Offering, Ordered, FramesAt
            <4>5. Offering(c)'
                BY <4>2, <2>0, <2>5, <1>0 DEF PutEvicted, Served, BrowserInv, Offering, FramesTypeOK
            <4>6. thread[c] # "new"
                BY <3>a, <2>0 DEF BrowserInv
            <4>7. BrowserInv(c)'
                BY <4>1, <4>2, <4>4, <4>5, <4>6, <2>0, <2>5 DEF PutEvicted, BrowserInv, Unsealed
            <4> QED BY <4>1, <4>3, <4>7, <2>5 DEF FramesInv, PutEvicted, Served
        <3> QED BY <3>b, <3>c
    <2> QED BY <1>2, <2>2, <2>3, <2>4, <2>5 DEF Fanout
<1>3. ASSUME NEW c \in Clients, AddBrowser(c) PROVE FramesInv'
    <2>0. BrowserInv(c)
        BY <1>0
    <2>1. FramesTypeOK'
        BY <1>0, <1>3 DEF AddBrowser, FramesTypeOK, ThreadAt, fanoutState
    <2>2. ASSUME NEW d \in Clients, d # c PROVE BrowserInv(d)'
        BY <2>2, <1>3, <1>0, ApartStep DEF AddBrowser, FramesTypeOK, ThreadAt, fanoutState
    <2>3. thread'[c] = "reading" /\ c \in listeners' /\ full # c
        BY <2>0, <1>3, <1>0, <1>c DEF AddBrowser, ThreadAt, FramesTypeOK, BrowserInv
    <2>4. BrowserInv(c)'
        BY <2>0, <2>3, <1>3, <1>0
           DEF AddBrowser, fanoutState, BrowserInv, Unsealed, Offering, Ordered, HasNewest, FramesAt
    <2> QED BY <2>1, <2>2, <2>4, <1>3, <1>0 DEF FramesInv, AddBrowser, fanoutState
<1>4. ASSUME NEW c \in Clients, Connection(c) PROVE FramesInv'
    <2>0. /\ BrowserInv(c) /\ UNCHANGED fanoutState /\ taken' = taken
          /\ queue[c] \in Seq(Queued) /\ Len(queue[c]) \in Nat
          /\ taken[c] \in Nat
        BY <1>0, <1>4 DEF FramesTypeOK, Queued, Connection, RemoveBrowser, PutSentinel, MakeRoom,
           PutSentinelAgain, CloseSocket
    <2>a. taken'[c] = taken[c] /\ taken'[c] \in Nat /\ offered'[c] = offered[c]
          /\ frame' = frame /\ targets' = targets /\ full' = full /\ evicted' = evicted
        BY <2>0, <1>0 DEF FramesTypeOK, fanoutState
    <2>1. CASE RemoveBrowser(c)
        <3>1. FramesTypeOK' /\ thread'[c] = "unlisted" /\ c \notin listeners'
            BY <1>0, <2>1 DEF RemoveBrowser, ThreadAt, FramesTypeOK, fanoutState
        <3>2. ASSUME NEW d \in Clients, d # c PROVE BrowserInv(d)'
            BY <3>2, <2>1, <1>0, ApartStep DEF RemoveBrowser, FramesTypeOK, ThreadAt, fanoutState
        <3>3. BrowserInv(c)'
            BY <3>1, <2>0, <2>1
               DEF RemoveBrowser, fanoutState, BrowserInv, Unsealed, Offering, Ordered, FramesAt
        <3> QED BY <3>1, <3>2, <3>3, <2>a, <1>0 DEF FramesInv
    <2>2. ASSUME c \notin listeners, UNCHANGED <<listeners, writer>>, sockets' \subseteq sockets,
                 NEW p \in {"full", "again", "closing", "gone"}, ThreadAt(c, p),
                 NEW u \in Seq(Queued), queue' = [queue EXCEPT ![c] = u], Len(u) <= Cap,
                 Ordered(c)', p \in {"full", "again"} => Unsealed(c)'
          PROVE  FramesInv'
        <3>1. FramesTypeOK' /\ thread'[c] = p /\ \A d \in Clients : d # c => queue'[d] = queue[d]
            <4>1. /\ queue' \in [Clients -> Seq(1..MaxFrames \cup {NoClient})]
                  /\ \A d \in Clients : Len(queue'[d]) <= Cap
                  /\ \A d \in Clients : d # c => queue'[d] = queue[d]
                BY <1>0, <2>2, QueueTyped
            <4>2.
                  /\ thread' \in [Clients -> {"new", "reading", "unlisted", "full", "again", "closing", "gone"}]
                  /\ thread'[c] = p
                BY <1>0, <2>2 DEF ThreadAt, FramesTypeOK
            <4> QED BY <4>1, <4>2, <1>0, <2>0, <2>2 DEF FramesTypeOK, fanoutState
        <3>2. ASSUME NEW d \in Clients, d # c PROVE BrowserInv(d)'
            BY <3>1, <3>2, <2>2, <2>0, <2>a, <1>0, ApartStep DEF FramesTypeOK, ThreadAt, fanoutState
        <3>3. Offering(c)'
            BY <2>2, <2>0, <2>a DEF Offering, BrowserInv, fanoutState
        <3>4. BrowserInv(c)'
            BY <3>1, <3>3, <2>2 DEF BrowserInv
        <3> QED BY <3>1, <3>2, <3>4, <2>a, <1>0 DEF FramesInv
    <2>b. thread[c] # "reading" => c \notin listeners
        BY <2>0 DEF BrowserInv
    <2>3. queue = [queue EXCEPT ![c] = queue[c]] /\ Len(queue[c]) <= Cap
        BY <1>0 DEF FramesTypeOK
    <2>c. queue' = queue => Ordered(c)' /\ (Unsealed(c) => Unsealed(c)')
        BY <2>0, <2>a DEF BrowserInv, Ordered, FramesAt, Unsealed
    <2>4. ASSUME Room(c), Put(c, NoClient)
          PROVE  /\ queue' = [queue EXCEPT ![c] = queue'[c]] /\ queue'[c] \in Seq(Queued)
                 /\ Len(queue'[c]) <= Cap /\ Ordered(c)'
        <3>1. queue' = [queue EXCEPT ![c] = queue'[c]]
            BY <2>4, <1>0 DEF Put, FramesTypeOK
        <3> QED BY <3>1, <2>4, <2>0, <2>a, <1>0, SealStep DEF Put, BrowserInv
    <2>5. CASE PutSentinel(c)
        <3>1. CASE Room(c)
            <4>1. Put(c, NoClient) /\ ThreadAt(c, "closing")
                BY <2>5, <3>1 DEF PutSentinel
            <4> QED BY <4>1, <3>1, <2>2, <2>4, <2>5, <2>b DEF PutSentinel
        <3>2. CASE ~Room(c)
            <4>1. queue' = queue /\ ThreadAt(c, "full")
                BY <2>5, <3>2 DEF PutSentinel
            <4>2. Unsealed(c)
                BY <2>5, <2>0 DEF PutSentinel, BrowserInv
            <4> QED BY <4>1, <4>2, <2>0, <2>2, <2>3, <2>5, <2>b, <2>c DEF PutSentinel
        <3> QED BY <3>1, <3>2
    <2>6. CASE MakeRoom(c)
        <3>1. CASE queue[c] = <<>>
            <4>1. queue' = queue /\ ThreadAt(c, "closing")
                BY <2>6, <3>1 DEF MakeRoom
            <4> QED BY <4>1, <2>0, <2>2, <2>3, <2>6, <2>b, <2>c DEF MakeRoom
        <3>2. CASE queue[c] # <<>>
            <4>1. queue' = [queue EXCEPT ![c] = Tail(@)] /\ ThreadAt(c, "again")
                BY <2>6, <3>2 DEF MakeRoom, Get
            <4>2. /\ Ordered(c)' /\ (Unsealed(c) => Unsealed(c)')
                  /\ queue'[c] \in Seq(Queued) /\ Len(queue'[c]) = Len(queue[c]) - 1
                BY <4>1, <3>2, <2>0, <2>a, <1>0, TailOrder DEF BrowserInv
            <4>3. queue' = [queue EXCEPT ![c] = queue'[c]] /\ Len(queue'[c]) <= Cap
                BY <4>1, <4>2, <2>0, <2>3, <1>0, CapAssumption DEF FramesTypeOK
            <4>4. Unsealed(c)
                BY <2>6, <2>0 DEF MakeRoom, BrowserInv
            <4> QED BY <4>1, <4>2, <4>3, <4>4, <2>2, <2>6, <2>b DEF MakeRoom
        <3> QED BY <3>1, <3>2
    <2>7. CASE PutSentinelAgain(c)
        <3>1. CASE Room(c)
            <4>1. Put(c, NoClient) /\ ThreadAt(c, "closing")
                BY <2>7, <3>1 DEF PutSentinelAgain
            <4> QED BY <4>1, <3>1, <2>2, <2>4, <2>7, <2>b DEF PutSentinelAgain
        <3>2. CASE ~Room(c)
            <4>1. queue' = queue /\ ThreadAt(c, "closing")
                BY <2>7, <3>2 DEF PutSentinelAgain
            <4> QED BY <4>1, <2>0, <2>2, <2>3, <2>7, <2>b, <2>c DEF PutSentinelAgain
        <3> QED BY <3>1, <3>2
    <2>8. CASE CloseSocket(c)
        <3>1. queue' = queue /\ ThreadAt(c, "gone") /\ sockets' \subseteq sockets
            BY <2>8 DEF CloseSocket
        <3> QED BY <3>1, <2>0, <2>2, <2>3, <2>8, <2>b, <2>c DEF CloseSocket
    <2> QED BY <1>4, <2>1, <2>5, <2>6, <2>7, <2>8 DEF Connection
<1>5. ASSUME NEW c \in Clients, Take(c) PROVE FramesInv'
    <2>0. /\ BrowserInv(c) /\ queue[c] \in Seq(Queued) /\ Len(queue[c]) \in Nat /\ queue[c] # <<>>
          /\ queue' = [queue EXCEPT ![c] = Tail(@)] /\ Len(queue[c]) <= Cap
          /\ taken' = [taken EXCEPT ![c] = IF queue[c][1] = NoClient THEN @ ELSE queue[c][1]]
          /\ UNCHANGED <<listeners, thread, sockets>> /\ UNCHANGED fanoutState
        BY <1>0, <1>5 DEF Take, Get, FramesTypeOK, Queued
    <2>1. /\ queue[c][1] \in Queued /\ Len(queue[c]) \in Nat \ {0}
          /\ taken[c] \in Nat /\ offered[c] \in Nat /\ frame \in Nat
        BY <2>0, <1>0, QueueTail DEF FramesTypeOK
    <2>2. taken'[c] = IF queue[c][1] = NoClient THEN taken[c] ELSE queue[c][1]
        BY <2>0, <1>0 DEF FramesTypeOK
    <2>3. /\ taken' \in [Clients -> 0..MaxFrames] /\ taken'[c] \in Nat
          /\ \A d \in Clients : d # c => taken'[d] = taken[d]
        <3>1. queue[c][1] # NoClient => queue[c][1] \in 0..MaxFrames
            BY <2>1 DEF Queued
        <3> QED BY <3>1, <2>0, <2>1, <2>2, <1>0 DEF FramesTypeOK, Queued
    <2>4. offered' = offered /\ frame' = frame /\ targets' = targets /\ full' = full
                             /\ evicted' = evicted
        BY <2>0 DEF fanoutState
    <2>5. /\ Ordered(c)' /\ (Unsealed(c) => Unsealed(c)')
          /\ queue'[c] \in Seq(Queued) /\ Len(queue'[c]) = Len(queue[c]) - 1
          /\ Len(queue[c]) > 1 => /\ queue'[c] # <<>>
                                  /\ queue'[c][Len(queue'[c])] = queue[c][Len(queue[c])]
        <3>1. taken'[c] = taken[c] \/ (taken'[c] = queue[c][1] /\ queue[c][1] # NoClient)
            BY <2>2
        <3>2. Ordered(c)
            BY <2>0 DEF BrowserInv
        <3> QED BY <3>1, <3>2, <2>0, <2>3, <2>4, <1>0, TailOrder
    <2>6. queue' = [queue EXCEPT ![c] = queue'[c]] /\ Len(queue'[c]) <= Cap
        BY <2>0, <2>5, <1>0, CapAssumption DEF FramesTypeOK
    <2>7. FramesTypeOK' /\ \A d \in Clients : d # c => queue'[d] = queue[d]
        <3>1. writer' \in [Clients -> {"new", "get", "send", "gone"}]
            BY <1>0, <1>5 DEF Take, FramesTypeOK
        <3>2. /\ queue' \in [Clients -> Seq(1..MaxFrames \cup {NoClient})]
              /\ (\A d \in Clients : Len(queue'[d]) <= Cap)
              /\ \A d \in Clients : d # c => queue'[d] = queue[d]
            BY <2>5, <2>6, <1>0, QueueTyped
        <3> QED BY <3>1, <3>2, <2>0, <2>3, <2>4, <1>0 DEF FramesTypeOK
    <2>8. ASSUME NEW d \in Clients, d # c PROVE BrowserInv(d)'
        BY <2>8, <2>0, <2>3, <2>4, <2>7, <1>0, ApartStep
    <2>9. 1 \in FramesAt(c) \/ queue[c][1] = NoClient
        BY <2>1 DEF FramesAt
    <2>10. taken[c] <= taken'[c] /\ taken'[c] <= offered[c]
        <3>1. taken[c] <= offered[c]
            BY <2>0 DEF BrowserInv, Offering
        <3>2. 1 \in FramesAt(c) => taken[c] < queue[c][1] /\ queue[c][1] <= offered[c]
            BY <2>0 DEF BrowserInv, Ordered
        <3> QED BY <3>1, <3>2, <2>1, <2>2, <2>3, <2>9
    <2>11. Offering(c)'
        <3>1. Room(c) => Room(c)'
            BY <2>1, <2>5, CapAssumption DEF Room
        <3> QED BY <3>1, <2>0, <2>4, <2>10 DEF BrowserInv, Offering
    <2>12. ASSUME c \in listeners, full # c PROVE HasNewest(c)'
        <3>1. queue[c][1] # NoClient /\ HasNewest(c)
            BY <2>0, <2>1, <2>12 DEF BrowserInv, Unsealed
        <3>2. 1 \in FramesAt(c) /\ taken'[c] = queue[c][1]
            BY <3>1, <2>9, <2>2
        <3>3. taken[c] < queue[c][1] /\ queue[c][1] <= offered[c] /\ queue[c][1] \in Nat
            BY <3>1, <3>2, <2>0, <2>1 DEF BrowserInv, Ordered, Queued
        <3>4. queue[c][Len(queue[c])] = offered[c]
            BY <3>1, <3>3, <2>1 DEF HasNewest
        <3>5. CASE Len(queue[c]) > 1
            BY <3>4, <3>5, <2>4, <2>5 DEF HasNewest
        <3>6. CASE ~(Len(queue[c]) > 1)
            <4>1. Len(queue[c]) = 1
                <5>1. \A n \in Nat \ {0} : ~(n > 1) => n = 1
                    OBVIOUS
                <5>2. Len(queue[c]) \in Nat \ {0}
                    BY <2>1
                <5> QED BY <5>1, <5>2, <3>6, Zenon
            <4> QED BY <4>1, <3>2, <3>4, <2>4 DEF HasNewest
        <3> QED BY <3>5, <3>6
    <2>13. thread[c] # "new"
        BY <2>0 DEF BrowserInv
    <2>14. BrowserInv(c)'
        BY <2>0, <2>4, <2>5, <2>11, <2>12, <2>13 DEF BrowserInv
    <2> QED BY <2>4, <2>7, <2>8, <2>14, <1>0 DEF FramesInv
<1>6. ASSUME NEW c \in Clients, Sent(c) \/ SendFails(c) PROVE FramesInv'
    <2>1. FramesTypeOK' /\ UNCHANGED <<listeners, queue, thread, fanoutState, taken>>
        BY <1>0, <1>6 DEF Sent, SendFails, FramesTypeOK, fanoutState
    <2>2. ASSUME NEW d \in Clients PROVE BrowserInv(d)'
        BY <2>1, <1>0, ApartStep DEF fanoutState
    <2> QED BY <2>1, <2>2, <1>0 DEF FramesInv, fanoutState
<1>7. CASE UNCHANGED frameVars
    <2>1. FramesTypeOK'
        BY <1>0, <1>7 DEF frameVars, FramesTypeOK
    <2>2. ASSUME NEW d \in Clients PROVE BrowserInv(d)'
        BY <1>7, <1>0, ApartStep DEF frameVars
    <2> QED BY <2>1, <2>2, <1>0, <1>7 DEF FramesInv, frameVars
<1> QED BY <1>1, <1>2, <1>3, <1>4, <1>5, <1>6, <1>7 DEF FramesNext

LEMMA FramesInvariance == FramesSpec => []FramesInv
BY InitFramesInv, NextFramesInv, PTL DEF FramesSpec

(* audio_ws_relay.py: no queue grows beyond its maximum, and only listed,  *)
(* known connections are served.                                           *)
THEOREM FramesTypes == FramesSpec => []FramesTypeOK
<1>1. FramesInv => FramesTypeOK
    BY DEF FramesInv
<1> QED BY <1>1, FramesInvariance, PTL

(* fanout() and _client_writer_loop: whatever the size of a queue and the  *)
(* number of browsers, none sees a frame twice or out of order, and one    *)
(* that cannot keep up still finds the newest frame in its queue.          *)
THEOREM NewestArrivesInOrder == FramesSpec => []NewestInOrder
<1>1. FramesInv => NewestInOrder
    <2> SUFFICES ASSUME FramesInv PROVE NewestInOrder
        OBVIOUS
    <2>1. \A c \in Clients : Ordered(c) /\ (c \in listeners /\ full # c => HasNewest(c))
        BY DEF FramesInv, BrowserInv
    <2>2. listeners \subseteq Clients
        BY DEF FramesInv, FramesTypeOK
    <2> QED BY <2>1, <2>2 DEF NewestInOrder, FramesInOrder, NewestIsKept, Ordered, HasNewest
<1> QED BY <1>1, FramesInvariance, PTL

-----------------------------------------------------------------------------
(***************************************************************************)
(* Links.  From the moment a cycle settled who is connected until it has   *)
(* written it, the open rows and what it still writes add up to it, but    *)
(* for the peers whose last write failed.                                  *)
(***************************************************************************)
Known == Peers \ unwritten
Settled ==
    /\ poller.pc \in {"idle", "track", "prunes", "saves", "deletes"} =>
          \A p \in Known : p \in open <=> p \in prev
    /\ poller.pc \in {"touch", "expire", "hangup", "opens"} =>
          \A p \in Known : p \in prev <=> (p \in open \/ p \in poller.opens) /\ p \notin poller.closes
    /\ poller.pc \in {"touch", "expire", "hangup", "opens"} => poller.opens \subseteq prev
    /\ poller.pc \in {"touch", "expire", "hangup", "opens", "closes"} =>
          poller.closes \intersect prev = {}
    /\ poller.pc = "closes" => \A p \in Known : p \in prev <=> p \in open /\ p \notin poller.closes
    /\ poller.est \subseteq poller.all \/ poller.pc # "track"

(* What a request is about to save is an entry it made.                    *)
SavesEntry == \A r \in Requests : req[r].pc = "save" => req[r].entry.tracked

LinkInv == LinksTypeOK /\ Settled /\ SavesEntry

(* Time does not change what an entry or a row is.                         *)
LEMMA OlderTyped ==
    /\ \A e \in Entries : Older(e) \in Entries /\ Older(e).tracked = e.tracked
    /\ \A e \in Rows : Older(e) \in Rows
<1>1. \A a \in Ages : (IF a > Limit THEN a ELSE a + 1) \in Ages
    BY LimitAssumption DEF Ages
<1>2. ASSUME NEW e \in Entries PROVE Older(e) \in Entries /\ Older(e).tracked = e.tracked
    <2>1. CASE e = NoEntry
        BY <2>1 DEF Older, NoEntry, Entries
    <2>2. CASE e \in [tracked : {TRUE}, perm : BOOLEAN, exempt : BOOLEAN, age : Ages, unsaved : BOOLEAN]
        BY <2>2, <1>1 DEF Older, Entries
    <2> QED BY <2>1, <2>2 DEF Entries
<1>3. ASSUME NEW e \in Rows PROVE Older(e) \in Rows
    <2>1. CASE e = NoEntry
        BY <2>1 DEF Older, NoEntry, Rows
    <2>2. CASE e \in [tracked : {TRUE}, exempt : BOOLEAN, age : Ages]
        BY <2>2, <1>1 DEF Older, Rows
    <2> QED BY <2>1, <2>2 DEF Rows
<1> QED BY <1>2, <1>3

LEMMA Entered ==
    /\ \A p, x, u \in BOOLEAN, a \in Ages : Entry(p, x, a, u) \in Entries /\ Entry(p, x, a, u).tracked
    /\ \A x \in BOOLEAN, a \in Ages : Row(x, a) \in Rows
    /\ NoEntry \in Entries /\ NoEntry \in Rows /\ 0 \in Ages
    /\ \A e \in Entries : e.tracked =>
          e \in [tracked : {TRUE}, perm : BOOLEAN, exempt : BOOLEAN, age : Ages, unsaved : BOOLEAN]
    /\ \A e \in Rows : e.tracked => e \in [tracked : {TRUE}, exempt : BOOLEAN, age : Ages]
<1>1. 0 \in Ages
    BY LimitAssumption DEF Ages
<1>2. ASSUME NEW p \in BOOLEAN, NEW x \in BOOLEAN, NEW u \in BOOLEAN, NEW a \in Ages
      PROVE  Entry(p, x, a, u) \in Entries /\ Entry(p, x, a, u).tracked
    BY DEF Entry, Entries
<1>3. ASSUME NEW x \in BOOLEAN, NEW a \in Ages PROVE Row(x, a) \in Rows
    BY DEF Row, Rows
<1>4. NoEntry \in Entries /\ NoEntry \in Rows /\ ~NoEntry.tracked
    BY DEF NoEntry, Entries, Rows
<1>5. \A e \in Entries : e.tracked =>
          e \in [tracked : {TRUE}, perm : BOOLEAN, exempt : BOOLEAN, age : Ages, unsaved : BOOLEAN]
    BY <1>4 DEF Entries
<1>6. \A e \in Rows : e.tracked => e \in [tracked : {TRUE}, exempt : BOOLEAN, age : Ages]
    BY <1>4 DEF Rows
<1> QED BY <1>1, <1>2, <1>3, <1>4, <1>5, <1>6

LEMMA IdleTyped == PollIdle \in Cycle /\ ReqIdle.pc = "idle" /\ \A q \in Asking : q # ReqIdle
<1>1. [p \in Peers |-> NoEntry] \in [Peers -> Rows]
    BY Entered
<1>2. \A q \in Asking : q.pc # "idle"
    BY DEF Asking
<1> QED BY <1>1, <1>2 DEF PollIdle, Cycle, ReqIdle

LEMMA InitLinkInv == LinksInit => LinkInv
<1> SUFFICES ASSUME LinksInit PROVE LinkInv
    OBVIOUS
<1>1. LinksTypeOK
    BY Entered, IdleTyped, LimitAssumption DEF LinksInit, LinksTypeOK
<1>2. Settled
    BY DEF LinksInit, Settled, PollIdle
<1>3. SavesEntry
    BY IdleTyped DEF LinksInit, SavesEntry
<1> QED BY <1>1, <1>2, <1>3 DEF LinkInv

(* A step outside the poller's thread.                                     *)
LEMMA SettledKept ==
    ASSUME Settled, UNCHANGED <<open, prev, unwritten>>,
           poller' = poller \/ (\E s : poller' = [poller EXCEPT !.saves = s]), poller \in Cycle
    PROVE  Settled'
<1>1. /\ poller'.pc = poller.pc /\ poller'.opens = poller.opens /\ poller'.closes = poller.closes
      /\ poller'.est = poller.est /\ poller'.all = poller.all
    BY DEF Cycle
<1> QED BY <1>1 DEF Settled, Known

(* app_rpt's answers to a command, and what happens to links by itself.    *)
LEMMA AsteriskTyped ==
    ASSUME LinksTypeOK, NEW p \in Peers,
           \/ UNCHANGED asteriskLinks \/ Hangup(p) \/ Ilink11(p) \/ Ilink1(p)
           \/ \E m \in BOOLEAN : Dial(p, m)
    PROVE  /\ link' \in [Peers -> {"down", "dialing", "up"}]
           /\ perm' \subseteq Peers /\ keyed' \subseteq Peers /\ ours' \subseteq Peers
BY DEF LinksTypeOK, asteriskLinks, Hangup, Ilink11, Ilink1, Dial

LEMMA AskingAt ==
    ASSUME LinksTypeOK, NEW r \in Requests, req[r].pc # "idle"
    PROVE  req[r] \in Asking /\ req[r].peer \in Peers /\ req[r].entry \in Entries
<1>1. req[r] \in {ReqIdle} \union Asking /\ req[r] # ReqIdle
    BY IdleTyped DEF LinksTypeOK
<1> QED BY <1>1 DEF Asking

LEMMA DoneTyped ==
    ASSUME LinksTypeOK, SavesEntry, NEW r \in Requests, Done(r)
    PROVE  req' \in [Requests -> {ReqIdle} \union Asking] /\ SavesEntry'
BY IdleTyped DEF LinksTypeOK, SavesEntry, Done

LEMMA RememberTyped ==
    ASSUME LinksTypeOK, SavesEntry, NEW r \in Requests, req[r].pc = "track",
           NEW e \in Entries, e.tracked, Remember(r, e)
    PROVE  /\ req' \in [Requests -> {ReqIdle} \union Asking] /\ SavesEntry'
           /\ conn' \in [Peers -> Entries] /\ ours' \subseteq Peers
<1>1. req[r] \in Asking /\ req[r].peer \in Peers
    BY AskingAt
<1>2. conn' \in [Peers -> Entries] /\ ours' \subseteq Peers
    BY <1>1 DEF Remember, LinksTypeOK
<1>3. CASE req' = [req EXCEPT ![r] = ReqIdle]
    BY <1>2, <1>3, DoneTyped DEF Done
<1>4. CASE req' = [req EXCEPT ![r] = [@ EXCEPT !.pc = "save", !.entry = e]]
    <2>1. /\ [req[r] EXCEPT !.pc = "save", !.entry = e] \in Asking
          /\ [req[r] EXCEPT !.pc = "save", !.entry = e].entry = e
        BY <1>1 DEF Asking
    <2>2. req' \in [Requests -> {ReqIdle} \union Asking]
        BY <1>4, <2>1 DEF LinksTypeOK
    <2>3. req'[r].entry.tracked /\ \A q \in Requests : q # r => req'[q] = req[q]
        BY <1>4, <2>1 DEF LinksTypeOK
    <2>4. SavesEntry'
        BY <2>3 DEF SavesEntry
    <2> QED BY <1>2, <2>2, <2>4
<1>5. \/ req' = [req EXCEPT ![r] = ReqIdle]
      \/ req' = [req EXCEPT ![r] = [@ EXCEPT !.pc = "save", !.entry = e]]
    BY DEF Remember
<1> QED BY <1>3, <1>4, <1>5

LEMMA NextLinkInv == LinkInv /\ [LinksNext]_linkVars => LinkInv'
<1> SUFFICES ASSUME LinkInv, [LinksNext]_linkVars PROVE LinkInv'
    OBVIOUS
<1>0. LinksTypeOK /\ Settled /\ SavesEntry /\ poller \in Cycle
    BY DEF LinkInv, LinksTypeOK
<1>1. ASSUME NEW p \in Peers, Establish(p) \/ Drop(p) \/ Inbound(p) \/ Key(p) PROVE LinkInv'
    <2>1. UNCHANGED <<conn, tables, prev, poller, req, budget>> /\ perm' = perm
        BY <1>1 DEF Establish, Drop, Inbound, Key
    <2>2. /\ link' \in [Peers -> {"down", "dialing", "up"}]
          /\ keyed' \subseteq Peers /\ ours' \subseteq Peers
        BY <1>0, <1>1 DEF LinksTypeOK, Establish, Drop, Inbound, Key, Down
    <2>3. LinksTypeOK'
        BY <1>0, <2>1, <2>2 DEF LinksTypeOK, tables
    <2>4. Settled' /\ SavesEntry'
        BY <1>0, <2>1, SettledKept DEF tables, SavesEntry
    <2> QED BY <2>3, <2>4 DEF LinkInv
<1>2. CASE Tick
    <2>1. conn' \in [Peers -> Entries] /\ row' \in [Peers -> Rows]
        BY <1>0, <1>2, OlderTyped DEF Tick, LinksTypeOK
    <2>2. PICK s \in [Peers -> Rows] : poller' = [poller EXCEPT !.saves = s]
        <3>1. [p \in Peers |-> Older(poller.saves[p])] \in [Peers -> Rows]
            BY <1>0, OlderTyped DEF Cycle
        <3> QED BY <3>1, <1>2 DEF Tick
    <2>3. poller' \in Cycle
        BY <1>0, <2>2 DEF Cycle
    <2>4. ASSUME NEW r \in Requests
          PROVE  req'[r] \in {ReqIdle} \union Asking /\ (req'[r].pc = "save" => req'[r].entry.tracked)
        <3>1. req'[r] = IF req[r].pc = "save" THEN [req[r] EXCEPT !.entry = Older(@)] ELSE req[r]
            BY <1>2 DEF Tick
        <3>2. CASE req[r].pc = "save"
            <4>1. req[r] \in Asking /\ req[r].entry \in Entries /\ req[r].entry.tracked
                BY <3>2, <1>0, AskingAt DEF SavesEntry
            <4>2. Older(req[r].entry) \in Entries /\ Older(req[r].entry).tracked
                BY <4>1, OlderTyped
            <4> QED BY <3>1, <3>2, <4>1, <4>2 DEF Asking
        <3>3. CASE req[r].pc # "save"
            BY <3>1, <3>3, <1>0 DEF LinksTypeOK
        <3> QED BY <3>2, <3>3
    <2>5. req' \in [Requests -> {ReqIdle} \union Asking] /\ SavesEntry'
        <3>1. req' = [r \in Requests |-> req'[r]]
            BY <1>2 DEF Tick
        <3> QED BY <2>4, <3>1 DEF SavesEntry
    <2>6. LinksTypeOK' /\ Settled'
        <3>1. UNCHANGED <<asteriskLinks, permRow, open, unwritten, prev, budget>>
            BY <1>2 DEF Tick
        <3>2. Settled'
            BY <3>1, <1>0, <2>2, SettledKept
        <3> QED BY <3>1, <3>2, <1>0, <2>1, <2>3, <2>5 DEF LinksTypeOK, asteriskLinks
    <2> QED BY <2>5, <2>6 DEF LinkInv
<1>3. ASSUME NEW r \in Requests, Serve(r) PROVE LinkInv'
    <2>0. UNCHANGED <<open, unwritten, prev, poller, budget>> /\ req[r].pc # "idle"
        BY <1>3
           DEF Serve, DisconnectPeer, Connect, RawConnect, PanelRefused, CommandFails, Track, Squash,
           Restore, ResetIdle, Save, Commanding, Tracking, tables
    <2>1. Settled'
        BY <1>0, <2>0, SettledKept
    <2>2. /\ req[r] \in Asking /\ req[r].peer \in Peers /\ req[r].entry \in Entries
        BY <1>0, <2>0, AskingAt
    <2>3. ASSUME DisconnectPeer(r) \/ Connect(r) \/ RawConnect(r) \/ PanelRefused(r) \/ CommandFails(r)
          PROVE  LinkInv'
        <3>1. UNCHANGED <<conn, row, permRow>>
            BY <2>3 DEF DisconnectPeer, Connect, RawConnect, PanelRefused, CommandFails, tables
        <3>2. /\ link' \in [Peers -> {"down", "dialing", "up"}]
              /\ perm' \subseteq Peers /\ keyed' \subseteq Peers /\ ours' \subseteq Peers
            <4>1. \/ UNCHANGED asteriskLinks \/ Ilink11(req[r].peer)
                  \/ \E m \in BOOLEAN : Dial(req[r].peer, m)
                BY <2>3 DEF DisconnectPeer, Connect, RawConnect, PanelRefused, CommandFails
            <4> QED BY <4>1, <1>0, <2>2, AsteriskTyped
        <3>3. req' \in [Requests -> {ReqIdle} \union Asking] /\ SavesEntry'
            <4>1. CASE Done(r)
                BY <4>1, <1>0, DoneTyped
            <4>2. CASE RequestAt(r, "track")
                <5>1. req' = [req EXCEPT ![r] = [req[r] EXCEPT !.pc = "track"]]
                    BY <4>2 DEF RequestAt
                <5>2. /\ [req[r] EXCEPT !.pc = "track"] \in Asking
                      /\ [req[r] EXCEPT !.pc = "track"].pc = "track"
                    BY <2>2 DEF Asking
                <5> QED BY <5>1, <5>2, <1>0 DEF LinksTypeOK, SavesEntry
            <4> QED BY <4>1, <4>2, <2>3
               DEF DisconnectPeer, Connect, RawConnect, PanelRefused, CommandFails
        <3> QED BY <3>1, <3>2, <3>3, <1>0, <2>0, <2>1 DEF LinkInv, LinksTypeOK
    <2>4. ASSUME Track(r) \/ Squash(r) \/ Restore(r) \/ ResetIdle(r) PROVE LinkInv'
        <3>1. UNCHANGED <<link, perm, keyed, row, permRow>> /\ req[r].pc = "track"
            BY <2>4 DEF Track, Squash, Restore, ResetIdle, Tracking, tables
        <3>2. conn[req[r].peer] \in Entries
            BY <1>0, <2>2 DEF LinksTypeOK
        <3>3. \/ Done(r) /\ UNCHANGED <<conn, ours>>
              \/ \E e \in Entries : e.tracked /\ Remember(r, e)
            <4>1. CASE Track(r)
                <5>1. Entry(req[r].op = "perm", FALSE, 0, FALSE) \in Entries
                      /\ Entry(req[r].op = "perm", FALSE, 0, FALSE).tracked
                    BY Entered
                <5> QED BY <4>1, <5>1 DEF Track
            <4>2. CASE Squash(r)
                <5>1. Entry(FALSE, TRUE, 0, FALSE) \in Entries /\ Entry(FALSE, TRUE, 0, FALSE).tracked
                    BY Entered
                <5>2. LET c == conn[req[r].peer] IN c.tracked =>
                        [c EXCEPT !.exempt = TRUE] \in Entries /\ [c EXCEPT !.exempt = TRUE].tracked
                    BY <3>2, Entered DEF Entries
                <5> QED BY <4>2, <5>1, <5>2 DEF Squash
            <4>3. CASE Restore(r)
                <5>1. LET c == conn[req[r].peer] IN (c.tracked /\ c.unsaved) \in BOOLEAN
                    OBVIOUS
                <5>2. LET c == conn[req[r].peer] IN
                        /\ Entry(FALSE, FALSE, 0, c.tracked /\ c.unsaved) \in Entries
                        /\ Entry(FALSE, FALSE, 0, c.tracked /\ c.unsaved).tracked
                    BY <5>1, Entered
                <5> QED BY <4>3, <5>2 DEF Restore
            <4>4. CASE ResetIdle(r)
                <5>1. LET c == conn[req[r].peer] IN c.tracked =>
                        [c EXCEPT !.age = 0] \in Entries /\ [c EXCEPT !.age = 0].tracked
                    BY <3>2, Entered DEF Entries
                <5> QED BY <4>4, <5>1 DEF ResetIdle
            <4> QED BY <4>1, <4>2, <4>3, <4>4, <2>4
        <3>4. /\ req' \in [Requests -> {ReqIdle} \union Asking] /\ SavesEntry'
              /\ conn' \in [Peers -> Entries] /\ ours' \subseteq Peers
            <4>1. CASE Done(r) /\ UNCHANGED <<conn, ours>>
                BY <4>1, <1>0, DoneTyped DEF LinksTypeOK
            <4>2. CASE \E e \in Entries : e.tracked /\ Remember(r, e)
                BY <4>2, <3>1, <1>0, RememberTyped
            <4> QED BY <3>3, <4>1, <4>2
        <3> QED BY <3>1, <3>4, <1>0, <2>0, <2>1 DEF LinkInv, LinksTypeOK
    <2>5. ASSUME Save(r) PROVE LinkInv'
        <3>1. UNCHANGED <<asteriskLinks, conn>> /\ Done(r) /\ req[r].pc = "save"
            BY <2>5 DEF Save
        <3>2. req[r].entry \in [tracked : {TRUE}, perm : BOOLEAN, exempt : BOOLEAN, age : Ages,
                                unsaved : BOOLEAN]
            BY <3>1, <2>2, <1>0, Entered DEF SavesEntry
        <3>3. Row(req[r].entry.exempt, req[r].entry.age) \in Rows
            BY <3>2, Entered
        <3>4. row' \in [Peers -> Rows] /\ permRow' \subseteq Peers
            BY <2>5, <3>3, <2>2, <1>0, Entered DEF Save, LinksTypeOK
        <3>5. req' \in [Requests -> {ReqIdle} \union Asking] /\ SavesEntry'
            BY <3>1, <1>0, DoneTyped
        <3> QED BY <3>1, <3>4, <3>5, <1>0, <2>0, <2>1 DEF LinkInv, LinksTypeOK, asteriskLinks
    <2> QED BY <1>3, <2>3, <2>4, <2>5 DEF Serve
<1>4. ASSUME NEW r \in Requests, NEW p \in Peers,
             NEW op \in Commands \union {"squash", "restore", "reset"}, StartRequest(r, op, p)
      PROVE  LinkInv'
    <2>1. /\ UNCHANGED <<asteriskLinks, conn, tables, prev, poller>>
          /\ budget' \in [requests : 0..MaxReq, restarts : 0..MaxRestarts]
        BY <1>0, <1>4, LimitAssumption DEF StartRequest, LinksTypeOK
    <2> DEFINE q == [pc |-> IF op \in Commands THEN "command" ELSE "track",
                     op |-> op, peer |-> p, entry |-> NoEntry]
    <2>2. q \in Asking /\ q.pc # "save"
        BY Entered DEF Asking
    <2>3. req' = [req EXCEPT ![r] = q]
        BY <1>4 DEF StartRequest
    <2>4. req' \in [Requests -> {ReqIdle} \union Asking] /\ SavesEntry'
        BY <2>2, <2>3, <1>0 DEF LinksTypeOK, SavesEntry
    <2>5. Settled'
        BY <1>0, <2>1, SettledKept DEF tables
    <2> QED BY <2>1, <2>4, <2>5, <1>0 DEF LinkInv, LinksTypeOK, asteriskLinks, tables
<1>5. CASE PollThread
    <2>0. UNCHANGED <<req, budget>>
        BY <1>5 DEF PollThread, PollRead, PollTrack, PollTouch, PollExpire, PollUnlock, PollHangup,
           HangupFails, PollOpens, PollCloses, PollPrunes, PollSaves, PollDeletes
    <2>1. SavesEntry'
        BY <1>0, <2>0 DEF SavesEntry
    <2>2. CASE PollRead
        <3>1. poller' \in Cycle
            BY <1>0, <2>2 DEF PollRead, Cycle, LinksTypeOK
        <3>a. /\ poller'.pc = "track" /\ open' = open /\ prev' = prev /\ unwritten' = unwritten
              /\ \A p \in Known : p \in open <=> p \in prev
              /\ poller'.all = {p \in Peers : link[p] # "down"}
              /\ poller'.est = {p \in Peers : link[p] = "up"}
            BY <1>0, <2>2 DEF PollRead, Cycle, Settled, tables
        <3>2. Settled'
            BY <3>a DEF Settled, Known
        <3> QED BY <3>1, <3>2, <2>0, <2>1, <2>2, <1>0
           DEF LinkInv, LinksTypeOK, PollRead, asteriskLinks, tables
    <2>3. CASE PollTrack
        <3>1. poller' \in Cycle /\ prev' \subseteq Peers /\ conn' \in [Peers -> Entries]
            BY <1>0, <2>3, Entered DEF PollTrack, StillOpen, Cycle, LinksTypeOK
        <3>2. /\ poller'.pc = "touch" /\ poller'.opens = poller.est \ prev
              /\ poller'.closes = prev \ poller.all /\ open' = open /\ unwritten' = unwritten
              /\ prev' = (prev \union poller.est) \intersect poller.all
            BY <1>0, <2>3 DEF PollTrack, StillOpen, Cycle, tables
        <3>3. (\A p \in Known : p \in open <=> p \in prev) /\ poller.est \subseteq poller.all
            BY <1>0, <2>3 DEF PollTrack, Settled
        <3>4. Settled'
            BY <3>2, <3>3 DEF Settled, Known
        <3> QED BY <3>1, <3>4, <2>0, <2>1, <2>3, <1>0
           DEF LinkInv, LinksTypeOK, PollTrack, asteriskLinks, tables
    <2>4. CASE PollTouch
        <3>1. ASSUME NEW p \in Peers, Timed(p)
              PROVE  /\ [conn[p] EXCEPT !.age = 0, !.unsaved = TRUE] \in Entries
                     /\ [conn[p] EXCEPT !.unsaved = FALSE] \in Entries
                     /\ Row(FALSE, conn[p].age) \in Rows
            <4>1. conn[p] \in [tracked : {TRUE}, perm : BOOLEAN, exempt : BOOLEAN, age : Ages,
                               unsaved : BOOLEAN]
                BY <1>0, <3>1, Entered DEF Timed, LinksTypeOK
            <4> QED BY <4>1, Entered DEF Entries
        <3>2. conn' \in [Peers -> Entries]
            BY <1>0, <2>4, <3>1 DEF PollTouch, LinksTypeOK
        <3>3. PICK s \in [Peers -> Rows] :
                 poller' = [poller EXCEPT !.pc = "expire", !.keyed = {}, !.saves = s]
            <4> DEFINE quiet == {p \in Peers : Timed(p) /\ p \notin poller.keyed /\ conn[p].unsaved}
            <4>1. [p \in Peers |-> IF p \in quiet THEN Row(FALSE, conn[p].age) ELSE NoEntry]
                    \in [Peers -> Rows]
                BY <3>1, Entered
            <4> QED BY <4>1, <2>4 DEF PollTouch
        <3>4. poller' \in Cycle /\ Settled'
            BY <3>3, <2>4, <1>0 DEF PollTouch, Cycle, Settled, Known, tables
        <3> QED BY <3>2, <3>4, <2>0, <2>1, <2>4, <1>0
           DEF LinkInv, LinksTypeOK, PollTouch, asteriskLinks, tables
    <2>5. CASE PollExpire
        <3>1. Forgotten \subseteq Peers /\ Overdue \subseteq Peers
            BY DEF Forgotten, Overdue
        <3>2. poller' \in Cycle /\ Settled' /\ conn' \in [Peers -> Entries]
            BY <3>1, <2>5, <1>0, Entered DEF PollExpire, Cycle, Settled, Known, tables, LinksTypeOK
        <3> QED BY <3>2, <2>0, <2>1, <2>5, <1>0
           DEF LinkInv, LinksTypeOK, PollExpire, asteriskLinks, tables
    <2>6. ASSUME NEW p \in Peers, PollHangup(p) \/ HangupFails(p) PROVE LinkInv'
        <3>1. poller' \in Cycle /\ Settled'
            BY <2>6, <1>0 DEF PollHangup, HangupFails, Cycle, Settled, Known, tables
        <3>2. UNCHANGED asteriskLinks \/ Ilink1(p)
            BY <2>6 DEF PollHangup, HangupFails
        <3>3. /\ link' \in [Peers -> {"down", "dialing", "up"}]
              /\ perm' \subseteq Peers /\ keyed' \subseteq Peers /\ ours' \subseteq Peers
            BY <3>2, <1>0, AsteriskTyped
        <3> QED BY <3>1, <3>3, <2>0, <2>1, <2>6, <1>0
           DEF LinkInv, LinksTypeOK, PollHangup, HangupFails, tables
    <2>7. CASE PollUnlock
        <3>1. poller' \in Cycle /\ UNCHANGED <<asteriskLinks, conn, tables, prev>>
            BY <2>7, <1>0 DEF PollUnlock, PollStep, Cycle
        <3>2. /\ poller.pc = "hangup" /\ poller'.pc = "opens" /\ UNCHANGED <<open, unwritten, prev>>
              /\ poller'.opens = poller.opens /\ poller'.closes = poller.closes
            BY <2>7, <1>0 DEF PollUnlock, PollStep, Cycle, tables
        <3>3. Settled'
            BY <3>2, <1>0 DEF Settled, Known
        <3> QED BY <3>1, <3>3, <2>0, <2>1, <1>0 DEF LinkInv, LinksTypeOK, asteriskLinks, tables
    <2>9. CASE PollOpens
        <3>1. PICK done \in SUBSET poller.opens :
                 /\ poller.pc = "opens" /\ poller' = [poller EXCEPT !.pc = "closes", !.opens = {}]
                 /\ open' = open \union done
                 /\ unwritten' = (unwritten \ done) \union (poller.opens \ done)
                 /\ UNCHANGED <<asteriskLinks, conn, row, permRow, prev>>
            BY <2>9 DEF PollOpens, Written, NotWritten
        <3>2. poller' \in Cycle /\ open' \subseteq Peers /\ unwritten' \subseteq Peers
            BY <3>1, <1>0 DEF Cycle, LinksTypeOK
        <3>3. /\ poller'.pc = "closes" /\ poller'.closes = poller.closes /\ prev' = prev
              /\ poller.opens \subseteq prev /\ poller.closes \intersect prev = {}
              /\ \A p \in Known : p \in prev <=> (p \in open \/ p \in poller.opens) /\ p \notin poller.closes
            BY <3>1, <1>0 DEF Cycle, Settled
        <3>4. Settled'
            BY <3>1, <3>3 DEF Settled, Known
        <3> QED BY <3>1, <3>2, <3>4, <2>0, <2>1, <1>0 DEF LinkInv, LinksTypeOK, asteriskLinks
    <2>10. CASE PollCloses
        <3>1. PICK done \in SUBSET poller.closes :
                 /\ poller.pc = "closes" /\ poller' = [poller EXCEPT !.pc = "prunes"]
                 /\ open' = open \ done
                 /\ unwritten' = (unwritten \ done) \union (poller.closes \ done)
                 /\ UNCHANGED <<asteriskLinks, conn, row, permRow, prev>>
            BY <2>10 DEF PollCloses, PollStep, Written, NotWritten
        <3>2. poller' \in Cycle /\ open' \subseteq Peers /\ unwritten' \subseteq Peers
            BY <3>1, <1>0 DEF Cycle, LinksTypeOK
        <3>3. /\ poller'.pc = "prunes" /\ prev' = prev /\ poller.closes \intersect prev = {}
              /\ \A p \in Known : p \in prev <=> p \in open /\ p \notin poller.closes
            BY <3>1, <1>0 DEF Cycle, Settled
        <3>4. Settled'
            BY <3>1, <3>3 DEF Settled, Known
        <3> QED BY <3>1, <3>2, <3>4, <2>0, <2>1, <1>0 DEF LinkInv, LinksTypeOK, asteriskLinks
    <2>8. CASE PollPrunes \/ PollSaves \/ PollDeletes
        <3>1. /\ poller' \in Cycle /\ poller'.pc \in {"saves", "deletes", "idle"}
              /\ poller.pc \in {"prunes", "saves", "deletes"}
              /\ (poller.pc = "prunes" => poller'.closes = {})
            <4>1. CASE PollPrunes
                BY <4>1, <1>0 DEF PollPrunes, Cycle
            <4>2. CASE PollSaves
                <5>1. PollIdle.saves \in [Peers -> Rows]
                    BY IdleTyped DEF Cycle
                <5> QED BY <4>2, <5>1, <1>0 DEF PollSaves, Cycle
            <4>3. CASE PollDeletes
                <5>1. PollIdle.pc = "idle"
                    BY DEF PollIdle
                <5> QED BY <4>3, <5>1, IdleTyped DEF PollDeletes
            <4> QED BY <2>8, <4>1, <4>2, <4>3
        <3>2. row' \in [Peers -> Rows] /\ permRow' \subseteq Peers
            <4>1. CASE PollPrunes
                <5>1. PICK done : /\ permRow' = permRow \ done
                                  /\ row' = [p \in Peers |-> IF p \in done THEN NoEntry ELSE row[p]]
                    BY <4>1 DEF PollPrunes
                <5> QED BY <5>1, <1>0, Entered DEF LinksTypeOK
            <4>2. CASE PollSaves
                <5>1. PICK done : /\ row' = [p \in Peers |-> IF p \in done THEN poller.saves[p]
                                                             ELSE row[p]]
                                  /\ permRow' = permRow
                    BY <4>2 DEF PollSaves
                <5> QED BY <5>1, <1>0, Entered DEF Cycle, LinksTypeOK
            <4>3. CASE PollDeletes
                <5>1. PICK done : /\ row' = [p \in Peers |-> IF p \in done THEN NoEntry ELSE row[p]]
                                  /\ permRow' = permRow
                    BY <4>3 DEF PollDeletes
                <5> QED BY <5>1, <1>0, Entered DEF LinksTypeOK
            <4> QED BY <2>8, <4>1, <4>2, <4>3
        <3>3. UNCHANGED <<asteriskLinks, conn, open, unwritten, prev>>
            BY <2>8 DEF PollPrunes, PollSaves, PollDeletes
        <3>4. Settled'
            BY <3>1, <3>3, <1>0 DEF Settled, Known
        <3> QED BY <3>1, <3>2, <3>3, <3>4, <2>0, <2>1, <1>0 DEF LinkInv, LinksTypeOK, asteriskLinks
    <2> QED BY <1>5, <2>2, <2>3, <2>4, <2>5, <2>6, <2>7, <2>8, <2>9, <2>10 DEF PollThread
<1>6. CASE Restart
    <2>1. ASSUME NEW p \in Peers, NEW perms \in BOOLEAN, NEW temps \in BOOLEAN
          PROVE  Rehydrated(p, perms, temps) \in Entries
        <3>1. row[p].tracked => row[p] \in [tracked : {TRUE}, exempt : BOOLEAN, age : Ages]
            BY <1>0, Entered DEF LinksTypeOK
        <3> QED BY <3>1, Entered DEF Rehydrated
    <2>2. conn' \in [Peers -> Entries]
        <3>1. PICK perms \in BOOLEAN, temps \in BOOLEAN :
                 conn' = [p \in Peers |-> Rehydrated(p, perms, temps)]
            BY <1>6 DEF Restart
        <3> QED BY <2>1, <3>1
    <2>3. poller' \in Cycle /\ budget' \in [requests : 0..MaxReq, restarts : 0..MaxRestarts]
        BY <1>0, <1>6, IdleTyped, LimitAssumption DEF Restart, LinksTypeOK
    <2>4. req' \in [Requests -> {ReqIdle} \union Asking] /\ SavesEntry'
        BY <1>6, IdleTyped DEF Restart, SavesEntry
    <2>5. /\ prev' = {} /\ poller'.pc = "idle" /\ open' \subseteq Peers /\ unwritten' \subseteq Peers
          /\ \A p \in Peers \ unwritten' : p \notin open'
        BY <1>6, <1>0 DEF Restart, PollIdle, LinksTypeOK
    <2>6. Settled'
        BY <2>5 DEF Settled, Known
    <2> QED BY <2>2, <2>3, <2>4, <2>5, <2>6, <1>0, <1>6 DEF LinkInv, LinksTypeOK, Restart, asteriskLinks
<1>7. CASE UNCHANGED linkVars
    BY <1>0, <1>7 DEF linkVars, LinkInv, LinksTypeOK, Settled, Known, SavesEntry
<1> QED BY <1>1, <1>2, <1>3, <1>4, <1>5, <1>6, <1>7 DEF LinksNext

LEMMA LinkInvariance == LinksSpec => []LinkInv
BY InitLinkInv, NextLinkInv, PTL DEF LinksSpec

(* The table of timed links, its copy in the database, the requests and    *)
(* the poller's cycle keep their shape, and no age outgrows its cap.       *)
THEOREM LinksTypes == LinksSpec => []LinksTypeOK
<1>1. LinkInv => LinksTypeOK
    BY DEF LinkInv
<1> QED BY <1>1, LinkInvariance, PTL

(* _poll_loop and connection_history: however many requests and restarts   *)
(* come between and whichever writes fail, each cycle ends with an open    *)
(* row for exactly the peers it counts as connected, those left out whose  *)
(* own last write failed.                                                  *)
THEOREM HistoryIsWhole == LinksSpec => []HistoryMatches
<1>1. LinkInv => HistoryMatches
    BY DEF LinkInv, Settled, Known, HistoryMatches
<1> QED BY <1>1, LinkInvariance, PTL

(* The poller's hangups: the idle pass ends no permanent link, and nobody  *)
(* else ends one while it is at it.                                        *)
THEOREM PermanentLinksStay == LinksSpec => PermanentSurvivesIdle
<1>1. ASSUME [LinksNext]_linkVars PROVE [HangupSpares]_linkVars
    <2> SUFFICES ASSUME LinksNext, poller.pc = "hangup" PROVE perm \subseteq perm'
        BY <1>1 DEF HangupSpares, linkVars
    <2>1. CASE UNCHANGED perm
        BY <2>1
    <2>2. ASSUME NEW p \in Peers, PollHangup(p) PROVE perm \subseteq perm'
        BY <2>2 DEF PollHangup, Ilink1, Hangup, asteriskLinks
    <2>3. ASSUME NEW r \in Requests, Serve(r) PROVE perm \subseteq perm'
        <3>1. Locked
            BY DEF Locked
        <3>2. Track(r) \/ Squash(r) \/ Restore(r) \/ ResetIdle(r) \/ Save(r)
            BY <2>3, <3>1
               DEF Serve, DisconnectPeer, Connect, RawConnect, PanelRefused, CommandFails, Commanding
        <3> QED BY <3>2 DEF Track, Squash, Restore, ResetIdle, Save, Tracking, asteriskLinks
    <2>4. (\E p \in Peers : PollHangup(p)) \/ (\E r \in Requests : Serve(r)) \/ UNCHANGED perm
        BY
           DEF LinksNext, Establish, Drop, Inbound, Key, Tick, Restart, StartRequest, asteriskLinks, PollThread,
           PollRead, PollTrack, PollTouch, PollExpire, PollUnlock, HangupFails, PollOpens, PollCloses,
           PollPrunes, PollSaves, PollDeletes
    <2> QED BY <2>1, <2>2, <2>3, <2>4
<1> QED BY <1>1, PTL DEF LinksSpec, PermanentSurvivesIdle

-----------------------------------------------------------------------------
(***************************************************************************)
(* StationId.  What the runtime state, and the copy a pass works on, say   *)
(* of the ID on the air and of the time in use since the last one.         *)
(***************************************************************************)
Faulty == MaxFaults - idBudget.faults
InUse == Required + (1 + Delay) * Faulty   \* while the node is active

(* The guard covers what is left of the sound that started it.             *)
Fits(r) == r.gmax > 0 => r.last + r.gmax <= Sound + Grace
(* The clock runs from the last ID, or from a key-up long after it, and    *)
(* the time in use is not ahead of it by more than one pass.               *)
Dated(r) ==
    /\ r.state = "idle" <=> r.since = NotSince
    /\ unid <= r.last
    /\ r.since <= Required /\ r.last > r.since + Required => unid <= r.since + 1

(* What a pass finds.                                                      *)
Found(r) ==
    /\ r.state = "active" => unid <= InUse + 1
    /\ r.state = "pending" => unid <= InUse + 1 + r.quiet

(* What a pass leaves.                                                     *)
Left ==
    /\ user => unid <= InUse
    /\ rt.state = "active" => unid <= InUse
    /\ rt.state = "pending" => unid <= InUse \/ (rt.quiet < Delay /\ unid <= InUse + 1 + rt.quiet)
    /\ rt.state = "idle" /\ rt.last >= Required => ~user \/ unid = 0

(* An exchange begins with the node unused until this pass, or with an ID. *)
Fresh(r, initial) == r.state = "idle" /\ r.last > Required => unid <= 1 \/ initial

(* The copy and the runtime state while a pass is under way.               *)
Working == pass.pc = "store" =>
    /\ ~time /\ (~pass.active => ~user)
    /\ Fits(pass.rt) /\ Dated(pass.rt) /\ Found(pass.rt) /\ Fresh(pass.rt, pass.initial)
    /\ rt.state = "none" \/ rt = pass.rt \/ (rt.last = 0 /\ unid = 0)

(* Our own ID on the air is guarded against, unless the guard was lost.    *)
OnGuard ==
    /\ user => heard
    /\ ~lost /\ air > 0 => /\ rt.state # "none" => air <= rt.gmax
                           /\ rt.state = "none" => ~idRow.there
    /\ pass.pc = "store" =>
          /\ pass.active => lost \/ user \/ pass.rt.gmax > 0
          /\ air > 0 /\ rt.state # "none" => pass.active \/ rt.gmin > 0

Counted ==
    /\ unid <= idRow.last /\ unid <= InUse + 1 + Delay
    /\ rt.state # "none" => Fits(rt) /\ Dated(rt)
    /\ time => Left
    /\ ~time /\ pass.pc = "idle" /\ rt.state # "none" => Found(rt) /\ Fresh(rt, FALSE)

IdInv == IdTypeOK /\ OnGuard /\ Working /\ Counted

LEMMA Units ==
    /\ Required \in Nat \ {0} /\ Interval \in 1..Required /\ Delay \in Nat \ {0} /\ Sound \in Nat
    /\ Grace \in Nat /\ Sound + Grace \in Nat /\ Sound + Grace <= Required /\ MaxFaults \in Nat
    /\ Never \in Nat /\ Never = 2 * Required + 2 /\ NotSince \in Nat /\ NotSince = Required + 2
    /\ Required + 1 \in 0..NotSince /\ 0 \in 0..NotSince /\ 0 \in 0..Never /\ 0 \in 0..Delay
    /\ 0 \in 0..Sound + Grace /\ Sound + Grace \in 0..Sound + Grace /\ NotSince \in 0..NotSince
    /\ Sound <= Sound + Grace /\ Sound \in 0..Sound /\ 0 \in 0..Sound
BY IdAssumption DEF Never, NotSince

(* A failed play stretches the time in use by a pass and a pause.          *)
LEMMA Stretch ==
    ASSUME NEW f \in Nat
    PROVE  (1 + Delay) * f \in Nat /\ (1 + Delay) * (1 + f) = (1 + Delay) * f + 1 + Delay
<1>1. Delay \in Nat
    BY Units
<1> QED BY <1>1

LEMMA Bounds ==
    ASSUME IdTypeOK
    PROVE  /\ Faulty \in Nat /\ InUse \in Nat /\ Required <= InUse /\ unid \in Nat /\ idRow.last \in Nat
           /\ InUse + 1 + Delay = Required + (1 + Delay) * (1 + MaxFaults - idBudget.faults)
<1>1. /\ idBudget.faults \in 0..MaxFaults /\ MaxFaults \in Nat
      /\ idBudget.faults \in Nat /\ idBudget.faults <= MaxFaults
    BY Units DEF IdTypeOK
<1>2. Faulty \in Nat /\ 1 + MaxFaults - idBudget.faults = 1 + Faulty
    BY <1>1 DEF Faulty
<1>3. (1 + Delay) * Faulty \in Nat /\ (1 + Delay) * (1 + Faulty) = (1 + Delay) * Faulty + 1 + Delay
    BY <1>2, Stretch
<1>4. unid \in Nat /\ idRow.last \in Nat
    BY Units DEF IdTypeOK
<1>5. InUse = Required + (1 + Delay) * Faulty
    BY DEF InUse
<1>6. InUse \in Nat /\ Required <= InUse
    <2> DEFINE x == (1 + Delay) * Faulty
    <2>1. x \in Nat /\ InUse = Required + x
        BY <1>3, <1>5
    <2> HIDE DEF x
    <2> QED BY <2>1, Units
<1>7. InUse + 1 + Delay = Required + (1 + Delay) * (1 + Faulty)
    <2> DEFINE x == (1 + Delay) * Faulty
    <2>1. x \in Nat /\ InUse = Required + x /\ (1 + Delay) * (1 + Faulty) = x + 1 + Delay
        BY <1>3, <1>5
    <2> HIDE DEF x
    <2>2. InUse + 1 + Delay = Required + (x + 1 + Delay)
        BY <2>1, Units
    <2> QED BY <2>1, <2>2
<1> QED BY <1>2, <1>4, <1>6, <1>7

LEMMA FaultBounds ==
    ASSUME IdTypeOK, IdTypeOK', idBudget'.faults = idBudget.faults - 1
    PROVE  InUse' = InUse + 1 + Delay
<1>1. /\ idBudget.faults \in Nat /\ MaxFaults \in Nat /\ Faulty \in Nat
    BY Units, Bounds DEF IdTypeOK
<1>2. Faulty' = 1 + Faulty
    BY <1>1 DEF Faulty
<1>3. (1 + Delay) * (1 + Faulty) = (1 + Delay) * Faulty + 1 + Delay /\ (1 + Delay) * Faulty \in Nat
    BY <1>1, Stretch
<1>4. InUse' = Required + (1 + Delay) * (1 + Faulty) /\ InUse = Required + (1 + Delay) * Faulty
    BY <1>2 DEF InUse
<1> DEFINE x == (1 + Delay) * Faulty
<1>5. x \in Nat /\ InUse = Required + x /\ InUse' = Required + (x + 1 + Delay)
    BY <1>3, <1>4
<1> HIDE DEF x
<1> QED BY <1>5, Units

LEMMA SameBounds == ASSUME idBudget'.faults = idBudget.faults PROVE InUse' = InUse
BY DEF InUse, Faulty

LEMMA RunKinds ==
    ASSUME IdTypeOK
    PROVE  /\ rt.state = "none" => rt = NoRuntime
           /\ rt.state # "none" => rt \in Runtimes
           /\ pass.pc = "store" => pass \in Passes /\ pass.rt \in Runtimes /\ pass.rt.state # "none"
           /\ pass.pc # "store" => pass = NoPass
           /\ pass.pc = "idle" => pass = NoPass
           /\ NoRuntime.state = "none" /\ NoPass.pc = "idle"
BY DEF IdTypeOK, NoRuntime, NoPass, Runtimes, Passes

LEMMA RunFields ==
    ASSUME NEW r \in Runtimes
    PROVE  /\ r.last \in 0..Never /\ r.since \in 0..NotSince /\ r.quiet \in 0..Delay /\ r.gmin \in 0..1
           /\ r.gmax \in 0..Sound + Grace /\ r.last \in Nat /\ r.since \in Nat /\ r.quiet \in Nat
           /\ r.gmin \in Nat /\ r.gmax \in Nat /\ r.last <= Never /\ r.since <= NotSince
           /\ r.quiet <= Delay /\ r.gmax <= Sound + Grace
           /\ r.state \in {"idle", "active", "pending"}
BY Units DEF Runtimes

LEMMA NewTyped ==
    ASSUME IdTypeOK
    PROVE  /\ NewRuntime \in Runtimes /\ NewRuntime.state = "idle" /\ NewRuntime.last = idRow.last
           /\ NewRuntime.since = NotSince /\ NewRuntime.quiet = 0 /\ NewRuntime.gmax = 0
           /\ NewRuntime.gmin = 0
BY Units DEF IdTypeOK, NewRuntime, Runtimes

LEMMA AgedTyped ==
    ASSUME NEW r \in Runtimes
    PROVE  /\ Aged(r) \in Runtimes /\ Aged(r).state = r.state
           /\ Aged(r).last = AtMost(r.last + 1, Never)
           /\ Aged(r).since = IF r.since = NotSince THEN NotSince ELSE AtMost(r.since + 1, Required + 1)
           /\ Aged(r).quiet = IF r.state = "pending" THEN AtMost(r.quiet + 1, Delay) ELSE 0
           /\ Aged(r).gmax = Less(r.gmax) /\ Aged(r).gmin = Less(r.gmin)
<1>1. r.state # "none"
    BY DEF Runtimes
<1>2. /\ AtMost(r.last + 1, Never) \in 0..Never
      /\ AtMost(r.since + 1, Required + 1) \in 0..NotSince
      /\ AtMost(r.quiet + 1, Delay) \in 0..Delay
      /\ Less(r.gmax) \in 0..Sound + Grace /\ Less(r.gmin) \in 0..1
    BY Units, RunFields DEF AtMost, Less
<1>3. Aged(r) = [r EXCEPT !.last = AtMost(r.last + 1, Never),
                          !.since = IF r.since = NotSince THEN r.since ELSE AtMost(r.since + 1, Required + 1),
                          !.quiet = IF r.state = "pending" THEN AtMost(r.quiet + 1, Delay) ELSE 0,
                          !.gmin = Less(r.gmin), !.gmax = Less(r.gmax)]
    BY <1>1 DEF Aged, Runtimes
<1> DEFINE l == AtMost(r.last + 1, Never)
           s == IF r.since = NotSince THEN r.since ELSE AtMost(r.since + 1, Required + 1)
           q == IF r.state = "pending" THEN AtMost(r.quiet + 1, Delay) ELSE 0
           a == Less(r.gmin)
           b == Less(r.gmax)
<1>4. s \in 0..NotSince /\ q \in 0..Delay
    BY <1>2, Units
<1>5. l \in 0..Never /\ a \in 0..1 /\ b \in 0..Sound + Grace
    BY <1>2
<1>6. Aged(r) = [r EXCEPT !.last = l, !.since = s, !.quiet = q, !.gmin = a, !.gmax = b]
    BY <1>3
<1> HIDE DEF l, s, q, a, b
<1>7. /\ Aged(r) \in Runtimes /\ Aged(r).state = r.state /\ Aged(r).last = l /\ Aged(r).since = s
      /\ Aged(r).quiet = q /\ Aged(r).gmin = a /\ Aged(r).gmax = b
    BY <1>4, <1>5, <1>6 DEF Runtimes
<1> QED BY <1>7 DEF l, s, q, a, b

LEMMA OpenedTyped ==
    ASSUME NEW r \in Runtimes
    PROVE  /\ Opened(r) \in Runtimes /\ Opened(r).state = r.state /\ Opened(r).last = r.last
           /\ Opened(r).since = r.since /\ Opened(r).quiet = r.quiet /\ Opened(r).gmax = 0
BY Units DEF Opened, Runtimes

LEMMA MarkedTyped ==
    ASSUME NEW r \in Runtimes
    PROVE  /\ Marked(r) \in Runtimes /\ Marked(r).state = r.state /\ Marked(r).last = 0
           /\ Marked(r).since = r.since /\ Marked(r).gmin = 1 /\ Marked(r).gmax = Sound + Grace
<1>1. 0 \in 0..Never /\ 1 \in 0..1 /\ Sound + Grace \in 0..Sound + Grace
    BY Units
<1> DEFINE x == Sound + Grace
<1>2. Marked(r) = [r EXCEPT !.last = 0, !.gmin = 1, !.gmax = x]
    BY DEF Marked
<1>3. r \in [state : {"idle", "active", "pending"}, last : 0..Never, since : 0..NotSince,
             quiet : 0..Delay, gmin : 0..1, gmax : 0..x] /\ x \in 0..x
    BY <1>1 DEF Runtimes
<1>4. Runtimes = [state : {"idle", "active", "pending"}, last : 0..Never, since : 0..NotSince,
             quiet : 0..Delay, gmin : 0..1, gmax : 0..x]
    BY DEF Runtimes
<1> HIDE DEF x
<1>5. Marked(r) \in Runtimes /\ Marked(r).gmax = x
    BY <1>1, <1>2, <1>3, <1>4
<1>6. Marked(r).state = r.state /\ Marked(r).last = 0 /\ Marked(r).since = r.since /\ Marked(r).gmin = 1
    BY <1>2, <1>3
<1> QED BY <1>5, <1>6 DEF x

LEMMA OverTyped ==
    ASSUME NEW r \in Runtimes
    PROVE  /\ Over(r) \in Runtimes
           /\ \/ Over(r).state = r.state /\ Over(r).since = r.since
              \/ Over(r).state = "idle" /\ Over(r).since = NotSince
           /\ Over(r).state = "active" => r.state = "active"
<1>1. 0 \in 0..Delay /\ NotSince \in 0..NotSince
    BY Units
<1>2. CASE Over(r) = r
    BY <1>2
<1>3. CASE Over(r) = [r EXCEPT !.state = "idle", !.quiet = 0, !.since = NotSince]
    BY <1>1, <1>3 DEF Runtimes
<1> QED BY <1>2, <1>3 DEF Over

(* What a pass makes of a copy whose guard is open.                        *)
LEMMA OutcomeTyped ==
    ASSUME NEW r \in Runtimes
    PROVE  /\ Outcome(r).rt \in Runtimes /\ Outcome(r).rt.last = r.last /\ Outcome(r).rt.gmax = r.gmax
           /\ pass.active => /\ Outcome(r).rt.state = "active"
                             /\ r.state = "idle" => /\ Outcome(r).rt.since = 0
                                                    /\ Outcome(r).play <=> pass.initial /\ ~Recent(r)
                             /\ r.state # "idle" =>
                                  /\ Outcome(r).rt.since = IF r.since = NotSince THEN 0 ELSE r.since
                                  /\ Outcome(r).play <=> Clock(Outcome(r).rt) >= pass.every
           /\ ~pass.active => /\ Outcome(r).rt.since = r.since /\ Outcome(r).rt.state # "active"
                              /\ Outcome(r).rt.state = "idle" <=> r.state = "idle"
                              /\ r.state = "active" => Outcome(r).rt.quiet = 0
                              /\ r.state = "pending" => /\ Outcome(r).rt = r
                                                        /\ Outcome(r).play <=> r.quiet >= Delay
<1>0. r.state \in {"idle", "active", "pending"}
    BY RunFields
<1>1. CASE pass.active /\ r.state = "idle"
    <2>1. /\ Outcome(r).rt = [r EXCEPT !.state = "active", !.since = 0, !.quiet = 0]
          /\ Outcome(r).play = (pass.initial /\ ~Recent(r))
        BY <1>1 DEF Outcome
    <2>2. 0 \in 0..NotSince /\ 0 \in 0..Delay
        BY Units
    <2>3. /\ Outcome(r).rt \in Runtimes /\ Outcome(r).rt.last = r.last /\ Outcome(r).rt.gmax = r.gmax
          /\ Outcome(r).rt.state = "active" /\ Outcome(r).rt.since = 0
        BY <2>1, <2>2 DEF Runtimes
    <2> QED BY <1>1, <2>1, <2>3
<1>2. CASE pass.active /\ r.state # "idle"
    <2> DEFINE s == [r EXCEPT !.state = "active", !.quiet = 0,
                              !.since = IF @ = NotSince THEN 0 ELSE @]
    <2>1. Outcome(r).rt = s /\ Outcome(r).play = (Clock(s) >= pass.every)
        BY <1>2 DEF Outcome
    <2>2. /\ s \in Runtimes /\ s.last = r.last /\ s.gmax = r.gmax /\ s.state = "active"
          /\ s.since = IF r.since = NotSince THEN 0 ELSE r.since
        BY Units DEF Runtimes
    <2> HIDE DEF s
    <2> QED BY <1>2, <2>1, <2>2
<1>3. CASE ~pass.active /\ r.state = "active"
    <2>1. Outcome(r).rt = [r EXCEPT !.state = "pending", !.quiet = 0]
        BY <1>3 DEF Outcome
    <2> QED BY <1>3, <2>1, Units DEF Runtimes
<1>4. CASE ~pass.active /\ r.state # "active"
    <2>1. /\ Outcome(r).rt = r
          /\ Outcome(r).play = (r.state = "pending" /\ r.quiet >= Delay)
        BY <1>4 DEF Outcome
    <2>2. r.state = "pending" => (Outcome(r).play <=> r.quiet >= Delay)
        BY <2>1, Zenon
    <2>3. r.state \in {"idle", "pending"}
        BY <1>0, <1>4
    <2> QED BY <1>4, <2>1, <2>2, <2>3
<1> QED BY <1>1, <1>2, <1>3, <1>4

LEMMA InitIdInv == IdInit => IdInv
<1> SUFFICES ASSUME IdInit PROVE IdInv
    OBVIOUS
<1>1. IdTypeOK
    <2>1. Never \in 0..Never /\ 0 \in 0..Never /\ 0 \in 0..Sound
        BY Units
    <2>2. MaxIdReq \in 0..MaxIdReq /\ MaxFaults \in 0..MaxFaults
        BY IdAssumption
    <2> QED BY <2>1, <2>2 DEF IdInit, IdTypeOK
<1>2. rt.state = "none" /\ pass.pc = "idle"
    BY DEF IdInit, NoRuntime, NoPass
<1>3. OnGuard /\ Working
    BY <1>2 DEF IdInit, OnGuard, Working
<1>4. Counted
    <2>1. unid = 0 /\ ~time /\ idRow.last \in Nat /\ InUse \in Nat
        BY <1>1, Bounds DEF IdInit
    <2> QED BY <1>2, <2>1, Units DEF Counted
<1> QED BY <1>1, <1>3, <1>4 DEF IdInv

LEMMA IdTickInv == ASSUME IdInv, IdTick PROVE IdInv'
<1>0. /\ IdTypeOK /\ OnGuard /\ Working /\ Counted /\ Left /\ time /\ ~time' /\ time' = FALSE
      /\ UNCHANGED <<pass, user, heard, lost, idBudget>> /\ rt' = Aged(rt) /\ air' = Less(air)
      /\ idRow' = [idRow EXCEPT !.last = AtMost(@ + 1, Never)]
      /\ unid' = IF user \/ rt.state \in {"active", "pending"} THEN AtMost(unid + 1, Never) ELSE 0
    BY DEF IdInv, IdTick, Counted
<1>1. pass.pc # "store" /\ pass'.pc # "store" /\ pass' = NoPass /\ NoPass.pc = "idle"
    BY <1>0, RunKinds DEF Working
<1>n. /\ unid \in Nat /\ idRow.last \in Nat /\ InUse \in Nat /\ InUse' = InUse /\ Required <= InUse
      /\ air \in Nat /\ idRow.last <= Never /\ unid <= Never /\ air <= Sound
    BY <1>0, Bounds, SameBounds, Units DEF IdTypeOK
<1>2. IdTypeOK'
    <2>1. rt' \in {NoRuntime} \union Runtimes
        <3>1. CASE rt.state = "none"
            BY <3>1, <1>0, RunKinds DEF Aged
        <3>2. CASE rt.state # "none"
            BY <3>2, <1>0, RunKinds, AgedTyped
        <3> QED BY <3>1, <3>2
    <2>2. unid' \in 0..Never /\ AtMost(idRow.last + 1, Never) \in 0..Never /\ air' \in 0..Sound
        BY <1>0, <1>n, Units DEF AtMost, Less
    <2>3. idRow' \in [there : BOOLEAN, enabled : BOOLEAN, initial : BOOLEAN,
                      every : {Interval, Required}, last : 0..Never]
        BY <2>2, <1>0 DEF IdTypeOK
    <2> QED BY <2>1, <2>2, <2>3, <1>0 DEF IdTypeOK
<1>3. idRow'.last = AtMost(idRow.last + 1, Never) /\ idRow'.there = idRow.there
    BY <1>0 DEF IdTypeOK
<1>4. rt.state = "none" => rt' = rt
    BY <1>0 DEF Aged
<1>5. rt.state # "none" =>
      /\ rt \in Runtimes /\ rt' \in Runtimes /\ rt'.state = rt.state
      /\ rt'.last = AtMost(rt.last + 1, Never)
      /\ rt'.since = (IF rt.since = NotSince THEN NotSince ELSE AtMost(rt.since + 1, Required + 1))
      /\ rt'.quiet = (IF rt.state = "pending" THEN AtMost(rt.quiet + 1, Delay) ELSE 0)
      /\ rt'.gmax = Less(rt.gmax)
    BY <1>0, RunKinds, AgedTyped
<1>6. OnGuard'
    <2>1. rt.state = "none" => rt'.state = "none"
        BY <1>4
    <2>2. ASSUME ~lost, air' > 0 PROVE /\ rt'.state # "none" => air' <= rt'.gmax
                                       /\ rt'.state = "none" => ~idRow'.there
        <3>1. air > 0
            BY <2>2, <1>0, <1>n DEF Less
        <3>2. CASE rt.state = "none"
            BY <3>1, <3>2, <2>1, <2>2, <1>0, <1>3 DEF OnGuard
        <3>3. CASE rt.state # "none"
            <4>1. air <= rt.gmax /\ rt.gmax \in Nat
                BY <3>1, <3>3, <2>2, <1>0, <1>5, RunFields DEF OnGuard
            <4>2. air' <= rt'.gmax
                BY <4>1, <3>3, <1>0, <1>5, <1>n DEF Less
            <4> QED BY <4>2, <3>3, <1>5
        <3> QED BY <3>2, <3>3
    <2> QED BY <2>2, <1>0, <1>1 DEF OnGuard
<1>7. ASSUME rt.state # "none"
      PROVE  Fits(rt)' /\ Dated(rt)' /\ Found(rt)' /\ Fresh(rt, FALSE)'
    <2>0. /\ rt.last \in Nat /\ rt.since \in Nat /\ rt.quiet \in Nat /\ rt.gmax \in Nat
          /\ rt.last <= Never /\ rt.since <= NotSince /\ rt.quiet <= Delay
          /\ rt.state \in {"idle", "active", "pending"}
        BY <1>5, <1>7, RunFields
    <2>1. Fits(rt)'
        <3>1. Fits(rt)
            BY <1>0, <1>7 DEF Counted
        <3> QED BY <3>1, <2>0, <1>5, <1>7, Units DEF Fits, AtMost, Less
    <2>a. Dated(rt)
        BY <1>0, <1>7 DEF Counted
    <2>2. rt'.state = "idle" <=> rt'.since = NotSince
        BY <2>0, <2>a, <1>5, <1>7, Units DEF Dated, AtMost
    <2>3. unid' <= rt'.last
        BY <2>0, <2>a, <1>0, <1>5, <1>7, <1>n, Units DEF Dated, AtMost
    <2>4. ASSUME rt'.since <= Required, rt'.last > rt'.since + Required PROVE unid' <= rt'.since + 1
        <3>1. rt.since # NotSince /\ rt'.since = rt.since + 1
            BY <2>0, <2>4, <1>5, <1>7, Units DEF AtMost
        <3>2. rt.since <= Required /\ rt.last > rt.since + Required
            BY <3>1, <2>0, <2>4, <1>5, <1>7, Units DEF AtMost
        <3>3. unid <= rt.since + 1
            BY <3>2, <2>a DEF Dated
        <3> QED BY <3>1, <3>3, <2>0, <1>0, <1>n, Units DEF AtMost
    <2>5. Dated(rt)'
        BY <2>2, <2>3, <2>4 DEF Dated
    <2>6. Found(rt)'
        <3>1. rt.state = "active" => unid' <= InUse + 1
            BY <1>0, <1>n, Units DEF Left, AtMost
        <3>2. ASSUME rt.state = "pending" PROVE unid' <= InUse + 1 + rt'.quiet
            <4>1. rt'.quiet = AtMost(rt.quiet + 1, Delay) /\ unid' <= unid + 1
                BY <3>2, <1>0, <1>5, <1>7, <1>n, Units DEF AtMost
            <4>2. CASE unid <= InUse
                BY <4>1, <4>2, <2>0, <1>n, <1>2, Units DEF AtMost, IdTypeOK
            <4>3. CASE rt.quiet < Delay /\ unid <= InUse + 1 + rt.quiet
                <5>1. rt'.quiet = rt.quiet + 1
                    BY <4>1, <4>3, <2>0, Units DEF AtMost
                <5> QED BY <5>1, <4>1, <4>3, <2>0, <1>n, <1>2, Units DEF IdTypeOK
            <4> QED BY <4>2, <4>3, <3>2, <1>0 DEF Left
        <3> QED BY <3>1, <3>2, <1>5, <1>7, <1>n DEF Found
    <2>7. Fresh(rt, FALSE)'
        <3> SUFFICES ASSUME rt.state = "idle", rt'.last > Required PROVE unid' <= 1
            BY <1>5, <1>7 DEF Fresh
        <3>1. rt.last >= Required
            BY <2>0, <1>5, <1>7, Units DEF AtMost
        <3>2. ~user \/ unid = 0
            BY <3>1, <1>0 DEF Left
        <3> QED BY <3>2, <1>0, <1>n, Units DEF AtMost
    <2> QED BY <2>1, <2>5, <2>6, <2>7
<1>8. unid' <= idRow'.last
    BY <1>0, <1>3, <1>n, Units DEF Counted, AtMost
<1>9. unid' <= InUse + 1 + Delay
    <2>1. CASE ~user /\ rt.state \notin {"active", "pending"}
        BY <2>1, <1>0, <1>n, Units
    <2>2. CASE user \/ rt.state = "active"
        BY <2>2, <1>0, <1>n, Units DEF Left, AtMost
    <2>3. CASE rt.state = "pending"
        <3>1. rt.quiet \in Nat /\ rt.quiet <= Delay
            BY <2>3, <1>5, RunFields
        <3> QED BY <2>3, <3>1, <1>0, <1>n, Units DEF Left, AtMost
    <2> QED BY <2>1, <2>2, <2>3
<1>10. Counted'
    BY <1>0, <1>4, <1>7, <1>8, <1>9, <1>n DEF Counted
<1>11. Working'
    BY <1>1 DEF Working
<1> QED BY <1>2, <1>6, <1>10, <1>11 DEF IdInv

LEMMA KeyNodeInv == ASSUME IdInv, KeyNode PROVE IdInv'
<1>0. /\ IdTypeOK /\ OnGuard /\ Working /\ Counted /\ ~time /\ pass.pc = "idle" /\ user' = ~user
      /\ heard' = (heard \/ user') /\ UNCHANGED <<idRow, rt, pass, time, air, unid, lost, idBudget>>
    BY DEF IdInv, KeyNode
<1>1. IdTypeOK'
    <2>1. user' \in BOOLEAN /\ heard' \in BOOLEAN
        BY <1>0 DEF IdTypeOK
    <2> QED BY <1>0, <2>1 DEF IdTypeOK
<1>2. OnGuard'
    BY <1>0 DEF OnGuard
<1>3. Working'
    BY <1>0 DEF Working
<1>4. Counted'
    BY <1>0, SameBounds DEF Counted, Fits, Dated, Found, Fresh
<1> QED BY <1>1, <1>2, <1>3, <1>4 DEF IdInv

LEMMA CopyInv == ASSUME IdInv, Copy PROVE IdInv'
<1> DEFINE r == IF rt.state = "none" THEN NewRuntime ELSE rt
<1>0. /\ IdTypeOK /\ OnGuard /\ Working /\ Counted /\ ~time /\ pass.pc = "idle" /\ idRow.there
      /\ rt' = r /\ pass' = [pc |-> "store", rt |-> r, active |-> Active,
                             initial |-> idRow.initial, every |-> idRow.every]
      /\ unid' = (IF rt.state = "none" /\ ~idRow.initial THEN 0 ELSE unid)
      /\ UNCHANGED <<idRow, time, user, air, heard, lost, idBudget>>
    BY DEF IdInv, Copy, Watched
<1>1. /\ pass'.pc = "store" /\ pass'.rt = r /\ pass'.active = Active /\ pass'.initial = idRow.initial
    BY <1>0
<1>2. /\ r \in Runtimes
      /\ rt.state = "none" => /\ r.state = "idle" /\ r.last = idRow.last /\ r.since = NotSince
                              /\ r.gmax = 0
      /\ rt.state # "none" => r = rt
      /\ r.state # "none"
    BY <1>0, RunKinds, NewTyped
<1> HIDE DEF r
<1>n. /\ unid \in Nat /\ unid' \in Nat /\ unid' <= unid /\ idRow.last \in Nat /\ InUse' = InUse
      /\ unid' \in 0..Never
      /\ InUse \in Nat /\ Active \in BOOLEAN /\ air \in Nat
    BY <1>0, Bounds, SameBounds, Units DEF IdTypeOK, Active
<1>3. IdTypeOK'
    <2>1. pass' \in Passes
        BY <1>0, <1>2, <1>n DEF Passes, IdTypeOK
    <2> QED BY <2>1, <1>0, <1>2, <1>n DEF IdTypeOK
<1>4. OnGuard'
    <2>1. ~lost /\ air > 0 => rt.state # "none" /\ air <= r.gmax
        BY <1>0, <1>2 DEF OnGuard
    <2>2. Active => lost \/ user \/ r.gmax > 0
        <3>1. r.gmax \in Nat
            BY <1>2, RunFields
        <3> QED BY <2>1, <3>1, <1>n DEF Active
    <2>3. air > 0 => Active
        BY DEF Active
    <2>4. user' => heard'
        BY <1>0 DEF OnGuard
    <2>5. ~lost' /\ air' > 0 => air' <= rt'.gmax /\ rt'.state # "none"
        BY <2>1, <1>0, <1>2
    <2>6. pass'.active => lost' \/ user' \/ pass'.rt.gmax > 0
        BY <2>2, <1>0, <1>1
    <2>7. air' > 0 => pass'.active
        BY <2>3, <1>0, <1>1
    <2> QED BY <2>4, <2>5, <2>6, <2>7 DEF OnGuard
<1>5. Fits(rt)' /\ Dated(rt)' /\ Found(rt)' /\ Fresh(rt, pass.initial)'
    <2>1. CASE rt.state = "none"
        <3>1. rt'.state = "idle" /\ rt'.last = idRow.last /\ rt'.since = NotSince /\ rt'.gmax = 0
            BY <2>1, <1>0, <1>2
        <3>2. unid' <= idRow.last /\ (unid' <= 1 \/ pass'.initial)
            BY <2>1, <1>0, <1>1, <1>n DEF Counted
        <3>3. NotSince > Required
            BY Units
        <3> QED BY <3>1, <3>2, <3>3, Units DEF Fits, Dated, Found, Fresh
    <2>2. CASE rt.state # "none"
        <3>1. unid' = unid /\ r = rt /\ rt' = rt
            BY <2>2, <1>0, <1>2
        <3>2. Fits(rt) /\ Dated(rt) /\ Found(rt) /\ Fresh(rt, FALSE)
            BY <2>2, <1>0 DEF Counted
        <3> QED BY <3>1, <3>2, <1>n DEF Fits, Dated, Found, Fresh
    <2> QED BY <2>1, <2>2
<1>6. Working'
    <2>1. ~Active => ~user
        BY DEF Active
    <2>2. pass'.rt = rt' /\ ~time' /\ (~pass'.active => ~user')
        BY <2>1, <1>0, <1>1
    <2> QED BY <2>2, <1>5 DEF Working, Fits, Dated, Found, Fresh
<1>7. Counted'
    <2>1. unid' <= idRow'.last /\ unid' <= InUse' + 1 + Delay
        BY <1>0, <1>n, Units DEF Counted
    <2>2. ~time' /\ pass'.pc # "idle"
        BY <1>0, <1>1
    <2> QED BY <2>1, <2>2, <1>5 DEF Counted
<1> QED BY <1>3, <1>4, <1>6, <1>7 DEF IdInv

LEMMA UnwatchedInv == ASSUME IdInv, Unwatched PROVE IdInv'
<1>0. /\ IdTypeOK /\ OnGuard /\ Working /\ Counted /\ pass.pc = "idle" /\ time' = TRUE /\ unid' = 0
      /\ UNCHANGED <<idRow, rt, pass, user, air, heard, lost, idBudget>>
    BY DEF IdInv, Unwatched
<1>1. IdTypeOK' /\ idRow.last \in Nat /\ InUse \in Nat /\ InUse' = InUse
    <2>1. 0 \in 0..Never
        BY Units
    <2> QED BY <2>1, <1>0, Bounds, SameBounds DEF IdTypeOK
<1>2. OnGuard' /\ Working'
    BY <1>0 DEF OnGuard, Working
<1>3. rt.state # "none" => Fits(rt)' /\ Dated(rt)'
    <2> SUFFICES ASSUME rt.state # "none" PROVE Fits(rt)' /\ Dated(rt)'
        OBVIOUS
    <2>1. rt.last \in Nat /\ rt.since \in Nat /\ Fits(rt) /\ Dated(rt)
        BY <1>0, RunKinds, RunFields DEF Counted
    <2> QED BY <2>1, <1>0 DEF Fits, Dated
<1>4. Left'
    BY <1>0, <1>1 DEF Left
<1>5. Counted'
    BY <1>0, <1>1, <1>3, <1>4, Units DEF Counted
<1> QED BY <1>1, <1>2, <1>5 DEF IdInv

LEMMA IgnoreInv == ASSUME IdInv, Ignore PROVE IdInv'
<1>0. /\ IdTypeOK /\ OnGuard /\ Working /\ Counted /\ pass.pc = "store" /\ pass' = NoPass
      /\ time' = TRUE /\ Guarded(pass.rt)
      /\ UNCHANGED <<idRow, rt, user, air, heard, lost, unid, idBudget>>
    BY DEF IdInv, Ignore, ghosts
<1>1. IdTypeOK' /\ idRow.last \in Nat /\ unid \in Nat /\ InUse \in Nat /\ InUse' = InUse
                /\ Required <= InUse
    BY <1>0, Bounds, SameBounds DEF IdTypeOK
<1>2. pass'.pc = "idle"
    BY <1>0, RunKinds
<1>3. OnGuard' /\ Working'
    BY <1>0, <1>2 DEF OnGuard, Working
<1>4. pass.rt.last < Required /\ unid <= pass.rt.last /\ pass.rt.last \in Nat
    <2>1. pass.rt.gmax > 0 /\ pass.rt.gmax \in Nat /\ pass.rt.last \in Nat
        BY <1>0, RunKinds, RunFields DEF Guarded
    <2>2. pass.rt.last + pass.rt.gmax <= Sound + Grace
        BY <2>1, <1>0 DEF Working, Fits
    <2>3. unid <= pass.rt.last
        BY <1>0 DEF Working, Dated
    <2> QED BY <2>1, <2>2, <2>3, Units
<1>5. rt.state # "none" => rt.last < Required
    BY <1>0, <1>4, Units DEF Working
<1>6. unid <= InUse
    BY <1>1, <1>4, Units
<1>7. Left'
    <2>1. rt.state = "idle" => rt.last \in Nat
        BY <1>0, RunKinds, RunFields
    <2>2. rt.state = "idle" => ~(rt.last >= Required)
        BY <2>1, <1>5, Units
    <2> QED BY <2>2, <1>0, <1>1, <1>6 DEF Left
<1>8. Counted'
    BY <1>0, <1>1, <1>2, <1>7 DEF Counted, Fits, Dated
<1> QED BY <1>1, <1>3, <1>8 DEF IdInv

(* What a pass that plays nothing stores.                                  *)
LEMMA StoredInv ==
    ASSUME IdInv, pass.pc = "store", ~Guarded(pass.rt), Store(Outcome(Opened(pass.rt)).rt),
           lost' = (lost \/ rt # pass.rt), UNCHANGED <<idRow, user, air, heard>>,
           IdTypeOK', unid' <= unid,
           unid' <= InUse' + 1 + Delay,
           Outcome(Opened(pass.rt)).rt.state = "active" =>
              /\ unid' <= InUse'
              /\ pass.rt.state = "idle" /\ pass.rt.last > Required => unid' <= 1,
           Outcome(Opened(pass.rt)).rt.state = "pending" =>
              \/ unid' <= InUse'
              \/ Outcome(Opened(pass.rt)).rt.quiet < Delay
                    /\ unid' <= InUse' + 1 + Outcome(Opened(pass.rt)).rt.quiet
    PROVE  IdInv'
<1> DEFINE p == pass.rt
           o == Outcome(Opened(p)).rt
<1>0. /\ IdTypeOK /\ OnGuard /\ Working /\ Counted /\ rt' = o /\ pass' = NoPass /\ time' = TRUE
    BY DEF IdInv, Store
<1>1. /\ p \in Runtimes /\ p.state # "none" /\ p.last \in Nat /\ p.since \in Nat
      /\ p.gmax \in Nat /\ p.gmin \in Nat
      /\ p.state \in {"idle", "active", "pending"} /\ pass'.pc = "idle" /\ unid \in Nat /\ unid' \in Nat
    BY <1>0, RunKinds, RunFields, Bounds DEF IdTypeOK
<1>2. /\ Opened(p) \in Runtimes /\ Opened(p).state = p.state /\ Opened(p).last = p.last
      /\ Opened(p).since = p.since /\ Opened(p).quiet = p.quiet /\ Opened(p).gmax = 0
    BY <1>1, OpenedTyped
<1>3. /\ o \in Runtimes /\ o.last = p.last /\ o.gmax = 0
      /\ pass.active => /\ o.state = "active"
                        /\ p.state = "idle" => o.since = 0
                        /\ p.state # "idle" => o.since = IF p.since = NotSince THEN 0 ELSE p.since
      /\ ~pass.active => /\ o.since = p.since /\ o.state # "active"
                         /\ o.state = "idle" <=> p.state = "idle"
    BY <1>2, OutcomeTyped
<1>4. OnGuard'
    <2>1. ASSUME ~lost', air > 0 PROVE FALSE
        <3>1. ~lost /\ rt = p /\ rt.state # "none"
            BY <2>1, <1>1
        <3>2. air <= p.gmax /\ (pass.active \/ p.gmin > 0)
            BY <3>1, <2>1, <1>0 DEF OnGuard
        <3>3. p.gmax > 0
            BY <3>2, <2>1, <1>0, <1>1, Units DEF IdTypeOK
        <3> QED BY <3>2, <3>3 DEF Guarded
    <2>2. user' => heard'
        BY <1>0 DEF OnGuard
    <2> QED BY <2>1, <2>2, <1>1 DEF OnGuard
<1>5. Fits(rt)'
    BY <1>0, <1>3 DEF Fits
<1>6. Dated(rt)'
    <2>0. Dated(p) /\ Fresh(p, pass.initial)
        BY <1>0 DEF Working
    <2>1. rt'.state = "idle" <=> rt'.since = NotSince
        <3>1. NotSince # 0
            BY Units
        <3> QED BY <3>1, <2>0, <1>0, <1>1, <1>3 DEF Dated
    <2>2. unid' <= rt'.last
        BY <2>0, <1>0, <1>1, <1>3 DEF Dated
    <2>3. ASSUME rt'.since <= Required, rt'.last > rt'.since + Required PROVE unid' <= rt'.since + 1
        <3>1. CASE pass.active /\ p.state = "idle"
            <4>1. rt'.since = 0 /\ rt'.state = "active" /\ p.last > Required
                BY <3>1, <2>3, <1>0, <1>1, <1>3, Units
            <4> QED BY <3>1, <4>1, <1>0
        <3>2. CASE ~(pass.active /\ p.state = "idle")
            <4>1. p.since # NotSince => rt'.since = p.since
                BY <3>2, <1>0, <1>3
            <4>2. p.since = NotSince => rt'.since = NotSince
                BY <3>2, <2>0, <1>0, <1>3 DEF Dated
            <4>3. rt'.since = p.since
                BY <4>1, <4>2
            <4> QED BY <4>3, <2>0, <2>3, <1>0, <1>1, <1>3 DEF Dated
        <3> QED BY <3>1, <3>2
    <2> QED BY <2>1, <2>2, <2>3 DEF Dated
<1>7. Left'
    <2>1. ~pass.active => ~user
        BY <1>0 DEF Working
    <2>2. rt'.state = "idle" => ~user'
        BY <2>1, <1>0, <1>3
    <2>3. user' => unid' <= InUse'
        BY <2>1, <1>3
    <2> QED BY <2>2, <2>3, <1>0 DEF Left
<1>8. Counted'
    <2>1. unid' <= idRow'.last
        BY <1>0, <1>1, Bounds DEF Counted
    <2> QED BY <2>1, <1>0, <1>5, <1>6, <1>7 DEF Counted
<1>9. Working'
    BY <1>1 DEF Working
<1> QED BY <1>4, <1>8, <1>9 DEF IdInv

LEMMA WatchInv == ASSUME IdInv, Watch PROVE IdInv'
<1> DEFINE p == pass.rt
           q == Opened(p)
           o == Outcome(q).rt
<1>0. /\ IdTypeOK /\ OnGuard /\ Working /\ Counted /\ rt' = o /\ pass' = NoPass /\ time' = TRUE
      /\ pass.pc = "store" /\ ~Guarded(p) /\ ~Outcome(q).play /\ Store(o)
      /\ lost' = (lost \/ rt # p) /\ UNCHANGED <<idRow, user, air, unid, heard, idBudget>>
    BY DEF IdInv, Watch, Store
<1>1. /\ p \in Runtimes /\ p.last \in Nat /\ p.since \in Nat /\ p.quiet \in Nat
      /\ p.state \in {"idle", "active", "pending"} /\ pass \in Passes
    BY <1>0, RunKinds, RunFields
<1>2. /\ q \in Runtimes /\ q.state = p.state /\ q.last = p.last /\ q.since = p.since
      /\ q.quiet = p.quiet
    BY <1>1, OpenedTyped
<1>3. /\ o \in Runtimes /\ o.last = p.last
      /\ pass.active => /\ o.state = "active"
                        /\ p.state = "idle" => ~(pass.initial /\ ~Recent(q))
                        /\ p.state # "idle" => /\ o.since = IF p.since = NotSince THEN 0 ELSE p.since
                                               /\ ~(Clock(o) >= pass.every)
      /\ ~pass.active => /\ o.state # "active" /\ (o.state = "idle" <=> p.state = "idle")
                         /\ p.state = "active" => o.quiet = 0
                         /\ p.state = "pending" => o = q /\ ~(p.quiet >= Delay)
    BY <1>0, <1>2, OutcomeTyped
<1>n. /\ unid \in Nat /\ InUse \in Nat /\ InUse' = InUse /\ Required <= InUse
      /\ pass.every \in Nat /\ pass.every <= Required
    BY <1>0, <1>1, Bounds, SameBounds, Units DEF Passes
<1> HIDE DEF q, o
<1>4. IdTypeOK'
    BY <1>0, <1>3 DEF IdTypeOK
<1>w. Dated(p) /\ Found(p) /\ Fresh(p, pass.initial)
    BY <1>0 DEF Working
<1>5. ASSUME p.state = "idle", p.last > Required, pass.active PROVE unid <= 1
    <2>1. ~Recent(q)
        BY <1>2, <1>5, <1>1, Units DEF Recent
    <2>2. ~pass.initial
        BY <2>1, <1>3, <1>5
    <2> QED BY <2>2, <1>5, <1>w DEF Fresh
<1>6. ASSUME pass.active PROVE unid <= InUse
    <2>1. CASE p.state = "idle"
        <3>1. CASE p.last > Required
            BY <2>1, <3>1, <1>5, <1>6, <1>n, Units
        <3>2. CASE ~(p.last > Required)
            BY <3>2, <1>1, <1>n, <1>w, Units DEF Dated
        <3> QED BY <3>1, <3>2
    <2>2. CASE p.state # "idle"
        <3>1. p.since # NotSince /\ o.since = p.since
            BY <2>2, <1>3, <1>6, <1>w DEF Dated
        <3>2. Clock(o) < pass.every /\ Clock(o) \in {p.last, p.since}
            BY <2>2, <3>1, <1>1, <1>3, <1>6, <1>n DEF Clock
        <3>3. CASE Clock(o) = p.last
            BY <3>2, <3>3, <1>1, <1>n, <1>w, Units DEF Dated
        <3>4. CASE Clock(o) # p.last
            <4>1. p.last > p.since + Required /\ Clock(o) = p.since
                BY <3>1, <3>2, <3>4, <1>1, <1>3, Units DEF Clock
            <4>2. p.since <= Required /\ p.since + 1 <= Required
                BY <4>1, <3>2, <1>1, <1>n, Units
            <4> QED BY <4>1, <4>2, <1>1, <1>n, <1>w, Units DEF Dated
        <3> QED BY <3>3, <3>4
    <2> QED BY <2>1, <2>2
<1>7. o.state = "active" => unid <= InUse /\ (p.state = "idle" /\ p.last > Required => unid <= 1)
    BY <1>3, <1>5, <1>6
<1>8. o.state = "pending" => o.quiet < Delay /\ unid <= InUse + 1 + o.quiet
    <2> SUFFICES ASSUME o.state = "pending" PROVE o.quiet < Delay /\ unid <= InUse + 1 + o.quiet
        OBVIOUS
    <2>1. ~pass.active /\ p.state # "idle"
        BY <1>3
    <2>2. CASE p.state = "active"
        BY <2>1, <2>2, <1>3, <1>n, <1>w, Units DEF Found
    <2>3. CASE p.state = "pending"
        BY <2>1, <2>3, <1>1, <1>2, <1>3, <1>n, <1>w, Units DEF Found
    <2> QED BY <2>1, <2>2, <2>3, <1>1
<1>9. unid' <= InUse' + 1 + Delay /\ unid' <= unid
    BY <1>0, <1>n DEF Counted
<1> QED BY <1>0, <1>4, <1>7, <1>8, <1>9, <1>n, StoredInv DEF q, o, IdInv

LEMMA PlayFailsInv == ASSUME IdInv, PlayFails PROVE IdInv'
<1> DEFINE p == pass.rt
           o == Outcome(Opened(p)).rt
<1>0. /\ IdTypeOK /\ OnGuard /\ Working /\ Counted /\ rt' = o /\ pass' = NoPass /\ time' = TRUE
      /\ pass.pc = "store" /\ ~Guarded(p) /\ Store(o) /\ idBudget.faults > 0
      /\ idBudget' = [idBudget EXCEPT !.faults = @ - 1] /\ lost' = (lost \/ rt # p)
      /\ unid' = (IF p.state = "idle" THEN 0 ELSE unid) /\ UNCHANGED <<idRow, user, air, heard>>
    BY DEF IdInv, PlayFails, Store
<1>1. o \in Runtimes
    BY <1>0, RunKinds, OpenedTyped, OutcomeTyped
<1>2. idBudget' \in [req : 0..MaxIdReq, faults : 0..MaxFaults] /\ idBudget'.faults = idBudget.faults - 1
    BY <1>0, Units DEF IdTypeOK
<1>3. unid \in Nat /\ unid' \in 0..Never /\ unid' \in Nat /\ unid' <= unid
    BY <1>0, Units, Bounds DEF IdTypeOK
<1> HIDE DEF o
<1>4. IdTypeOK'
    BY <1>0, <1>1, <1>2, <1>3 DEF IdTypeOK
<1>5. InUse' = InUse + 1 + Delay /\ InUse \in Nat
    BY <1>0, <1>2, <1>4, FaultBounds, Bounds
<1>6. unid' <= InUse' /\ unid' <= InUse' + 1 + Delay
    BY <1>0, <1>3, <1>5, Units DEF Counted
<1>7. p.state = "idle" => unid' <= 1
    BY <1>0
<1> QED BY <1>0, <1>3, <1>4, <1>6, <1>7, StoredInv DEF o, IdInv

LEMMA PlayInv == ASSUME IdInv, Play PROVE IdInv'
<1> DEFINE o == Over(Outcome(Opened(pass.rt)).rt)
<1>0. /\ IdTypeOK /\ OnGuard /\ Working /\ Counted /\ rt' = Marked(o) /\ pass' = NoPass /\ time' = TRUE
      /\ pass.pc = "store" /\ air' = Sound /\ unid' = 0 /\ heard' = user /\ lost' = FALSE
      /\ idRow' = [idRow EXCEPT !.last = 0] /\ UNCHANGED <<user, idBudget>>
    BY DEF IdInv, Play, Store, OnAir
<1>1. Outcome(Opened(pass.rt)).rt \in Runtimes /\ o \in Runtimes /\ pass'.pc = "idle"
    BY <1>0, RunKinds, OpenedTyped, OutcomeTyped, OverTyped
<1>2. o.state = "idle" <=> o.since = NotSince
    <2> DEFINE p == pass.rt
               s == Outcome(Opened(p)).rt
    <2>1. p \in Runtimes /\ (p.state = "idle" <=> p.since = NotSince)
        BY <1>0, RunKinds DEF Working, Dated
    <2>2. Opened(p) \in Runtimes /\ Opened(p).state = p.state /\ Opened(p).since = p.since
        BY <2>1, OpenedTyped
    <2>3. s.state = "idle" <=> s.since = NotSince
        BY <2>1, <2>2, OutcomeTyped, Units
    <2> QED BY <2>3, <1>1, OverTyped
<1> HIDE DEF o
<1>3. /\ rt' \in Runtimes /\ rt'.state = o.state /\ rt'.last = 0 /\ rt'.since = o.since
      /\ rt'.gmax = Sound + Grace /\ rt'.since \in Nat /\ rt'.state # "none"
    BY <1>0, <1>1, MarkedTyped, RunFields
<1>n. /\ idRow' \in [there : BOOLEAN, enabled : BOOLEAN, initial : BOOLEAN,
                     every : {Interval, Required}, last : 0..Never]
      /\ idRow'.last = 0 /\ InUse \in Nat /\ InUse' = InUse
    BY <1>0, Bounds, SameBounds, Units DEF IdTypeOK
<1>4. IdTypeOK'
    BY <1>0, <1>3, <1>n, Units DEF IdTypeOK
<1>5. OnGuard'
    BY <1>0, <1>1, <1>3, Units DEF OnGuard
<1>6. Fits(rt)' /\ Dated(rt)'
    BY <1>0, <1>2, <1>3, Units DEF Fits, Dated
<1>7. Left'
    BY <1>0, <1>n, <1>3 DEF Left
<1>8. Working' /\ Counted'
    BY <1>0, <1>1, <1>6, <1>7, <1>n, Units DEF Working, Counted
<1> QED BY <1>4, <1>5, <1>8 DEF IdInv

(* A request that leaves the time, the air's count and the row's age.      *)
LEMMA RequestTyped ==
    ASSUME IdTypeOK, IdRequest
    PROVE  /\ idBudget' \in [req : 0..MaxIdReq, faults : 0..MaxFaults] /\ InUse' = InUse /\ idRow.there
<1>1. /\ idBudget' \in [req : 0..MaxIdReq, faults : 0..MaxFaults]
      /\ idBudget'.faults = idBudget.faults
    BY IdAssumption DEF IdTypeOK, IdRequest
<1> QED BY <1>1, SameBounds DEF IdRequest

LEMMA TestPlayInv == ASSUME IdInv, TestPlay PROVE IdInv'
<1> DEFINE x == IF rt.state = "none" THEN NewRuntime ELSE rt
<1>0. /\ IdTypeOK /\ OnGuard /\ Working /\ Counted /\ rt' = Marked(x)
      /\ IdRequest /\ air' = Sound /\ unid' = 0 /\ heard' = user
      /\ idRow' = [idRow EXCEPT !.last = 0] /\ UNCHANGED <<pass, time, user, lost>>
    BY DEF IdInv, TestPlay, OnAir
<1>1. x \in Runtimes /\ (x.state = "idle" <=> x.since = NotSince)
    BY <1>0, RunKinds, NewTyped DEF Counted, Dated
<1> HIDE DEF x
<1>2. /\ rt' \in Runtimes /\ rt'.state = x.state /\ rt'.last = 0 /\ rt'.since = x.since
      /\ rt'.gmax = Sound + Grace /\ rt'.gmin = 1 /\ rt'.since \in Nat /\ rt'.state # "none"
      /\ rt'.quiet \in Nat
    BY <1>0, <1>1, MarkedTyped, RunFields
<1>3. /\ idRow' \in [there : BOOLEAN, enabled : BOOLEAN, initial : BOOLEAN,
                     every : {Interval, Required}, last : 0..Never]
      /\ idRow'.last = 0 /\ InUse \in Nat /\ InUse' = InUse
      /\ idBudget' \in [req : 0..MaxIdReq, faults : 0..MaxFaults]
    BY <1>0, Bounds, RequestTyped, Units DEF IdTypeOK
<1>4. IdTypeOK'
    BY <1>0, <1>2, <1>3, Units DEF IdTypeOK
<1>5. OnGuard'
    BY <1>0, <1>2, Units DEF OnGuard
<1>6. Fits(rt)' /\ Dated(rt)' /\ Found(rt)' /\ Fresh(rt, FALSE)'
    BY <1>0, <1>1, <1>2, <1>3, Units DEF Fits, Dated, Found, Fresh
<1>7. Left'
    BY <1>0, <1>2, <1>3 DEF Left
<1>8. Working'
    <2> SUFFICES ASSUME pass.pc = "store"
                 PROVE  /\ ~time' /\ (~pass'.active => ~user')
                        /\ Fits(pass.rt)' /\ Dated(pass.rt)' /\ Found(pass.rt)'
                        /\ Fresh(pass.rt, pass.initial)'
                        /\ rt'.state = "none" \/ rt' = pass'.rt \/ (rt'.last = 0 /\ unid' = 0)
        BY <1>0 DEF Working
    <2>1. /\ ~time /\ (~pass.active => ~user) /\ Fits(pass.rt) /\ Dated(pass.rt)
          /\ pass.rt.last \in Nat /\ pass.rt.since \in Nat /\ pass.rt.quiet \in Nat
        BY <1>0, RunKinds, RunFields DEF Working
    <2> QED BY <2>1, <1>0, <1>2, <1>3 DEF Fits, Dated, Found, Fresh
<1>9. Counted'
    <2>1. unid' <= idRow'.last /\ unid' <= InUse' + 1 + Delay
        BY <1>0, <1>3, Units
    <2> QED BY <2>1, <1>6, <1>7 DEF Counted
<1> QED BY <1>4, <1>5, <1>8, <1>9 DEF IdInv

(* A request that changes the row's settings or forgets the runtime state. *)
LEMMA SettingsInv ==
    ASSUME IdInv, IdRequest, NEW w \in [there : BOOLEAN, enabled : BOOLEAN, initial : BOOLEAN,
                                        every : {Interval, Required}, last : 0..Never],
           idRow' = w, w.last = idRow.last, w.there => idRow.there,
           UNCHANGED <<time, user, air, unid, heard>>, pass' = pass \/ pass' = NoPass,
           lost' \in BOOLEAN, lost => lost',
           rt' = rt \/ (rt' = NoRuntime /\ (lost' \/ air = 0 \/ ~w.there)),
           pass' = NoPass => rt' = NoRuntime \/ pass = NoPass,
           pass' = NoPass /\ pass # NoPass => ~time'
    PROVE  IdInv'
<1>0. IdTypeOK /\ OnGuard /\ Working /\ Counted
    BY DEF IdInv
<1>1. IdTypeOK'
    BY <1>0, RequestTyped DEF IdTypeOK
<1>2. InUse' = InUse /\ NoRuntime.state = "none" /\ NoPass.pc = "idle"
                     /\ (pass.pc # "store" => pass = NoPass)
    BY <1>0, RequestTyped, RunKinds
<1>3. OnGuard'
    BY <1>0, <1>2 DEF OnGuard
<1>4. Working'
    <2>1. CASE pass' = NoPass
        BY <2>1, <1>2 DEF Working
    <2>2. CASE pass' = pass
        BY <2>2, <1>0, <1>2 DEF Working, Fits, Dated, Found, Fresh
    <2> QED BY <2>1, <2>2
<1>5. time' => Left'
    BY <1>0, <1>2 DEF Counted, Left
<1>6. Counted'
    <2>1. CASE rt' = NoRuntime
        BY <2>1, <1>0, <1>2, <1>5 DEF Counted
    <2>2. CASE rt' = rt /\ rt # NoRuntime
        <3>1. pass' = pass
            BY <2>2, <1>2
        <3> QED BY <2>2, <3>1, <1>0, <1>2, <1>5 DEF Counted, Fits, Dated, Found, Fresh
    <2> QED BY <2>1, <2>2
<1> QED BY <1>1, <1>3, <1>4, <1>6 DEF IdInv

LEMMA NextIdInv == IdInv /\ [IdNext]_idVars => IdInv'
<1> SUFFICES ASSUME IdInv, [IdNext]_idVars PROVE IdInv'
    OBVIOUS
<1> DEFINE W == [there : BOOLEAN, enabled : BOOLEAN, initial : BOOLEAN,
                 every : {Interval, Required}, last : 0..Never]
<1>0. IdTypeOK /\ idRow \in W /\ lost \in BOOLEAN /\ (lost \/ air > 0) \in BOOLEAN /\ air \in Nat
    BY Units DEF IdInv, IdTypeOK
<1>a. air > 0 \/ air = 0
    BY <1>0
<1>1. CASE IdTick \/ KeyNode \/ Copy \/ Unwatched \/ Ignore
    BY <1>1, IdTickInv, KeyNodeInv, CopyInv, UnwatchedInv, IgnoreInv
<1>2. CASE Watch \/ Play \/ PlayFails \/ TestPlay
    BY <1>2, WatchInv, PlayInv, PlayFailsInv, TestPlayInv
<1>3. CASE Toggle
    <2> DEFINE w == [idRow EXCEPT !.enabled = ~@]
    <2>1. w \in W /\ w.last = idRow.last /\ w.there = idRow.there
        BY <1>0
    <2>2. /\ IdRequest /\ idRow' = w /\ (rt' = rt \/ rt' = NoRuntime) /\ lost' = (lost \/ air > 0)
          /\ UNCHANGED <<pass, time, user, air, unid, heard>>
        BY <1>3 DEF Toggle
    <2>3. lost' \/ air = 0
        BY <2>2, <1>a, Zenon
    <2> HIDE DEF w
    <2> QED BY <2>1, <2>2, <2>3, <1>0, SettingsInv
<1>4. CASE Update
    <2>1. PICK i \in BOOLEAN, e \in {Interval, Required} :
             idRow' = [idRow EXCEPT !.initial = i, !.every = e]
        BY <1>4 DEF Update
    <2> DEFINE w == [idRow EXCEPT !.initial = i, !.every = e]
    <2>2. w \in W /\ w.last = idRow.last /\ w.there = idRow.there
        BY <1>0
    <2>3. IdRequest /\ idRow' = w /\ UNCHANGED <<rt, pass, time, user, air, unid, heard, lost>>
        BY <1>4, <2>1 DEF Update, ghosts
    <2> HIDE DEF w
    <2> QED BY <2>2, <2>3, <1>0, SettingsInv
<1>5. CASE Delete
    <2> DEFINE w == [idRow EXCEPT !.there = FALSE]
    <2>1. w \in W /\ w.last = idRow.last /\ ~w.there
        BY <1>0
    <2>2. IdRequest /\ idRow' = w /\ rt' = NoRuntime
                    /\ UNCHANGED <<pass, time, user, air, unid, heard, lost>>
        BY <1>5 DEF Delete, ghosts
    <2> HIDE DEF w
    <2> QED BY <2>1, <2>2, <1>0, SettingsInv
<1>6. CASE IdRestart
    <2>1. /\ IdRequest /\ idRow' = idRow /\ rt' = NoRuntime /\ pass' = NoPass
          /\ lost' = (lost \/ air > 0)
          /\ UNCHANGED <<time, user, air, unid, heard>>
        BY <1>6 DEF IdRestart
    <2>2. lost' \/ air = 0
        BY <2>1, <1>a, Zenon
    <2>3. pass # NoPass => ~time
        BY <1>0, RunKinds DEF IdInv, Working
    <2> QED BY <2>1, <2>2, <2>3, <1>0, SettingsInv
<1>7. CASE UNCHANGED idVars
    BY <1>7 DEF idVars, IdInv, IdTypeOK, OnGuard, Working, Counted, Left, Fits, Dated, Found, Fresh,
       InUse, Faulty
<1> QED BY <1>1, <1>2, <1>3, <1>4, <1>5, <1>6, <1>7 DEF IdNext

LEMMA IdInvariance == IdSpec => []IdInv
BY InitIdInv, NextIdInv, PTL DEF IdSpec

(* _id_runtime, the row and the copy of a pass keep their shape, no age    *)
(* outgrows its cap, and no guard the sound it was sized for.              *)
THEOREM IdTypes == IdSpec => []IdTypeOK
<1>1. IdInv => IdTypeOK
    BY DEF IdInv
<1> QED BY <1>1, IdInvariance, PTL

(* _run_id_monitors: for every interval, pause, length of the ID and       *)
(* number of requests and failed plays, a watched node is never in use for *)
(* longer than ID_REQUIRED_SEC, a pause and a pass, and one more pause and *)
(* pass for each play that failed, without an ID.                          *)
THEOREM InUseIsIdentified == IdSpec => []InUseIdentified
<1>1. IdInv => InUseIdentified
    BY Bounds DEF IdInv, Counted, InUseIdentified
<1> QED BY <1>1, IdInvariance, PTL

(* _id_mark_played's guard: our own ID on the air begins no exchange.      *)
THEOREM OwnIdBeginsNothing == IdSpec => OwnIdIgnored
<1>1. ASSUME IdInv, [IdNext]_idVars PROVE [BeginsByUse]_idVars
    <2> SUFFICES ASSUME IdNext, rt.state = "idle", rt'.state = "active", ~heard, ~lost, ~lost'
                 PROVE  FALSE
        BY <1>1, Zenon DEF BeginsByUse
    <2>0. /\ IdTypeOK /\ OnGuard /\ Working /\ rt # rt' /\ rt' # NoRuntime /\ rt \in Runtimes
        BY <1>1, RunKinds DEF IdInv
    <2>1. ~IdTick /\ ~Copy /\ ~TestPlay
        <3>1. IdTick => rt'.state = rt.state
            BY <2>0, AgedTyped DEF IdTick
        <3>2. Copy => rt' = rt
            BY DEF Copy
        <3>3. TestPlay => rt'.state = rt.state
            BY <2>0, MarkedTyped DEF TestPlay
        <3> QED BY <3>1, <3>2, <3>3, <2>0
    <2>2. Watch \/ Play \/ PlayFails
        BY <2>0, <2>1 DEF IdNext, KeyNode, Unwatched, Ignore, Toggle, Update, Delete, IdRestart, ghosts
    <2>3. /\ pass.pc = "store" /\ ~Guarded(pass.rt)
          /\ rt' = Outcome(Opened(pass.rt)).rt \/ rt' = Marked(Over(Outcome(Opened(pass.rt)).rt))
        BY <2>2 DEF Watch, Play, PlayFails, Store
    <2>4. /\ pass.rt \in Runtimes /\ pass.rt.gmax \in Nat /\ Opened(pass.rt) \in Runtimes
          /\ Outcome(Opened(pass.rt)).rt \in Runtimes
        BY <2>0, <2>3, RunKinds, RunFields, OpenedTyped, OutcomeTyped
    <2>5. Outcome(Opened(pass.rt)).rt.state = "active"
        BY <2>0, <2>3, <2>4, OverTyped, MarkedTyped
    <2>6. pass.active
        BY <2>4, <2>5, OutcomeTyped
    <2>7. ~user /\ pass.rt.gmax > 0
        BY <2>0, <2>3, <2>6 DEF OnGuard
    <2> QED BY <2>3, <2>6, <2>7 DEF Guarded
<1> QED BY <1>1, IdInvariance, PTL DEF IdSpec, OwnIdIgnored

(***************************************************************************)
(* The manager session for every number of threads, calls and commands.    *)
(***************************************************************************)
Inside == {"ensure", "send", "recv"}
Listening(t) == pc[t] = "recv"

(* The session is used by the lock's holder alone.                         *)
HolderInside == \A t \in Threads : pc[t] \in Inside <=> lock = t
(* A call that is not over has a command to send.                          *)
SomeLeft == \A t \in Threads : pc[t] \in {"ensure", "send"} => left[t] > 0
(* What is under way, with Asterisk or answered, are the commands whose     *)
(* replies the poller stopped waiting for, which are the last ones sent,   *)
(* and the one a listening thread asked.                                   *)
UnderWay == pending \union unread
FewUnderWay == \A t \in Threads : Listening(t) => /\ asked[t] = sent
                                                  /\ UnderWay \subseteq (sent - skipped) .. sent
FewerOtherwise ==
    (\A t \in Threads : ~Listening(t)) => UnderWay \subseteq (sent - skipped + 1) .. sent
(* They are answered in the order they were asked.                         *)
InOrder == \A c \in unread, d \in pending : c < d

PoolInv == TypeOK /\ HolderInside /\ SomeLeft /\ FewUnderWay /\ FewerOtherwise /\ InOrder

USE AmiAssumption

(* One thread at most is inside.                                           *)
LEMMA Alone == ASSUME PoolInv, NEW t \in Threads, NEW u \in Threads,
                      pc[t] \in Inside, pc[u] \in Inside
               PROVE  t = u
BY DEF PoolInv, HolderInside

(* A thread inside that does not listen is alone: nobody listens.          *)
LEMMA Quiet == ASSUME PoolInv, NEW t \in Threads, pc[t] \in {"ensure", "send"}
               PROVE  UnderWay \subseteq (sent - skipped + 1) .. sent
<1>1. \A u \in Threads : ~Listening(u)
  BY Alone DEF Inside, Listening
<1> QED BY <1>1 DEF PoolInv, FewerOtherwise

(* A thread that reads takes the oldest ones.                              *)
LEMMA LeftOver == ASSUME PoolInv, NEW t \in Threads, pc[t] = "recv", NEW c \in unread,
                      NEW d \in pending \union unread, d \in pending \/ d > c
               PROVE  d \in (sent - skipped + 1) .. sent
<1>1. c \in Nat /\ d \in Nat /\ sent \in Nat /\ skipped \in Nat
  BY DEF PoolInv, TypeOK
<1>2. c \in (sent - skipped) .. sent /\ d \in (sent - skipped) .. sent
  BY DEF PoolInv, FewUnderWay, Listening, UnderWay
<1>3. d > c
  BY <1>1 DEF PoolInv, InOrder
<1> QED BY <1>1, <1>2, <1>3

LEMMA InitPoolInv == Init => PoolInv
<1> SUFFICES ASSUME Init PROVE PoolInv
  OBVIOUS
<1>1. TypeOK
  BY DEF Init, TypeOK, Places
<1>2. HolderInside
  BY DEF Init, HolderInside, Inside, Threads
<1>3. SomeLeft /\ FewUnderWay /\ FewerOtherwise /\ InOrder
  BY DEF Init, SomeLeft, FewUnderWay, FewerOtherwise, InOrder, Listening, UnderWay
<1> QED BY <1>1, <1>2, <1>3 DEF PoolInv

(* A step that leaves the session and who listens alone.                   *)
LEMMA SessionUntouched ==
    ASSUME PoolInv, UNCHANGED <<session, asked>>, \A u \in Threads : Listening(u)' <=> Listening(u)
    PROVE  FewUnderWay' /\ FewerOtherwise' /\ InOrder'
<1>1. UNCHANGED <<sent, pending, unread, skipped, asked, UnderWay>>
  BY DEF session, UnderWay
<1>2. FewUnderWay'
  BY <1>1 DEF PoolInv, FewUnderWay
<1>3. FewerOtherwise'
  BY <1>1 DEF PoolInv, FewerOtherwise
<1>4. InOrder'
  BY <1>1 DEF PoolInv, InOrder
<1> QED BY <1>2, <1>3, <1>4

LEMMA CallPoolInv == ASSUME PoolInv, NEW t \in Threads, Call(t) PROVE PoolInv'
<1> USE DEF Call, Goto
<1>1. TypeOK'
  BY DEF PoolInv, TypeOK, Places, session
<1>2. HolderInside'
  BY DEF PoolInv, TypeOK, HolderInside, Inside
<1>3. SomeLeft'
  BY DEF PoolInv, TypeOK, SomeLeft
<1>4. \A u \in Threads : Listening(u)' <=> Listening(u)
  BY DEF PoolInv, TypeOK, Listening
<1>5. FewUnderWay' /\ FewerOtherwise' /\ InOrder'
  BY <1>4, SessionUntouched
<1> QED BY <1>1, <1>2, <1>3, <1>5 DEF PoolInv

LEMMA AcquirePoolInv == ASSUME PoolInv, NEW t \in Threads, Acquire(t) PROVE PoolInv'
<1> USE DEF Acquire, Goto
<1>1. TypeOK'
  BY DEF PoolInv, TypeOK, Places, session
<1>2. HolderInside'
  BY DEF PoolInv, TypeOK, HolderInside, Inside, Threads
<1>3. SomeLeft'
  BY DEF PoolInv, TypeOK, SomeLeft
<1>4. \A u \in Threads : Listening(u)' <=> Listening(u)
  BY DEF PoolInv, TypeOK, Listening
<1>5. FewUnderWay' /\ FewerOtherwise' /\ InOrder'
  BY <1>4, SessionUntouched
<1> QED BY <1>1, <1>2, <1>3, <1>5 DEF PoolInv

LEMMA EnsurePoolInv == ASSUME PoolInv, NEW t \in Threads, Ensure(t) PROVE PoolInv'
<1> USE DEF Ensure, Goto
<1>1. TypeOK'
  <2>1. CASE client
    BY <2>1 DEF PoolInv, TypeOK, Places
  <2>2. CASE ~client
    BY <2>2 DEF PoolInv, TypeOK, Places
  <2> QED BY <2>1, <2>2
<1>2. HolderInside'
  BY DEF PoolInv, TypeOK, HolderInside, Inside
<1>3. SomeLeft'
  BY DEF PoolInv, TypeOK, SomeLeft
<1>4. \A u \in Threads : ~Listening(u)'
  BY Alone DEF PoolInv, TypeOK, Listening, Inside
<1>5. UnderWay' \subseteq (sent' - skipped' + 1) .. sent'
  BY Quiet DEF UnderWay
<1>6. FewUnderWay' /\ FewerOtherwise'
  BY <1>4, <1>5 DEF FewUnderWay, FewerOtherwise
<1>7. InOrder'
  BY DEF PoolInv, InOrder
<1> QED BY <1>1, <1>2, <1>3, <1>6, <1>7 DEF PoolInv

LEMMA SendPoolInv == ASSUME PoolInv, NEW t \in Threads, Send(t) PROVE PoolInv'
<1> USE DEF Send, Goto
<1>1. UnderWay \subseteq (sent - skipped + 1) .. sent /\ sent \in Nat /\ skipped \in Nat
  BY Quiet DEF PoolInv, TypeOK
<1>2. left[t] \in Nat /\ left[t] > 0
  BY DEF PoolInv, TypeOK, SomeLeft
<1>3. TypeOK'
  BY <1>1, <1>2 DEF PoolInv, TypeOK, Places
<1>4. HolderInside'
  BY DEF PoolInv, TypeOK, HolderInside, Inside
<1>5. \A u \in Threads : u # t => pc[u] \notin Inside
  BY Alone DEF Inside
<1>6. SomeLeft'
  BY <1>5 DEF PoolInv, TypeOK, SomeLeft, Inside
<1>7. \A u \in Threads : Listening(u)' => u = t
  BY <1>5 DEF PoolInv, TypeOK, Listening, Inside
<1>8. asked'[t] = sent' /\ Listening(t)'
  BY DEF PoolInv, TypeOK, Listening
<1>9. UnderWay' \subseteq (sent' - skipped') .. sent'
  <2>1. UnderWay' = UnderWay \union {sent + 1}
    BY DEF UnderWay
  <2> QED BY <1>1, <2>1
<1>10. FewUnderWay' /\ FewerOtherwise'
  BY <1>7, <1>8, <1>9 DEF FewUnderWay, FewerOtherwise
<1>11. InOrder'
  BY <1>1 DEF PoolInv, InOrder, UnderWay
<1> QED BY <1>3, <1>4, <1>6, <1>10, <1>11 DEF PoolInv

LEMMA AnswerPoolInv == ASSUME PoolInv, Answer PROVE PoolInv'
<1> USE DEF Answer
<1>1. PICK c \in pending : /\ \A d \in pending : c <= d
                          /\ pending' = pending \ {c} /\ unread' = unread \union {c}
                          /\ UNCHANGED <<pc, attempt, left, asked, lock, client, sent, calls, skipped>>
  OBVIOUS
<1>2. TypeOK'
  BY <1>1 DEF PoolInv, TypeOK
<1>3. HolderInside' /\ SomeLeft'
  BY <1>1 DEF PoolInv, HolderInside, SomeLeft
<1>4. UNCHANGED UnderWay
  BY <1>1 DEF UnderWay
<1>5. FewUnderWay' /\ FewerOtherwise'
  BY <1>1, <1>4 DEF PoolInv, FewUnderWay, FewerOtherwise, Listening
<1>6. InOrder'
  BY <1>1 DEF PoolInv, TypeOK, InOrder
<1> QED BY <1>2, <1>3, <1>5, <1>6 DEF PoolInv

LEMMA RecvPoolInv == ASSUME PoolInv, NEW t \in Threads, Recv(t) PROVE PoolInv'
<1> USE DEF Recv, Goto, GoOn
<1>1. PICK c \in unread : unread' = {d \in unread : d > c}
  OBVIOUS
<1>2. UnderWay' \subseteq (sent' - skipped' + 1) .. sent'
  <2> SUFFICES ASSUME NEW d \in UnderWay' PROVE d \in (sent' - skipped' + 1) .. sent'
    OBVIOUS
  <2>1. d \in pending \union unread /\ (d \in pending \/ d > c)
    BY <1>1 DEF UnderWay
  <2>2. d \in (sent - skipped + 1) .. sent
    BY <2>1, LeftOver
  <2> QED BY <2>2
<1>3. \A u \in Threads : u # t => pc[u] \notin Inside
  BY Alone DEF Inside
<1>4. TypeOK'
  BY <1>1 DEF PoolInv, TypeOK, Places, Threads
<1>5. HolderInside'
  BY <1>3 DEF PoolInv, TypeOK, HolderInside, Inside, Threads
<1>6. SomeLeft'
  BY <1>3 DEF PoolInv, TypeOK, SomeLeft, Inside
<1>7. \A u \in Threads : ~Listening(u)'
  BY <1>3 DEF PoolInv, TypeOK, Listening, Inside
<1>8. FewUnderWay' /\ FewerOtherwise'
  BY <1>2, <1>7 DEF FewUnderWay, FewerOtherwise
<1>9. InOrder'
  BY <1>1 DEF PoolInv, InOrder
<1> QED BY <1>4, <1>5, <1>6, <1>8, <1>9 DEF PoolInv

LEMMA BrokenPoolInv == ASSUME PoolInv, NEW t \in Threads, Broken(t) PROVE PoolInv'
<1> USE DEF Broken, Invalidate, TryAgain, GiveUp, Goto
<1>1. pending' = {} /\ unread' = {} /\ skipped' = 0
  OBVIOUS
<1>2. \A u \in Threads : u # t => pc[u] \notin Inside
  BY Alone DEF Inside
<1>3. TypeOK'
  <2> USE DEF PoolInv, TypeOK
  <2>1. pc' \in [Threads -> Places] /\ attempt' \in [Threads -> {1, 2}]
    BY DEF Places
  <2>2. left' \in [Threads -> Nat] /\ asked' \in [Threads -> Nat]
    OBVIOUS
  <2>3. lock' \in Threads \union {Free} /\ client' \in BOOLEAN
    OBVIOUS
  <2>4. sent' \in Nat /\ calls' \in Nat /\ pending' \subseteq Nat /\ unread' \subseteq Nat
        /\ skipped' \in Nat
    BY <1>1
  <2> HIDE DEF PoolInv, Broken, Invalidate, TryAgain, GiveUp
  <2> QED BY <2>1, <2>2, <2>3, <2>4
<1>4. HolderInside'
  BY <1>2 DEF PoolInv, TypeOK, HolderInside, Inside, Threads
<1>5. SomeLeft'
  BY <1>2 DEF PoolInv, TypeOK, SomeLeft, Inside
<1>6. \A u \in Threads : ~Listening(u)'
  BY <1>2 DEF PoolInv, TypeOK, Listening, Inside
<1>7. FewUnderWay' /\ FewerOtherwise' /\ InOrder'
  BY <1>1, <1>6 DEF FewUnderWay, FewerOtherwise, InOrder, UnderWay
<1> QED BY <1>3, <1>4, <1>5, <1>7 DEF PoolInv

(* A reply not waited for counts as skipped: what was too late for the      *)
(* listener is late by one more for the next one.                          *)
LEMMA GoesOnPoolInv == ASSUME PoolInv, NEW t \in Threads, GoesOnAnyway(t) PROVE PoolInv'
<1> USE DEF GoesOnAnyway, Goto, GoOn
<1>1. left[t] \in Nat /\ (pc[t] = "send" => left[t] > 0)
  BY DEF PoolInv, TypeOK, SomeLeft
<1>2. \A u \in Threads : u # t => pc[u] \notin Inside
  BY Alone DEF Inside
<1>3. TypeOK'
  <2>1. CASE pc[t] = "send"
    BY <1>1, <2>1 DEF PoolInv, TypeOK, Places, Threads
  <2>2. CASE pc[t] = "recv"
    BY <1>1, <2>2 DEF PoolInv, TypeOK, Places, Threads
  <2> QED BY <2>1, <2>2
<1>4. HolderInside'
  BY <1>2 DEF PoolInv, TypeOK, HolderInside, Inside, Threads
<1>5. SomeLeft'
  <2>1. CASE pc[t] = "send"
    BY <1>1, <1>2, <2>1 DEF PoolInv, TypeOK, SomeLeft, Inside
  <2>2. CASE pc[t] = "recv"
    BY <1>1, <1>2, <2>2 DEF PoolInv, TypeOK, SomeLeft, Inside
  <2> QED BY <2>1, <2>2
<1>6. \A u \in Threads : ~Listening(u)'
  BY <1>2 DEF PoolInv, TypeOK, Listening, Inside
<1>7. UnderWay' \subseteq (sent' - skipped' + 1) .. sent'
  <2>1. CASE pc[t] = "send"
    BY <2>1, Quiet DEF UnderWay
  <2>2. CASE pc[t] = "recv"
    <3>1. UnderWay' = UnderWay /\ skipped' = skipped + 1 /\ sent' = sent
      BY <2>2 DEF UnderWay
    <3>2. UnderWay \subseteq (sent - skipped) .. sent /\ sent \in Nat /\ skipped \in Nat
      BY <2>2 DEF PoolInv, TypeOK, FewUnderWay, Listening
    <3> QED BY <3>1, <3>2
  <2> QED BY <2>1, <2>2
<1>8. FewUnderWay' /\ FewerOtherwise'
  BY <1>6, <1>7 DEF FewUnderWay, FewerOtherwise
<1>9. InOrder'
  BY DEF PoolInv, InOrder
<1> QED BY <1>3, <1>4, <1>5, <1>8, <1>9 DEF PoolInv

LEMMA NextPoolInv == PoolInv /\ [Next]_vars => PoolInv'
<1> SUFFICES ASSUME PoolInv, [Next]_vars PROVE PoolInv'
  OBVIOUS
<1>1. CASE Answer
  BY <1>1, AnswerPoolInv
<1>2. ASSUME NEW t \in Threads, Call(t) PROVE PoolInv'
  BY <1>2, CallPoolInv
<1>3. ASSUME NEW t \in Threads, Acquire(t) PROVE PoolInv'
  BY <1>3, AcquirePoolInv
<1>4. ASSUME NEW t \in Threads, Step(t) PROVE PoolInv'
  BY <1>4, EnsurePoolInv, SendPoolInv, RecvPoolInv, BrokenPoolInv, GoesOnPoolInv DEF Step
<1>5. CASE UNCHANGED vars
  <2>1. FewUnderWay' /\ FewerOtherwise' /\ InOrder'
    BY <1>5, SessionUntouched DEF vars, session, Listening
  <2>2. TypeOK' /\ HolderInside' /\ SomeLeft'
    BY <1>5 DEF vars, PoolInv, TypeOK, HolderInside, SomeLeft
  <2> QED BY <2>1, <2>2 DEF PoolInv
<1> QED BY <1>1, <1>2, <1>3, <1>4, <1>5 DEF Next

LEMMA AlwaysPoolInv == Spec => []PoolInv
<1>1. Init => PoolInv
  BY InitPoolInv
<1>2. PoolInv /\ [Next]_vars => PoolInv'
  BY NextPoolInv
<1> QED BY <1>1, <1>2, PTL DEF Spec

(* Every place, counter and set of commands keeps its type.                *)
THEOREM PoolTypes == Spec => []TypeOK
<1>1. PoolInv => TypeOK
  BY DEF PoolInv
<1> QED BY <1>1, AlwaysPoolInv, PTL

(* A reply a thread reads is that of the command it sent last, however many *)
(* share the session and whenever it breaks; after timeouts that the       *)
(* poller's idle disconnects swallowed, it is late by that many at most.   *)
THEOREM RepliesMatch == Spec => []AnswersMatch
<1>1. PoolInv => AnswersMatch
  BY DEF PoolInv, AnswersMatch, FewUnderWay, Listening, UnderWay
<1> QED BY <1>1, AlwaysPoolInv, PTL

(* ami_send_command's body: two threads are never inside _ami_pool_lock.   *)
THEOREM OneInside ==
    Spec => [](\A t, u \in Threads : pc[t] \in Inside /\ pc[u] \in Inside => t = u)
<1>1. PoolInv => \A t, u \in Threads : pc[t] \in Inside /\ pc[u] \in Inside => t = u
  BY Alone
<1> QED BY <1>1, AlwaysPoolInv, PTL

=============================================================================
