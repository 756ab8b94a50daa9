-------------------------------- MODULE Taps --------------------------------
(***************************************************************************)
(* The AudioSocket taps of a node (app.py): channels made with an id of    *)
(* the caller's, hung up by it and looked for afterwards; the breaker that *)
(* stops further ones when a leg has outlived its Hangup, until a cooldown *)
(* is over or Asterisk is another process; and the leak monitor, which     *)
(* reports taps nobody owns.  Two starters make taps, _start_broadcast and *)
(* _start_capture_only; any call to Asterisk may raise.                    *)
(***************************************************************************)
EXTENDS Naturals

CONSTANTS Starters, MaxTaps, MaxAsterisk,  \* bounds: taps originated, Asterisk processes
          Looks                            \* listings after a Hangup, 5

Taps == 1..MaxTaps
Absent == 0

VARIABLES asteriskPid,  \* Asterisk's process
          up,       \* it runs
          tap,      \* id -> "none", "up", "stuck" (deaf to Hangup) or "gone"
          old,      \* the taps up for LEAK_TAP_MIN_AGE_SEC
          breaker,  \* _tap_breaker[node]: [pid, over], or Closed
          st,       \* starter -> where it is, its tap and how often it has looked
          proved,   \* a leg of this Asterisk outlived its Hangup, within the cooldown
          listed,   \* the monitor's listing: the old taps, or Unknown
          orphans,  \* those of them that nobody owned when it was made
          alerted   \* _leak_active["tap_orphans"]
tapVars == <<asteriskPid, up, tap, old, breaker, st, proved, listed, orphans, alerted>>

Closed == [pid |-> Absent, over |-> TRUE]
Unknown == {Absent}
Idle == [at |-> "idle", tap |-> Absent, n |-> 0]
Alive == {i \in Taps : tap[i] \in {"up", "stuck"}}
Owned == {st[t].tap : t \in {s \in Starters : st[s].at = "holds"}}
ReadPid == {Absent} \cup (IF up THEN {asteriskPid} ELSE {})   \* _asterisk_pid(), Absent if not found

TapsInit == /\ asteriskPid = 1 /\ up = TRUE /\ tap = [i \in Taps |-> "none"]
            /\ old = {} /\ breaker = Closed
            /\ st = [t \in Starters |-> Idle] /\ proved = FALSE
            /\ listed = Unknown /\ orphans = {} /\ alerted = FALSE

Asterisk == <<asteriskPid, up>>
Monitor == <<listed, orphans, alerted>>
Goes(t, at, i, n) == st' = [st EXCEPT ![t] = [at |-> at, tap |-> i, n |-> n]]

(***************************************************************************)
(* A starter.                                                              *)
(***************************************************************************)
\* Mutant: a pid that was not found counts as another one
ClearsUnread(b, now) == (b.pid # Absent /\ now # b.pid) \/ b.over
\* _tap_breaker_remaining, with `now` the pid it reads
Clears(b, now) == (b.pid # Absent /\ now # Absent /\ now # b.pid) \/ b.over
Begin(t) == /\ st[t].at = "idle" /\ \E i \in Taps : tap[i] = "none"
            /\ \E now \in ReadPid : Clears(breaker, now)
            /\ breaker' = Closed /\ Goes(t, "begun", Absent, 0)
            /\ UNCHANGED <<Asterisk, tap, old, proved, Monitor>>

\* the modules are missing, the relay reports no port, or a call raised before the Originate
Abandon(t) == /\ st[t].at = "begun" /\ Goes(t, "idle", Absent, 0)
              /\ UNCHANGED <<Asterisk, tap, old, breaker, proved, Monitor>>

\* the answer may be lost: the tap is up then, and its starter gone
Originate(t) ==
    /\ st[t].at = "begun" /\ up
    /\ \E i \in Taps :
          /\ tap[i] = "none" /\ \A j \in 1..i - 1 : tap[j] # "none"
          /\ tap' = [tap EXCEPT ![i] = "up"]
          /\ Goes(t, "made", i, 0) \/ Goes(t, "idle", Absent, 0)
    /\ UNCHANGED <<Asterisk, old, breaker, proved, Monitor>>

Connected(t) == /\ st[t].at = "made" /\ tap[st[t].tap] = "up" /\ Goes(t, "holds", st[t].tap, 0)
                /\ UNCHANGED <<Asterisk, tap, old, breaker, proved, Monitor>>

\* no connection within 10 s; or the broadcast or capture is shut down: the registry lets it go
LetGo(t) == /\ st[t].at \in {"made", "holds"} /\ Goes(t, "hangup", st[t].tap, 0)
            /\ UNCHANGED <<Asterisk, tap, old, breaker, proved, Monitor>>

\* the reply does not matter, unless the call raises
HangupTap(t) ==
    /\ st[t].at = "hangup"
    /\ \/ Goes(t, "idle", Absent, 0) /\ UNCHANGED tap
       \/ /\ up /\ Goes(t, "look", st[t].tap, 0)
          /\ tap' \in {tap, [tap EXCEPT ![st[t].tap] = IF @ = "up" THEN "gone" ELSE @]}
    /\ UNCHANGED <<Asterisk, old, breaker, proved, Monitor>>

\* _tap_legs_alive, five times 0.3 s apart; a listing that raises says nothing
LookFor(t) ==
    /\ st[t].at = "look"
    /\ \/ Goes(t, "idle", Absent, 0)
       \/ /\ up /\ st[t].tap \in Alive
          /\ Goes(t, IF st[t].n + 1 = Looks THEN "trip" ELSE "look", st[t].tap, st[t].n + 1)
    /\ UNCHANGED <<Asterisk, tap, old, breaker, proved, Monitor>>

Trip(t) == /\ st[t].at = "trip" /\ Goes(t, "idle", Absent, 0)
           /\ \E now \in ReadPid : breaker' = [pid |-> now, over |-> FALSE]
           /\ proved' = (proved \/ st[t].tap \in Alive)
           /\ UNCHANGED <<Asterisk, tap, old, Monitor>>

CooledDown == /\ ~breaker.over /\ breaker' = [breaker EXCEPT !.over = TRUE] /\ proved' = FALSE
              /\ UNCHANGED <<Asterisk, tap, old, st, Monitor>>

(***************************************************************************)
(* Asterisk: a tap ends with its connection, or its ChanSpy leg sticks;    *)
(* only the end of the process ends that one.                              *)
(***************************************************************************)
TapEnds(i) == /\ tap[i] = "up" /\ tap' = [tap EXCEPT ![i] = "gone"] /\ old' = old \ {i}
              /\ UNCHANGED <<Asterisk, breaker, st, proved, Monitor>>
TapSticks(i) == /\ tap[i] = "up" /\ tap' = [tap EXCEPT ![i] = "stuck"]
                /\ UNCHANGED <<Asterisk, old, breaker, st, proved, Monitor>>
\* a start takes less than the grace
TapAges(i) == /\ i \in Alive \ old /\ old' = old \cup {i}
              /\ \A t \in Starters : ~(st[t].at = "made" /\ st[t].tap = i)
              /\ UNCHANGED <<Asterisk, tap, breaker, st, proved, Monitor>>
Stops == /\ up /\ asteriskPid < MaxAsterisk /\ up' = FALSE /\ old' = {} /\ proved' = FALSE
         /\ tap' = [i \in Taps |-> IF i \in Alive THEN "gone" ELSE tap[i]]
         /\ UNCHANGED <<asteriskPid, breaker, st, Monitor>>
Starts == /\ ~up /\ up' = TRUE /\ asteriskPid' = asteriskPid + 1
          /\ UNCHANGED <<tap, old, breaker, st, proved, Monitor>>

(***************************************************************************)
(* The leak monitor: the channels are listed first, the owners read after. *)
(***************************************************************************)
\* Mutant: a listing that raises is taken for an empty one
ListOrNothing == /\ listed = Unknown /\ orphans' = (old \cap Alive) \ Owned
                 /\ listed' \in {{}, IF up THEN old \cap Alive ELSE {}}
                 /\ UNCHANGED <<Asterisk, tap, old, breaker, st, proved, alerted>>
List == /\ listed = Unknown /\ up /\ listed' = old \cap Alive
        /\ orphans' = (old \cap Alive) \ Owned
        /\ UNCHANGED <<Asterisk, tap, old, breaker, st, proved, alerted>>
Evaluate == /\ listed # Unknown /\ alerted' = (listed \ Owned # {})
            /\ listed' = Unknown /\ orphans' = {}
            /\ UNCHANGED <<Asterisk, tap, old, breaker, st, proved>>

TapsNext == \/ \E t \in Starters : \/ Begin(t) \/ Abandon(t) \/ Originate(t) \/ Connected(t)
                                   \/ LetGo(t) \/ HangupTap(t) \/ LookFor(t) \/ Trip(t)
            \/ \E i \in Taps : TapEnds(i) \/ TapSticks(i) \/ TapAges(i)
            \/ CooledDown \/ Stops \/ Starts \/ List \/ Evaluate
TapsSpec == TapsInit /\ [][TapsNext]_tapVars

TapsTypeOK == /\ asteriskPid \in 1..MaxAsterisk /\ up \in BOOLEAN /\ old \subseteq Taps
              /\ tap \in [Taps -> {"none", "up", "stuck", "gone"}]
              /\ breaker \in [pid : 0..MaxAsterisk, over : BOOLEAN] /\ proved \in BOOLEAN
              /\ st \in [Starters -> [at : {"idle", "begun", "made", "holds", "hangup", "look",
                                                "trip"}, tap : Taps \cup {Absent}, n : 0..Looks]]
              /\ listed = Unknown \/ listed \subseteq Taps

(***************************************************************************)
(* While a leg that is known to be stranded is held by the Asterisk that   *)
(* runs, and its cooldown is not over, no starter begins another tap, not  *)
(* though the process id was not found when it tripped or when it is       *)
(* asked, nor though a second leg is proved stranded meanwhile.            *)
(***************************************************************************)
NoneBegins == \A t \in Starters : st[t].at = "idle" /\ st'[t].at = "begun" => ~proved
BreakerHolds == [][NoneBegins]_tapVars

(***************************************************************************)
(* The alert about stranded taps is taken back only on evidence: when the  *)
(* listing it rests on was made, every old tap had an owner.               *)
(***************************************************************************)
ClearsOnEvidence == alerted /\ ~alerted' => orphans = {}
ClearedOnEvidence == [][ClearsOnEvidence]_tapVars
=============================================================================
