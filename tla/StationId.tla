----------------------------- MODULE StationId ------------------------------
(***************************************************************************)
(* Station identification: one row of id_configs, the monitor thread that  *)
(* looks at it every 2 s (_run_id_monitors) with its runtime state, and    *)
(* the requests that play, toggle, change and delete it.                   *)
(*                                                                         *)
(* A pass copies the runtime state, plays if it must, and stores the copy: *)
(* Copy and Store are two steps, and a Test Play may come between.  Ages   *)
(* are in ticks, one pass to a tick.                                       *)
(***************************************************************************)
EXTENDS Naturals

CONSTANTS Required,  \* ID_REQUIRED_SEC
          Interval,  \* interval_sec of a row with its interval ID on
          Delay,     \* passes that idle_delay_sec takes, one at least
          Sound,     \* length of the ID on the air
          Grace,     \* ID_GUARD_GRACE_SEC
          MaxIdReq,  \* bound: requests and restarts
          MaxFaults  \* bound: plays that fail

\* _id_interval_sec caps the interval; an ID takes less than ten minutes
ASSUME IdAssumption ==
    /\ Required \in Nat \ {0} /\ Interval \in 1..Required /\ Delay \in Nat \ {0}
    /\ Sound \in Nat /\ Grace \in Nat /\ Sound + Grace <= Required
    /\ MaxIdReq \in Nat /\ MaxFaults \in Nat

VARIABLES idRow,   \* the row of id_configs
          rt,      \* _id_runtime of the row, or NoRuntime
          pass,    \* the pass under way: the copy it works on
          time,    \* whether the pass of this tick is done
          user,    \* somebody keys the node
          air,     \* ticks of our own ID left on the air
          unid,    \* ticks in use since the last ID
          heard,   \* somebody keyed the node since the last ID
          lost,    \* the guard of the last ID was overwritten or forgotten
          idBudget \* [req, faults] left

idVars == <<idRow, rt, pass, time, user, air, unid, heard, lost, idBudget>>
ghosts == <<unid, heard, lost>>

AtMost(n, m) == IF n > m THEN m ELSE n
Less(n) == IF n = 0 THEN 0 ELSE n - 1
Never == 2 * Required + 2      \* age of an ID too long ago to matter
NotSince == Required + 2       \* active_since is not set

NoRuntime == [state |-> "none"]
NewRuntime == [state |-> "idle", last |-> idRow.last, since |-> NotSince, quiet |-> 0,
               gmin |-> 0, gmax |-> 0]
NoPass == [pc |-> "idle"]

Aged(r) == IF r.state = "none" THEN r
           ELSE [r EXCEPT !.last = AtMost(@ + 1, Never),
                          !.since = IF @ = NotSince THEN @ ELSE AtMost(@ + 1, Required + 1),
                          !.quiet = IF r.state = "pending" THEN AtMost(@ + 1, Delay) ELSE 0,
                          !.gmin = Less(@), !.gmax = Less(@)]

IdInit == /\ idRow \in [there : {TRUE}, enabled : {TRUE}, initial : BOOLEAN,
                        every : {Interval, Required}, last : {Never}]
          /\ rt = NoRuntime /\ pass = NoPass /\ time = FALSE
          /\ user = FALSE /\ air = 0 /\ unid = 0 /\ heard = FALSE /\ lost = FALSE
          /\ idBudget = [req |-> MaxIdReq, faults |-> MaxFaults]

----------------------------------------------------------------------------
(* The air (external).                                                     *)

Watched == idRow.there /\ idRow.enabled

IdTick == /\ time /\ time' = FALSE
          /\ idRow' = [idRow EXCEPT !.last = AtMost(@ + 1, Never)]
          /\ rt' = Aged(rt) /\ air' = Less(air)
          /\ unid' = IF user \/ rt.state \in {"active", "pending"} THEN AtMost(unid + 1, Never) ELSE 0
          /\ UNCHANGED <<pass, user, heard, lost, idBudget>>

KeyNode == /\ ~time /\ pass.pc = "idle"
           /\ user' = ~user /\ heard' = (heard \/ user')
           /\ UNCHANGED <<idRow, rt, pass, time, air, unid, lost, idBudget>>

----------------------------------------------------------------------------
(* One pass of _run_id_monitors over the row.                              *)

\* _node_active: what is on the air keys the node, our own ID included
Active == user \/ air > 0

Copy == /\ ~time /\ pass.pc = "idle" /\ Watched
        /\ LET r == IF rt.state = "none" THEN NewRuntime ELSE rt
           IN rt' = r /\ pass' = [pc |-> "store", rt |-> r, active |-> Active,
                                  initial |-> idRow.initial, every |-> idRow.every]
        \* a monitor that begins anew without an initial ID counts from now
        /\ unid' = IF rt.state = "none" /\ ~idRow.initial THEN 0 ELSE unid
        /\ UNCHANGED <<idRow, time, user, air, heard, lost, idBudget>>

Unwatched == /\ ~time /\ pass.pc = "idle" /\ ~Watched /\ time' = TRUE /\ unid' = 0
             /\ UNCHANGED <<idRow, rt, pass, user, air, heard, lost, idBudget>>

\* Mutant: the guard lasts its minimum, whatever the length of the sound
GuardShort(r) == r.gmin > 0
\* still our own ID on the air
Guarded(r) == r.gmax > 0 /\ (r.gmin > 0 \/ pass.active)
Opened(r) == [r EXCEPT !.gmax = 0]

\* Mutant: the clock restarts at each key-up
ClockKeyUp(r) == r.since
\* _id_clock_start, as an age
Clock(r) == IF r.since = NotSince \/ r.last <= r.since + Required THEN r.last ELSE r.since

Recent(r) == r.last < Required

\* what the pass makes of the copy, and whether it plays
Outcome(r) ==
    IF pass.active
    THEN IF r.state = "idle"
         THEN [rt |-> [r EXCEPT !.state = "active", !.since = 0, !.quiet = 0],
               play |-> pass.initial /\ ~Recent(r)]
         ELSE LET s == [r EXCEPT !.state = "active", !.quiet = 0,
                                 !.since = IF @ = NotSince THEN 0 ELSE @]
              IN [rt |-> s, play |-> Clock(s) >= pass.every]
    ELSE IF r.state = "active" THEN [rt |-> [r EXCEPT !.state = "pending", !.quiet = 0], play |-> FALSE]
    ELSE [rt |-> r, play |-> r.state = "pending" /\ r.quiet >= Delay]

\* a final ID that went out ends the exchange
Over(r) == IF ~pass.active /\ r.state = "pending"
           THEN [r EXCEPT !.state = "idle", !.quiet = 0, !.since = NotSince] ELSE r
Marked(r) == [r EXCEPT !.last = 0, !.gmin = 1, !.gmax = Sound + Grace]
OnAir == air' = Sound /\ unid' = 0 /\ heard' = user

Store(r) == rt' = r /\ pass' = NoPass /\ time' = TRUE

Ignore == /\ pass.pc = "store" /\ Guarded(pass.rt)
          /\ pass' = NoPass /\ time' = TRUE
          /\ UNCHANGED <<idRow, rt, user, air, ghosts, idBudget>>

Watch == /\ pass.pc = "store" /\ ~Guarded(pass.rt)
         /\ ~Outcome(Opened(pass.rt)).play
         /\ Store(Outcome(Opened(pass.rt)).rt)
         /\ lost' = (lost \/ rt # pass.rt)
         /\ UNCHANGED <<idRow, user, air, unid, heard, idBudget>>

Play == /\ pass.pc = "store" /\ ~Guarded(pass.rt)
        /\ Outcome(Opened(pass.rt)).play
        /\ Store(Marked(Over(Outcome(Opened(pass.rt)).rt)))
        /\ OnAir /\ lost' = FALSE
        /\ idRow' = [idRow EXCEPT !.last = 0]
        /\ UNCHANGED <<user, idBudget>>

\* an initial ID that fails is not tried again: the clock runs from there
PlayFails == /\ pass.pc = "store" /\ ~Guarded(pass.rt)
             /\ Outcome(Opened(pass.rt)).play
             /\ idBudget.faults > 0 /\ idBudget' = [idBudget EXCEPT !.faults = @ - 1]
             /\ Store(Outcome(Opened(pass.rt)).rt)
             /\ lost' = (lost \/ rt # pass.rt)
             /\ unid' = IF pass.rt.state = "idle" THEN 0 ELSE unid
             /\ UNCHANGED <<idRow, user, air, heard>>

----------------------------------------------------------------------------
(* Requests, and a restart of HenWen.                                      *)

IdRequest == idRow.there /\ idBudget.req > 0 /\ idBudget' = [idBudget EXCEPT !.req = @ - 1]

TestPlay == /\ IdRequest
            /\ rt' = Marked(IF rt.state = "none" THEN NewRuntime ELSE rt)
            /\ idRow' = [idRow EXCEPT !.last = 0]
            /\ OnAir
            /\ UNCHANGED <<pass, time, user, lost>>

Toggle == /\ IdRequest
          /\ idRow' = [idRow EXCEPT !.enabled = ~@]
          /\ IF idRow.enabled THEN rt' = NoRuntime ELSE UNCHANGED rt
          /\ lost' = (lost \/ air > 0)
          /\ UNCHANGED <<pass, time, user, air, unid, heard>>

Update == /\ IdRequest
          /\ \E i \in BOOLEAN, e \in {Interval, Required} :
                idRow' = [idRow EXCEPT !.initial = i, !.every = e]
          /\ UNCHANGED <<rt, pass, time, user, air, ghosts>>

Delete == /\ IdRequest
          /\ idRow' = [idRow EXCEPT !.there = FALSE]
          /\ rt' = NoRuntime
          /\ UNCHANGED <<pass, time, user, air, ghosts>>

IdRestart == /\ IdRequest
             /\ rt' = NoRuntime /\ pass' = NoPass
             /\ lost' = (lost \/ air > 0)
             /\ UNCHANGED <<idRow, time, user, air, unid, heard>>

IdNext == \/ IdTick \/ KeyNode \/ Copy \/ Unwatched \/ Ignore \/ Watch \/ Play \/ PlayFails
          \/ TestPlay \/ Toggle \/ Update \/ Delete \/ IdRestart

IdSpec == IdInit /\ [][IdNext]_idVars

----------------------------------------------------------------------------
Runtimes == [state : {"idle", "active", "pending"}, last : 0..Never, since : 0..NotSince,
             quiet : 0..Delay, gmin : 0..1, gmax : 0..Sound + Grace]
Passes == [pc : {"store"}, rt : Runtimes, active : BOOLEAN, initial : BOOLEAN,
           every : {Interval, Required}]

IdTypeOK == /\ idRow \in [there : BOOLEAN, enabled : BOOLEAN, initial : BOOLEAN,
                         every : {Interval, Required}, last : 0..Never]
            /\ rt \in {NoRuntime} \union Runtimes /\ pass \in {NoPass} \union Passes
            /\ time \in BOOLEAN /\ user \in BOOLEAN /\ heard \in BOOLEAN /\ lost \in BOOLEAN
            /\ unid \in 0..Never /\ air \in 0..Sound
            /\ idBudget \in [req : 0..MaxIdReq, faults : 0..MaxFaults]

\* A watched node does not stay in use longer than ID_REQUIRED_SEC (and the
\* pass that then comes, or the pause the monitor waits out) without an
\* ID, a failed play costing one pass or pause more, through Test Plays, toggles and restarts
\* ("Longest a node may go in use without an ID").  A monitor started anew
\* with its initial ID off, or whose initial ID failed, counts from there.
InUseIdentified == unid <= Required + (1 + Delay) * (1 + MaxFaults - idBudget.faults)

\* Our own ID on the air does not begin an exchange, which would end in the
\* next ID, and so on for ever ("two IDs 2s apart every ~2m20s").  Only a
\* Test Play in the middle of a pass, a toggle or a restart during the ID
\* loses its guard.
BeginsByUse == rt.state = "idle" /\ rt'.state = "active" => heard \/ lost \/ lost'
OwnIdIgnored == [][BeginsByUse]_idVars
=============================================================================
