----------------------------- MODULE Announcer ------------------------------
(***************************************************************************)
(* The announcement of one weather alert: the NWS poller that tracks the   *)
(* alert in a row of `announcements` and a sound file, the scheduler that  *)
(* plays the rows that are due (_run_due_announcements), and the requests  *)
(* that toggle, edit and delete the row or change the configuration.       *)
(*                                                                         *)
(* A tick is the poller's base interval, to which times are rounded up.    *)
(* The poller and the scheduler do their work within a tick, in steps that *)
(* interleave with each other and with a request.  A row's life counts     *)
(* down to its expiry plus _NWS_EXPIRE_GRACE_SEC.                          *)
(***************************************************************************)
EXTENDS Naturals

CONSTANTS Term,      \* ticks from an alert's issue to its expiry
          Grace,     \* _NWS_EXPIRE_GRACE_SEC, half an hour
          Interval,  \* interval_min, at least 1
          MaxDefer,  \* max_defer_sec
          MaxSleep,  \* _NWS_MAX_SLEEP
          MaxReq,    \* bound: requests, and issues and extensions of the alert
          MaxFailures  \* bound: failed syntheses and plays

ASSUME AnnouncerConstants ==
    /\ Term \in Nat /\ MaxDefer \in Nat /\ MaxReq \in Nat /\ MaxFailures \in Nat
    /\ Grace \in Nat \ {0} /\ Interval \in Nat \ {0} /\ MaxSleep \in Nat \ {0}

VARIABLES nws,     \* the alert at api.weather.gov: [listed, left, up]
          cfg,     \* nws_alert_config: "on", "display" (enabled off) or "off"
          row,     \* the announcement row, or NoRow
          sound,   \* whether its sound file is on disk
          poll,    \* the poller: [pc, sleep, level, cfg, key], with what it has read
           \* of the configuration and of the alert (its time left, 0 if unlisted)
          sched,   \* the scheduler's cycle: [pc, own], pc "due", "seen" (row snapshot),
           \* "fire" or "done"; own: the row it has seen is the one that is there
          admin,   \* the request in progress on the row that is there
          busy,    \* the node was active within idle_settle_sec
          over,    \* ticks the row has outlived its life, and [gone] its listing
          wait,    \* ticks an alert that is awaited has gone unheard
          budget   \* [req, faults] left

alertVars == <<nws, cfg, row, sound, poll, sched, admin, busy, over, wait, budget>>

Less(n) == IF n = 0 THEN 0 ELSE n - 1
Cap(n, m) == IF n > m THEN m ELSE n
Most(n, m) == IF n > m THEN n ELSE m
Late == MaxSleep + 1
\* the poller's longest sleep and the first play's deferral, or that of a replay
Longest == Most(MaxSleep + Most(1, MaxDefer), Interval + MaxDefer)

NoRow == [there |-> FALSE]
\* kept: window, interval, node and settling time are those the poller inserts
NewRow(left) == [there |-> TRUE, enabled |-> TRUE, kept |-> TRUE, exp |-> left,
                 life |-> left + Grace, age |-> 0, played |-> FALSE]

AlertsInit == /\ nws = [listed |-> FALSE, left |-> 0, up |-> TRUE]
              /\ cfg = "on" /\ row = NoRow /\ sound = FALSE
              /\ poll = [pc |-> "sleep", sleep |-> 0, level |-> 0, cfg |-> "on", key |-> 0]
              /\ sched = [pc |-> "due", own |-> FALSE] /\ admin = "none" /\ busy \in BOOLEAN
              /\ over = [life |-> 0, gone |-> 0] /\ wait = 0
              /\ budget = [req |-> MaxReq, faults |-> MaxFailures]

----------------------------------------------------------------------------
(* The weather service and the clock (external).                           *)

Spend == budget.req > 0 /\ budget' = [budget EXCEPT !.req = @ - 1]
Fault == budget.faults > 0 /\ budget' = [budget EXCEPT !.faults = @ - 1]

\* a new alert, or an extension of the one that is listed
Issue == /\ Spend /\ nws.left < Term
         /\ nws' = [nws EXCEPT !.listed = TRUE, !.left = Term]
         /\ wait' = IF nws.listed THEN wait ELSE 0
         /\ over' = [over EXCEPT !.gone = 0]
         /\ UNCHANGED <<cfg, row, sound, poll, sched, admin, busy>>

Cancel == /\ nws.listed /\ nws' = [nws EXCEPT !.listed = FALSE, !.left = 0] /\ wait' = 0
          /\ UNCHANGED <<cfg, row, sound, poll, sched, admin, busy, over, budget>>

UpOrDown == /\ nws' = [nws EXCEPT !.up = ~@]
            /\ over' = [over EXCEPT !.gone = 0] /\ wait' = 0
            /\ UNCHANGED <<cfg, row, sound, poll, sched, admin, busy, budget>>

\* the service answers, the switch is on, and nobody has disabled the row, given it another
\* schedule or is deleting it
Awaited == /\ nws.up /\ cfg = "on" /\ admin # "delete"
           /\ row.there => row.enabled /\ row.kept

\* the ages that run in a tick; an alert leaves the list at its expiry
Older == /\ row' = IF ~row.there THEN row
                   ELSE [row EXCEPT !.life = Less(@), !.exp = Less(@),
                                    !.age = Cap(@ + 1, Interval + MaxDefer)]
         /\ nws' = [nws EXCEPT !.left = Less(@), !.listed = nws.left > 1]
         /\ over' = [life |-> IF row.there /\ row.life = 0 THEN Cap(over.life + 1, Late) ELSE 0,
                     gone |-> IF row.there /\ ~nws.listed /\ nws.up /\ cfg # "off"
                              THEN Cap(over.gone + 1, Late) ELSE 0]
         /\ wait' = IF nws.left > 1 /\ Awaited THEN Cap(wait + 1, Longest + 1) ELSE 0

At(l) == sched' = [sched EXCEPT !.pc = l]
AlertsTick == /\ sched.pc = "done" /\ poll.pc = "sleep" /\ poll.sleep > 0
              /\ poll' = [poll EXCEPT !.sleep = @ - 1] /\ At("due")
              /\ busy' \in BOOLEAN /\ Older
              /\ UNCHANGED <<cfg, sound, admin, budget>>

----------------------------------------------------------------------------
(* _nws_alert_poll_loop.                                                   *)

Twice == <<1, 2, 4, 8, 16, 32, 64>>  \* 2 ** level
Sleep(level) == poll' = [poll EXCEPT !.pc = "sleep", !.level = level, !.key = 0,
                                     !.sleep = Cap(Twice[level + 1], MaxSleep)]
Goto(l) == poll' = [poll EXCEPT !.pc = l]
BeginAt(l) == poll' = [poll EXCEPT !.pc = l, !.cfg = cfg]
Fetches == poll.cfg # "off"
\* DELETE ... WHERE id: a row that comes later has another id, which neither the
\* scheduler's snapshot nor a request under way is about; an edit that is at its
\* text ("stray" then) replaces the file all the same
Removed == /\ row' = NoRow /\ over' = [life |-> 0, gone |-> 0]
           /\ sched' = [sched EXCEPT !.own = FALSE]
           /\ admin' = IF admin \in {"edit", "stray"} THEN "stray" ELSE "none"

\* Mutant: a row is expired by the fetch that succeeds only
ExpiredIfUp == row.there /\ row.life = 0 /\ nws.up
\* _nws_prune_expired_locally: more than the grace past its own expiry
Expired == row.there /\ row.life = 0

PollExpire == /\ poll.pc = "sleep" /\ poll.sleep = 0 /\ Expired
              /\ sound' = FALSE /\ BeginAt("expire")
              /\ UNCHANGED <<nws, cfg, row, sched, admin, busy, over, wait, budget>>
PollDropExpired == /\ poll.pc = "expire" /\ Removed /\ Goto("fetch")
                   /\ UNCHANGED <<nws, cfg, sound, busy, wait, budget>>
PollBegin == /\ poll.pc = "sleep" /\ poll.sleep = 0 /\ ~Expired /\ BeginAt("fetch")
             /\ UNCHANGED <<nws, cfg, row, sound, sched, admin, busy, over, wait, budget>>

PollIdle == /\ poll.pc = "fetch" /\ ~Fetches /\ Sleep(0)
            /\ UNCHANGED <<nws, cfg, row, sound, sched, admin, busy, over, wait, budget>>
PollDown == /\ poll.pc = "fetch" /\ Fetches /\ ~nws.up /\ Sleep(Cap(poll.level + 1, 6))
            /\ UNCHANGED <<nws, cfg, row, sound, sched, admin, busy, over, wait, budget>>
\* _nws_fetch_active_alerts, and the rows as they are then
PollFetch == /\ poll.pc = "fetch" /\ Fetches /\ nws.up
             /\ poll' = [poll EXCEPT !.key = IF nws.listed THEN nws.left ELSE 0,
                           !.pc = IF row.there /\ ~nws.listed THEN "inactive" ELSE "sync"]
             /\ UNCHANGED <<nws, cfg, row, sound, sched, admin, busy, over, wait, budget>>

PollUnlink == /\ poll.pc = "inactive" /\ sound' = FALSE /\ Goto("prune")
              /\ UNCHANGED <<nws, cfg, row, sched, admin, busy, over, wait, budget>>
PollPrune == /\ poll.pc = "prune" /\ Removed /\ Goto("sync")
             /\ UNCHANGED <<nws, cfg, sound, busy, wait, budget>>

\* _nws_sync_alert: what the fetched alert asks for
Tracks == poll.pc = "sync" /\ poll.key > 0 /\ poll.cfg = "on"
SyncNew == Tracks /\ ~row.there
SyncChanged == Tracks /\ row.there /\ row.exp # poll.key

\* the sound first, then the row
PollSynth == /\ SyncNew /\ sound' = TRUE /\ Goto("insert")
             /\ UNCHANGED <<nws, cfg, row, sched, admin, busy, over, wait, budget>>
PollInsert == /\ poll.pc = "insert" /\ row' = NewRow(poll.key) /\ Sleep(0)
              /\ UNCHANGED <<nws, cfg, sound, sched, admin, busy, over, wait, budget>>
PollResynth == /\ SyncChanged /\ sound' = TRUE /\ Goto("update")
               /\ UNCHANGED <<nws, cfg, row, sched, admin, busy, over, wait, budget>>
PollUpdate == /\ poll.pc = "update" /\ Sleep(0)
              /\ row' = IF row.there THEN [row EXCEPT !.exp = poll.key, !.life = poll.key + Grace]
                        ELSE row
              /\ UNCHANGED <<nws, cfg, sound, sched, admin, busy, over, wait, budget>>
\* a synthesis that fails leaves row and file as they are
PollSynthFails == /\ SyncNew \/ SyncChanged
                  /\ Fault /\ wait' = 0 /\ Sleep(0)
                  /\ UNCHANGED <<nws, cfg, row, sound, sched, admin, busy, over>>
PollDone == /\ poll.pc = "sync" /\ ~SyncNew /\ ~SyncChanged /\ Sleep(0)
            /\ UNCHANGED <<nws, cfg, row, sound, sched, admin, busy, over, wait, budget>>

Poller == \/ PollExpire \/ PollDropExpired \/ PollBegin \/ PollIdle \/ PollDown \/ PollFetch
          \/ PollUnlink \/ PollPrune \/ PollSynth \/ PollInsert \/ PollResynth
          \/ PollUpdate \/ PollSynthFails \/ PollDone

----------------------------------------------------------------------------
(* _run_due_announcements.  age counts from the last play, from the row's  *)
(* creation before the first one.                                          *)

Due == row.played => row.age >= Interval
\* max_defer_sec: due for too long to wait for a settled node
Forced == row.age >= IF row.played THEN Interval + MaxDefer ELSE MaxDefer
\* the window is the whole day; an edited schedule may let the row go or hold it back
MaySee == row.there /\ row.enabled /\ (row.kept => Due /\ (busy => Forced))
MustSee == row.there /\ row.kept /\ MaySee

Over == sched' = [pc |-> "done", own |-> FALSE]
SchedSkip == /\ sched.pc = "due" /\ ~MustSee /\ Over
             /\ UNCHANGED <<nws, cfg, row, sound, poll, admin, busy, over, wait, budget>>
SchedSees == /\ sched.pc = "due" /\ MaySee
             /\ sched' = [pc |-> "seen", own |-> TRUE]
             /\ UNCHANGED <<nws, cfg, row, sound, poll, admin, busy, over, wait, budget>>
\* deleted or disabled since this cycle started
SchedGone == /\ sched.pc = "seen" /\ ~(sched.own /\ row.enabled) /\ Over
             /\ UNCHANGED <<nws, cfg, row, sound, poll, admin, busy, over, wait, budget>>
SchedChecked == /\ sched.pc = "seen" /\ sched.own /\ row.enabled /\ At("fire")
                /\ UNCHANGED <<nws, cfg, row, sound, poll, admin, busy, over, wait, budget>>
\* Asterisk takes the command whether or not the file is there
SchedFire == /\ sched.pc = "fire" /\ Over
             /\ row' = IF sched.own THEN [row EXCEPT !.played = TRUE, !.age = 0] ELSE row
             /\ wait' = IF sound THEN 0 ELSE wait
             /\ UNCHANGED <<nws, cfg, sound, poll, admin, busy, over, budget>>
SchedFails == /\ sched.pc = "fire" /\ Fault /\ Over /\ wait' = 0
              /\ UNCHANGED <<nws, cfg, row, sound, poll, admin, busy, over>>

Scheduler == \/ SchedSkip \/ SchedSees \/ SchedGone \/ SchedChecked \/ SchedFire \/ SchedFails

----------------------------------------------------------------------------
(* Requests: api_nws_alerts_save_config, api_ann_toggle, api_ann_update,   *)
(* api_ann_delete.  One at a time.                                         *)

SaveConfig == /\ Spend /\ cfg' \in {"on", "display", "off"} \ {cfg} /\ wait' = 0
              /\ over' = [over EXCEPT !.gone = 0]
              /\ UNCHANGED <<nws, row, sound, poll, sched, admin, busy>>
Toggle == /\ Spend /\ row.there /\ row' = [row EXCEPT !.enabled = ~@] /\ wait' = 0
          /\ UNCHANGED <<nws, cfg, sound, poll, sched, admin, busy, over>>
\* an edit: of a new text first the file, over the old one; then the row, WHERE id
EditBegin == /\ Spend /\ row.there /\ admin = "none" /\ admin' \in {"edit", "update"}
             /\ UNCHANGED <<nws, cfg, row, sound, poll, sched, busy, over, wait>>
EditReplaces == /\ admin \in {"edit", "stray"} /\ sound' = TRUE
                /\ admin' = IF admin = "edit" THEN "update" ELSE "none"
                /\ UNCHANGED <<nws, cfg, row, poll, sched, busy, over, wait, budget>>
\* api_ann_update takes any window, interval, node and settling time
EditRow == /\ admin = "update" /\ admin' = "none"
           /\ \E k \in BOOLEAN : /\ row' = [row EXCEPT !.kept = k]
                                /\ wait' = IF k THEN wait ELSE 0
           /\ UNCHANGED <<nws, cfg, sound, poll, sched, busy, over, budget>>
DeleteSound == /\ Spend /\ row.there /\ admin = "none" /\ sound' = FALSE /\ admin' = "delete" /\ wait' = 0
               /\ UNCHANGED <<nws, cfg, row, poll, sched, busy, over>>
DeleteRow == /\ admin = "delete" /\ Removed /\ wait' = 0
             /\ UNCHANGED <<nws, cfg, sound, poll, busy, budget>>

AlertsNext == \/ Issue \/ Cancel \/ UpOrDown \/ AlertsTick \/ Poller \/ Scheduler
              \/ SaveConfig \/ Toggle \/ EditBegin \/ EditReplaces \/ EditRow
              \/ DeleteSound \/ DeleteRow

AlertsSpec == AlertsInit /\ [][AlertsNext]_alertVars

----------------------------------------------------------------------------
Services == [listed : BOOLEAN, left : 0..Term, up : BOOLEAN]
Switches == {"on", "display", "off"}
Rows == [there : {TRUE}, enabled : BOOLEAN, kept : BOOLEAN, exp : 0..Term,
         life : 0..(Term + Grace), age : 0..(Interval + MaxDefer), played : BOOLEAN]
Passes == [pc : {"sleep", "expire", "fetch", "inactive", "prune", "sync", "insert", "update"},
           sleep : 0..MaxSleep, level : 0..6, cfg : Switches, key : 0..Term]
Cycles == [pc : {"due", "seen", "fire", "done"}, own : BOOLEAN]
Admins == {"none", "edit", "stray", "update", "delete"}
Budgets == [req : 0..MaxReq, faults : 0..MaxFailures]
AlertsTypeOK ==
    /\ nws \in Services /\ cfg \in Switches /\ row \in {NoRow} \cup Rows /\ sound \in BOOLEAN
    /\ poll \in Passes /\ sched \in Cycles /\ admin \in Admins
    /\ busy \in BOOLEAN /\ over \in [life : 0..Late, gone : 0..Late]
    /\ wait \in 0..(Longest + 1) /\ budget \in Budgets

\* An alert that is listed while the service answers and the switch is on, and
\* whose row is not disabled, not being deleted and on the schedule the poller
\* gave it, goes out on the air within the poller's longest sleep and the longest
\* deferral, or within the replay interval and the deferral, however busy the
\* node is, though the row is replaced or its text edited meanwhile, its schedule
\* edited and set back, or an expired row and its file taken down.  (A row that
\* api_ann_update has given another window, interval or node may stay silent.)
HeardInTime == wait <= Longest

\* A row does not outlive its own expiry and grace by more than the longest
\* sleep of the poller, outage or not, and, while the service answers, not the
\* alert's listing either.
SilentWhenOver == over.life <= MaxSleep /\ over.gone <= MaxSleep

\* An alert is heard in time and silent when it is over.
AlertsOnTime == AlertsTypeOK /\ HeardInTime /\ SilentWhenOver
=============================================================================
