----------------------------- MODULE Connector ------------------------------
(***************************************************************************)
(* Smart Connector: one row of the table connectors, the scheduler thread  *)
(* that reads it every 15 s (_run_connectors), the requests that change it *)
(* (app.py /api/connectors...), the link it manages and the poller's cache *)
(* the scheduler looks at instead of the link.                             *)
(*                                                                         *)
(* The scheduler works on the copy of the row it read; every UPDATE is by  *)
(* id and looks at no state.  Ages are in ticks of 15 s, since the time    *)
(* stamps state_updated, connected_at and last_activity of the row.        *)
(***************************************************************************)
EXTENDS Naturals

CONSTANTS Force,     \* ticks in 'waiting' after which the connect is forced
          Settle,    \* settle_sec, in ticks
          Idle,      \* idle_limit_sec, in ticks
          MaxReq,    \* bound: requests, where no command fails
          MaxFaults  \* bound: commands that fail, where nothing is requested

VARIABLES row,      \* the row: there, enabled, kind, state and its ages
          sched,    \* the scheduler: its place and its copy of the row
          due,      \* whether schedule and minute match now
          linked,   \* whether the target is linked
          keyed,    \* whether the node is in use
          cache,    \* _ami_cache of the node
          manual,   \* a manual disconnect between command and UPDATE
          budget    \* [req, faults] left

vars == <<row, sched, due, linked, keyed, cache, manual, budget>>
node == <<linked, keyed, cache>>

Cap(n, m) == IF n > m THEN m ELSE n
MaxWait == Force + 1
MaxAge == Settle + Idle
NeverUpdated == MaxWait + 1      \* state_updated is NULL
\* only the ages the state makes somebody read are counted
Older(r) == IF r.state = "connected"
            THEN [r EXCEPT !.con = Cap(@ + 1, MaxAge), !.act = Cap(@ + 1, MaxAge)]
            ELSE [r EXCEPT !.since = IF @ = NeverUpdated THEN @ ELSE Cap(@ + 1, MaxWait)]

Sleeping == [pc |-> "sleep"]
NoCache == [known |-> FALSE, linked |-> FALSE, keyed |-> FALSE, fresh |-> FALSE]

Init == /\ \E k \in {"daily", "onetime", "manual"} :
              row = [there |-> TRUE, enabled |-> TRUE, kind |-> k, state |-> "idle",
                     since |-> NeverUpdated, con |-> MaxAge, act |-> MaxAge]
        /\ sched = Sleeping /\ due = FALSE
        /\ linked = FALSE /\ keyed = FALSE /\ cache = NoCache
        /\ manual = FALSE
        /\ budget \in {[req |-> MaxReq, faults |-> 0], [req |-> 0, faults |-> MaxFaults]}

----------------------------------------------------------------------------
(* Time, the air and the poller.                                           *)

Tick == /\ row' = Older(row)
        /\ due' \in BOOLEAN
        /\ UNCHANGED <<sched, node, manual, budget>>

Key == keyed' = ~keyed /\ UNCHANGED <<row, sched, due, linked, cache, manual, budget>>

\* the far end, another connector or a user ends or makes the link
LinkChanges == /\ linked' = ~linked
               /\ UNCHANGED <<row, sched, due, keyed, cache, manual, budget>>

Polled == [known |-> TRUE, linked |-> linked, keyed |-> keyed, fresh |-> TRUE]
Poll == /\ cache' = Polled /\ cache # Polled
        /\ UNCHANGED <<row, sched, due, linked, keyed, manual, budget>>

\* AMI is out: the cache is kept and grows old
Outage == /\ cache.fresh /\ cache' = [cache EXCEPT !.fresh = FALSE]
          /\ UNCHANGED <<row, sched, due, linked, keyed, manual, budget>>

----------------------------------------------------------------------------
(* One pass of _run_connectors over the row.                               *)

\* UPDATE connectors ... WHERE id=?
Update(r) == row' = IF row.there THEN r ELSE row
To(state) == [row EXCEPT !.state = state, !.since = 0, !.con = MaxAge, !.act = MaxAge]
Ended == To("idle")

Read == /\ sched.pc = "sleep" /\ row.there /\ row.enabled
        /\ sched' = [pc |-> "fire", row |-> row, due |-> due /\ row.kind # "manual"]
        /\ UNCHANGED <<row, due, node, manual, budget>>

Fire == /\ sched.pc = "fire"
        /\ IF sched.row.state \in {"idle", "error"} /\ sched.due
           THEN /\ Update(To("waiting"))
                /\ sched' = [sched EXCEPT !.pc = "waiting"]
           ELSE /\ UNCHANGED row
                /\ sched' = [sched EXCEPT !.pc = IF sched.row.state \in {"waiting", "connected"}
                                                 THEN sched.row.state ELSE "sleep"]
        /\ UNCHANGED <<due, node, manual, budget>>

\* the row, as it was read, has waited two minutes
Forced == sched.row.since = MaxWait
NotYet == sched' = Sleeping /\ UNCHANGED <<row, due, node, manual, budget>>

KeepWaiting == /\ sched.pc = "waiting" /\ cache.keyed /\ ~Forced /\ NotYet

\* what follows the command needs no more of the copy than this
Then(pc) == sched' = [pc |-> pc, row |-> [kind |-> sched.row.kind]]

MayConnect == sched.pc = "waiting" /\ (~cache.keyed \/ Forced)

\* ilink 3, after ilink 11 to those linked; a refusal or an exception fails
Connect == /\ MayConnect
           /\ linked' = TRUE /\ Then("connect")
           /\ UNCHANGED <<row, due, keyed, cache, manual, budget>>

Fault == budget.faults > 0 /\ budget' = [budget EXCEPT !.faults = @ - 1]

ConnectFails == /\ MayConnect /\ Fault
                /\ Then("failed")
                /\ UNCHANGED <<row, due, node, manual>>

\* a one-time connector is disabled whichever way its shot ended
Record(pc, r) == /\ sched.pc = pc /\ sched' = Sleeping
                 /\ Update([r EXCEPT !.enabled = @ /\ sched.row.kind # "onetime"])
                 /\ UNCHANGED <<due, node, manual, budget>>

Connected == Record("connect", [To("connected") EXCEPT !.con = 0, !.act = 0])
Failed == Record("failed", To("error"))

LinkGone == /\ sched.pc = "connected" /\ cache.known /\ ~cache.linked
            /\ sched' = Sleeping /\ Update(Ended)
            /\ UNCHANGED <<due, node, manual, budget>>

Monitored == sched.pc = "connected" /\ ~(cache.known /\ ~cache.linked)

Settling == /\ Monitored /\ sched.row.con < Settle /\ NotYet

\* Mutant: a node keyed when the cache went stale is active for ever
ActiveUnchecked == cache.keyed
\* Active, by a cache that is fresh
Active == cache.keyed /\ cache.fresh

Touch == /\ Monitored /\ sched.row.con >= Settle /\ Active
         /\ Update([row EXCEPT !.act = 0]) /\ sched' = Sleeping
         /\ UNCHANGED <<due, node, manual, budget>>

\* the settle window does not count as idle time
IdleFor == Cap(sched.row.act, sched.row.con - Settle)

NotIdleYet == /\ Monitored /\ sched.row.con >= Settle /\ ~Active /\ IdleFor < Idle /\ NotYet

TimesOut == Monitored /\ sched.row.con >= Settle /\ ~Active /\ IdleFor >= Idle

IdleDisconnect == /\ TimesOut
                  /\ linked' = FALSE /\ Then("disconnect")
                  /\ UNCHANGED <<row, due, keyed, cache, manual, budget>>

\* the row stays 'connected' and the next pass tries again
DisconnectFails == /\ TimesOut /\ Fault /\ sched' = Sleeping
                   /\ UNCHANGED <<row, due, node, manual>>

Disconnected == /\ sched.pc = "disconnect" /\ sched' = Sleeping /\ Update(Ended)
                /\ UNCHANGED <<due, node, manual, budget>>

Pass == \/ Read \/ Fire \/ KeepWaiting \/ Connect \/ ConnectFails \/ Connected \/ Failed
        \/ LinkGone \/ Settling \/ Touch \/ NotIdleYet
        \/ IdleDisconnect \/ DisconnectFails \/ Disconnected

----------------------------------------------------------------------------
(* Requests.                                                               *)

Request == row.there /\ budget.req > 0 /\ budget' = [budget EXCEPT !.req = @ - 1]

\* POST /connect: the row waits, enabled
ConnectNow == /\ Request /\ Update([To("waiting") EXCEPT !.enabled = TRUE])
              /\ UNCHANGED <<sched, due, node, manual>>

Toggle == /\ Request /\ row' = [row EXCEPT !.enabled = ~@]
          /\ UNCHANGED <<sched, due, node, manual>>

Delete == /\ Request /\ row' = [row EXCEPT !.there = FALSE]
          /\ UNCHANGED <<sched, due, node, manual>>

\* PATCH: the schedule changes, the state does not
Patch == /\ Request /\ \E k \in {"daily", "onetime", "manual"} : row' = [row EXCEPT !.kind = k]
         /\ UNCHANGED <<sched, due, node, manual>>

Reset == /\ Request /\ row' = Ended
         /\ UNCHANGED <<sched, due, node, manual>>

DisconnectNow == /\ Request /\ ~manual /\ manual' = TRUE /\ linked' = FALSE
                 /\ UNCHANGED <<row, sched, due, keyed, cache>>

DisconnectSaved == /\ manual /\ manual' = FALSE /\ Update(Ended)
                   /\ UNCHANGED <<sched, due, node, budget>>

Next == \/ Tick \/ Key \/ LinkChanges \/ Poll \/ Outage \/ Pass
        \/ ConnectNow \/ Toggle \/ Delete \/ Patch \/ Reset \/ DisconnectNow \/ DisconnectSaved

\* Time passes and the scheduler runs.  A cache that is wrong about the node's
\* being in use is refreshed or grows stale; a stale one may stay so for ever.
Ages == Tick /\ row' # row
Corrects == cache.fresh /\ cache.keyed # keyed /\ (Poll \/ Outage)
Fairness == WF_vars(Ages) /\ WF_vars(Pass) /\ WF_vars(Corrects)

Spec == Init /\ [][Next]_vars /\ Fairness

----------------------------------------------------------------------------
TypeOK == /\ row.state \in {"idle", "waiting", "connected", "error"}
          /\ row.since \in 0..NeverUpdated /\ row.con \in 0..MaxAge /\ row.act \in 0..MaxAge

\* A connector does not wait for ever for its node to fall idle, even if it
\* never does (test_connector_scheduling: the forced-connect fallback).
WaitingEnds == (row.there /\ row.enabled /\ row.state = "waiting")
                  ~> ~(row.there /\ row.enabled /\ row.state = "waiting")

\* A managed link does not outlive its idle limit for ever: unless the node
\* is in use the row leaves 'connected', also when AMI went out with the node
\* keyed and the cache has said so ever since, and when some disconnects fail.
Managed == row.there /\ row.enabled /\ row.state = "connected"
QuietLinkEnds == Managed ~> (~Managed \/ keyed)

\* A connect interrupts a node in use only when the row has waited two
\* minutes for it (_connector_upcoming_disconnect_all: "sitting in 'waiting'
\* for the local node to go idle (up to 2 minutes)").
WaitsForIdle == [][Connect /\ cache.keyed /\ row.state = "waiting" => row.since > Force]_vars
=============================================================================
