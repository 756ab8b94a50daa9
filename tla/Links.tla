------------------------------- MODULE Links --------------------------------
(***************************************************************************)
(* The links of one local node and what HenWen remembers of them: the      *)
(* status poller (app.py _poll_loop), the requests of the Status Board and *)
(* of the Dashboard that connect, disconnect and time links, the in-memory *)
(* table _kiosk_temp_conns, its two tables in the database, the connection *)
(* history, and a restart of HenWen under a running Asterisk.              *)
(*                                                                         *)
(* Time is counted in ticks; an age is the time since last_active, capped  *)
(* one above the idle limit.  A database write is one step and may fail,   *)
(* which everyone but a request that makes a link permanent only logs; the *)
(* writes the poller defers run after it has released the AMI lock, so     *)
(* requests slip between them.                                             *)
(***************************************************************************)
EXTENDS Naturals, FiniteSets

CONSTANTS Peers,      \* remote nodes
          Requests,   \* web request threads
          Limit,      \* kiosk_idle_timeout_sec, in ticks
          MaxReq,     \* bound: requests in one behaviour
          MaxRestarts,\* bound: restarts in one behaviour
          Faults      \* subset of {"command", "database"}

VARIABLES link,     \* Asterisk's view of the link to each peer
          perm,     \* peers Asterisk holds a permanent link to
          keyed,    \* peers whose link is keyed
          ours,     \* links a request set up and recorded, not down since
          conn,     \* _kiosk_temp_conns
          row,      \* table kiosk_temp_conns
          permRow,  \* table permanent_links
          open,     \* peers with an open row in connection_history
          prev,     \* _prev_connected_map of this node
          poller,   \* the poller's place, its snapshot and deferred work
          req,      \* each request's place
          budget,   \* requests and restarts left
          unwritten \* ghost: peers whose last write to the history failed

ASSUME LimitAssumption == Limit \in Nat /\ MaxReq \in Nat /\ MaxRestarts \in Nat

asteriskLinks == <<link, perm, keyed, ours>>
tables == <<row, permRow, open, unwritten>>
linkVars == <<link, perm, keyed, ours, conn, row, permRow, open, prev, poller, req,
              budget, unwritten>>

Ages == 0..Limit + 1
NoEntry == [tracked |-> FALSE]
Entry(p, x, a, u) == [tracked |-> TRUE, perm |-> p, exempt |-> x, age |-> a, unsaved |-> u]
Row(x, a) == [tracked |-> TRUE, exempt |-> x, age |-> a]
Older(e) == IF e.tracked THEN [e EXCEPT !.age = IF @ > Limit THEN @ ELSE @ + 1] ELSE e
Timed(p) == conn[p].tracked /\ ~conn[p].perm /\ ~conn[p].exempt

PollIdle == [pc |-> "idle", all |-> {}, est |-> {}, keyed |-> {}, opens |-> {}, closes |-> {},
             saves |-> [p \in Peers |-> NoEntry], deletes |-> {}, hangup |-> {}]
ReqIdle == [pc |-> "idle"]
Locked == poller.pc \in {"track", "touch", "expire", "hangup"}

LinksInit == /\ link = [p \in Peers |-> "down"]
             /\ perm = {} /\ keyed = {} /\ ours = {}
             /\ conn = [p \in Peers |-> NoEntry] /\ row = [p \in Peers |-> NoEntry]
             /\ permRow = {} /\ open = {} /\ prev = {} /\ unwritten = {}
             /\ poller = PollIdle
             /\ req = [r \in Requests |-> ReqIdle]
             /\ budget \in [requests : 0..MaxReq, restarts : 0..MaxRestarts]

----------------------------------------------------------------------------
(* Asterisk (external): links come up, drop, are dialled from outside.     *)

Establish(p) == /\ link[p] = "dialing"
                /\ link' = [link EXCEPT ![p] = "up"]
                /\ UNCHANGED <<perm, keyed, ours, conn, tables, prev, poller, req, budget>>

Down(p) == /\ link' = [link EXCEPT ![p] = IF p \in perm THEN "dialing" ELSE "down"]
           /\ keyed' = keyed \ {p}
           /\ ours' = IF p \in perm THEN ours ELSE ours \ {p}

Drop(p) == /\ link[p] = "up" /\ Down(p)
           /\ UNCHANGED <<perm, conn, tables, prev, poller, req, budget>>

Inbound(p) == /\ link[p] = "down"
              /\ link' = [link EXCEPT ![p] = "up"]
              /\ UNCHANGED <<perm, keyed, ours, conn, tables, prev, poller, req, budget>>

Key(p) == /\ link[p] = "up"
          /\ keyed' = IF p \in keyed THEN keyed \ {p} ELSE keyed \union {p}
          /\ UNCHANGED <<link, perm, ours, conn, tables, prev, poller, req, budget>>

\* ilink 2/3 and 12/13: a peer already linked in that mode is left as it is
Dial(p, permanent) ==
    IF link[p] = "down"
    THEN /\ link' = [link EXCEPT ![p] = "dialing"]
         /\ perm' = IF permanent THEN perm \union {p} ELSE perm
         /\ UNCHANGED <<keyed, ours>>
    ELSE UNCHANGED asteriskLinks

Hangup(p) == /\ link' = [link EXCEPT ![p] = "down"] /\ perm' = perm \ {p}
             /\ keyed' = keyed \ {p} /\ ours' = ours \ {p}

Ilink11(p) == Hangup(p)
\* Mutant: the idle pass hangs up with ilink 11
Ilink1Always(p) == Hangup(p)
\* ilink 1 does nothing to a permanent link
Ilink1(p) == IF p \in perm THEN UNCHANGED asteriskLinks ELSE Hangup(p)

Tick == /\ conn' = [p \in Peers |-> Older(conn[p])]
        /\ row' = [p \in Peers |-> Older(row[p])]
        /\ poller' = [poller EXCEPT !.saves = [p \in Peers |-> Older(@[p])]]
        /\ req' = [r \in Requests |-> IF req[r].pc = "save"
                      THEN [req[r] EXCEPT !.entry = Older(@)] ELSE req[r]]
        /\ <<conn', row', poller', req'>> # <<conn, row, poller, req>>
        /\ UNCHANGED <<asteriskLinks, permRow, open, unwritten, prev, budget>>

----------------------------------------------------------------------------
(* Requests.                                                               *)

RequestAt(r, pc) == req' = [req EXCEPT ![r].pc = pc]
Done(r) == req' = [req EXCEPT ![r] = ReqIdle]
Commands == {"temp", "perm", "raw", "disconnect"}

StartRequest(r, op, p) ==
    /\ req[r].pc = "idle" /\ budget.requests > 0
    /\ budget' = [budget EXCEPT !.requests = @ - 1]
    /\ req' = [req EXCEPT ![r] = [pc |-> IF op \in Commands THEN "command" ELSE "track",
                                  op |-> op, peer |-> p, entry |-> NoEntry]]
    /\ UNCHANGED <<asteriskLinks, conn, tables, prev, poller>>

\* ami_send_command: one command at a time, never while the poller reads
Commanding(r, ops) == req[r].pc = "command" /\ ~Locked /\ req[r].op \in ops

DisconnectPeer(r) == /\ Commanding(r, {"disconnect"}) /\ Ilink11(req[r].peer) /\ Done(r)
                     /\ UNCHANGED <<conn, tables, prev, poller, budget>>

\* app_rpt may refuse: /api/status/connect tracks the link all the same
Connect(r) == /\ Commanding(r, {"temp", "perm"}) /\ RequestAt(r, "track")
              /\ Dial(req[r].peer, req[r].op = "perm") \/ UNCHANGED asteriskLinks
              /\ UNCHANGED <<conn, tables, prev, poller, budget>>

\* /api/ami/connect tracks nothing, in any mode
RawConnect(r) == /\ Commanding(r, {"raw"}) /\ Done(r)
                 /\ \E permanent \in BOOLEAN : Dial(req[r].peer, permanent)
                 /\ UNCHANGED <<conn, tables, prev, poller, budget>>

\* /api/ami/perm_connect looks at the outcome and stops
PanelRefused(r) == /\ Commanding(r, {"perm"}) /\ Done(r)
                   /\ UNCHANGED <<asteriskLinks, conn, tables, prev, poller, budget>>

\* both attempts raise; the first may have reached app_rpt
CommandFails(r) ==
    LET p == req[r].peer IN
    /\ "command" \in Faults
    /\ Commanding(r, Commands) /\ Done(r)
    /\ \/ UNCHANGED asteriskLinks
       \/ req[r].op = "disconnect" /\ Ilink11(p)
       \/ req[r].op # "disconnect" /\ Dial(p, req[r].op = "perm")
    /\ UNCHANGED <<conn, tables, prev, poller, budget>>

Remember(r, e) ==
    LET p == req[r].peer IN
    /\ conn' = [conn EXCEPT ![p] = e]
    /\ ours' = IF req[r].op \in {"temp", "perm"} /\ link[p] # "down"
               THEN ours \union {p} ELSE ours
    /\ req' = [req EXCEPT ![r] = IF e.perm /\ @.op = "squash" THEN ReqIdle
                                 ELSE [@ EXCEPT !.pc = "save", !.entry = e]]

Tracking(r, ops) == req[r].pc = "track" /\ req[r].op \in ops
                    /\ UNCHANGED <<link, perm, keyed, tables, prev, poller, budget>>

Track(r) == /\ Tracking(r, {"temp", "perm"})
            /\ Remember(r, Entry(req[r].op = "perm", FALSE, 0, FALSE))

Squash(r) == LET c == conn[req[r].peer] IN
    /\ Tracking(r, {"squash"})
    /\ Remember(r, IF c.tracked THEN [c EXCEPT !.exempt = TRUE] ELSE Entry(FALSE, TRUE, 0, FALSE))

Restore(r) == LET c == conn[req[r].peer] IN
    /\ Tracking(r, {"restore"})
    /\ IF c.tracked /\ c.perm THEN Done(r) /\ UNCHANGED <<conn, ours>>
       ELSE Remember(r, Entry(FALSE, FALSE, 0, c.tracked /\ c.unsaved))

ResetIdle(r) == LET c == conn[req[r].peer] IN
    /\ Tracking(r, {"reset"})
    /\ IF c.tracked /\ ~c.perm THEN Remember(r, [c EXCEPT !.age = 0])
       ELSE Done(r) /\ UNCHANGED <<conn, ours>>

MayFail == "database" \in Faults

\* a link made permanent is written first, and its timed row deleted after that
Save(r) ==
    LET p == req[r].peer e == req[r].entry IN
    /\ req[r].pc = "save"
    /\ \/ e.perm /\ permRow' = permRow \union {p} /\ row' = [row EXCEPT ![p] = NoEntry]
       \/ e.perm /\ permRow' = permRow \union {p} /\ MayFail /\ UNCHANGED row
       \/ ~e.perm /\ row' = [row EXCEPT ![p] = Row(e.exempt, e.age)] /\ UNCHANGED permRow
       \/ MayFail /\ UNCHANGED <<row, permRow>>
    /\ Done(r)
    /\ UNCHANGED <<asteriskLinks, conn, open, unwritten, prev, poller, budget>>

----------------------------------------------------------------------------
(* The poller: one cycle reads the node under the AMI lock, settles the    *)
(* memory, hangs up what is overdue, releases the lock and writes.         *)

PollStep(from, to) == poller.pc = from /\ poller' = [poller EXCEPT !.pc = to]
\* (what no later step of the cycle reads is emptied, to save states)

PollRead == /\ poller.pc = "idle"
            /\ poller' = [poller EXCEPT !.pc = "track",
                                        !.all = {p \in Peers : link[p] # "down"},
                                        !.est = {p \in Peers : link[p] = "up"},
                                        !.keyed = keyed]
            /\ UNCHANGED <<asteriskLinks, conn, tables, prev, req, budget>>

\* Mutant: a blip of the connect state drops the peer
StillOpenBlip == poller.est
StillOpen == (prev \union poller.est) \intersect poller.all

PollTrack ==
    LET gone == prev \ poller.all IN
    /\ poller.pc = "track"
    /\ poller' = [poller EXCEPT !.pc = "touch", !.opens = poller.est \ prev, !.closes = gone,
                                !.est = {}]
    /\ prev' = StillOpen
    /\ conn' = [p \in Peers |-> IF p \in gone THEN NoEntry ELSE conn[p]]
    /\ UNCHANGED <<asteriskLinks, tables, req, budget>>

\* keyed restarts the clock; going quiet schedules one write of it
PollTouch ==
    LET quiet == {p \in Peers : Timed(p) /\ p \notin poller.keyed /\ conn[p].unsaved} IN
    /\ poller.pc = "touch"
    /\ conn' = [p \in Peers |->
                   IF Timed(p) /\ p \in poller.keyed THEN [conn[p] EXCEPT !.age = 0, !.unsaved = TRUE]
                   ELSE IF p \in quiet THEN [conn[p] EXCEPT !.unsaved = FALSE] ELSE conn[p]]
    /\ poller' = [poller EXCEPT !.pc = "expire", !.keyed = {},
                                !.saves = [p \in Peers |-> IF p \in quiet
                                              THEN Row(FALSE, conn[p].age) ELSE NoEntry]]
    /\ UNCHANGED <<asteriskLinks, tables, prev, req, budget>>

Overdue == {p \in Peers : Timed(p) /\ conn[p].age > Limit}

\* Mutant: overdue entries of peers not linked are kept
ForgottenListed == Overdue \intersect poller.all
Forgotten == Overdue

PollExpire ==
    /\ poller.pc = "expire"
    /\ conn' = [p \in Peers |-> IF p \in Forgotten THEN NoEntry ELSE conn[p]]
    /\ poller' = [poller EXCEPT !.pc = "hangup", !.hangup = Overdue \intersect poller.all,
                                !.all = {}, !.deletes = Forgotten]
    /\ UNCHANGED <<asteriskLinks, tables, prev, req, budget>>

\* a failed ilink 1 is only logged
PollHangup(p) ==
    /\ poller.pc = "hangup" /\ p \in poller.hangup
    /\ poller' = [poller EXCEPT !.hangup = @ \ {p}]
    /\ Ilink1(p)
    /\ UNCHANGED <<conn, tables, prev, req, budget>>

HangupFails(p) == /\ "command" \in Faults
                  /\ poller.pc = "hangup" /\ p \in poller.hangup
                  /\ poller' = [poller EXCEPT !.hangup = @ \ {p}]
                  /\ UNCHANGED <<asteriskLinks, conn, tables, prev, req, budget>>

PollUnlock == /\ poller.hangup = {} /\ PollStep("hangup", "opens")
              /\ UNCHANGED <<asteriskLinks, conn, tables, prev, req, budget>>

\* what is written of what is due: each peer's write may fail by itself
Written(due) == IF MayFail THEN SUBSET due ELSE {due}
NotWritten(due, done) == unwritten' = (unwritten \ done) \union (due \ done)

PollOpens == \E done \in Written(poller.opens) :
               /\ poller.pc = "opens" /\ poller' = [poller EXCEPT !.pc = "closes", !.opens = {}]
               /\ open' = open \union done /\ NotWritten(poller.opens, done)
               /\ UNCHANGED <<asteriskLinks, conn, row, permRow, prev, req, budget>>

PollCloses == \E done \in Written(poller.closes) :
                /\ PollStep("closes", "prunes")
                /\ open' = open \ done /\ NotWritten(poller.closes, done)
                /\ UNCHANGED <<asteriskLinks, conn, row, permRow, prev, req, budget>>

PollPrunes == \E done \in Written(poller.closes) :
                /\ poller.pc = "prunes" /\ poller' = [poller EXCEPT !.pc = "saves", !.closes = {}]
                /\ permRow' = permRow \ done
                /\ row' = [p \in Peers |-> IF p \in done THEN NoEntry ELSE row[p]]
                /\ UNCHANGED <<asteriskLinks, conn, open, unwritten, prev, req, budget>>

PollSaves == \E done \in Written({p \in Peers : poller.saves[p].tracked}) :
               /\ poller.pc = "saves"
               /\ poller' = [poller EXCEPT !.pc = "deletes", !.saves = PollIdle.saves]
               /\ row' = [p \in Peers |-> IF p \in done THEN poller.saves[p] ELSE row[p]]
               /\ UNCHANGED <<asteriskLinks, conn, permRow, open, unwritten, prev, req, budget>>

PollDeletes == \E done \in Written(poller.deletes) :
                 /\ poller.pc = "deletes" /\ poller' = PollIdle
                 /\ row' = [p \in Peers |-> IF p \in done THEN NoEntry ELSE row[p]]
                 /\ UNCHANGED <<asteriskLinks, conn, permRow, open, unwritten, prev, req, budget>>

----------------------------------------------------------------------------
(* HenWen dies and starts again; Asterisk and its links live on.           *)

\* from those of the two tables that could be read
Rehydrated(p, perms, temps) ==
    IF perms /\ p \in permRow THEN Entry(TRUE, FALSE, 0, FALSE)
    ELSE IF temps /\ row[p].tracked THEN Entry(FALSE, row[p].exempt, row[p].age, FALSE)
    ELSE NoEntry

\* the rows left open are closed, unless that fails
Restart == /\ budget.restarts > 0
           /\ budget' = [budget EXCEPT !.restarts = @ - 1]
           /\ \/ open' = {} /\ unwritten' = {}
              \/ MayFail /\ unwritten' = open /\ UNCHANGED open
           /\ prev' = {} /\ poller' = PollIdle
           /\ req' = [r \in Requests |-> ReqIdle]
           /\ \E perms, temps \in BOOLEAN :
                 /\ MayFail \/ (perms /\ temps)
                 /\ conn' = [p \in Peers |-> Rehydrated(p, perms, temps)]
           /\ UNCHANGED <<asteriskLinks, row, permRow>>

PollThread == \/ PollRead \/ PollTrack \/ PollTouch \/ PollExpire \/ PollUnlock
          \/ \E p \in Peers : PollHangup(p) \/ HangupFails(p)
          \/ PollOpens \/ PollCloses \/ PollPrunes \/ PollSaves \/ PollDeletes

Serve(r) == \/ DisconnectPeer(r) \/ Connect(r) \/ RawConnect(r) \/ PanelRefused(r) \/ CommandFails(r)
            \/ Track(r) \/ Squash(r) \/ Restore(r) \/ ResetIdle(r) \/ Save(r)

LinksNext == \/ \E p \in Peers : Establish(p) \/ Drop(p) \/ Inbound(p) \/ Key(p)
             \/ Tick \/ PollThread \/ Restart
             \/ \E r \in Requests : Serve(r)
             \/ \E r \in Requests, p \in Peers :
                   \E op \in Commands \union {"squash", "restore", "reset"} : StartRequest(r, op, p)

LinksFairness == WF_linkVars(Tick) /\ WF_linkVars(PollThread)

LinksSpec == LinksInit /\ [][LinksNext]_linkVars /\ LinksFairness

----------------------------------------------------------------------------
Entries == {NoEntry} \union
           [tracked : {TRUE}, perm : BOOLEAN, exempt : BOOLEAN, age : Ages, unsaved : BOOLEAN]
Rows == {NoEntry} \union [tracked : {TRUE}, exempt : BOOLEAN, age : Ages]
Cycle == [pc : {"idle", "track", "touch", "expire", "hangup", "opens", "closes", "prunes",
                "saves", "deletes"},
          all : SUBSET Peers, est : SUBSET Peers, keyed : SUBSET Peers, opens : SUBSET Peers,
          closes : SUBSET Peers, saves : [Peers -> Rows], deletes : SUBSET Peers,
          hangup : SUBSET Peers]
Asking == [pc : {"command", "track", "save"}, op : Commands \union {"squash", "restore", "reset"},
           peer : Peers, entry : Entries]

LinksTypeOK == /\ link \in [Peers -> {"down", "dialing", "up"}]
               /\ perm \subseteq Peers /\ keyed \subseteq Peers /\ ours \subseteq Peers
               /\ conn \in [Peers -> Entries] /\ row \in [Peers -> Rows]
               /\ permRow \subseteq Peers /\ open \subseteq Peers /\ prev \subseteq Peers
               /\ poller \in Cycle
               /\ req \in [Requests -> {ReqIdle} \union Asking]
               /\ budget \in [requests : 0..MaxReq, restarts : 0..MaxRestarts]
               /\ unwritten \subseteq Peers

\* Between two cycles the connection history has an open row for exactly the
\* peers the poller counts as connected, across requests, blips of the connect
\* state and restarts (_poll_loop's note on link_connect_state), but for the
\* peers whose own last write failed: a row that could not be written or closed
\* spoils no other peer's, and the next write that succeeds mends it.
HistoryMatches ==
    poller.pc = "idle" => \A p \in Peers \ unwritten : p \in open <=> p \in prev

\* An idle timeout never ends a permanent link, whatever HenWen believes of
\* it: /api/status/connect may have recorded a permanent link as temporary.
HangupSpares == poller.pc = "hangup" => perm \subseteq perm'
PermanentSurvivesIdle == [][HangupSpares]_linkVars

\* A link a request set up and that has been up since is one HenWen remembers,
\* once nobody is in the middle of something: it shows on the board with its
\* badge and its idle clock, and is one day disconnected
\* (_rehydrate_kiosk_temp_conns: "a temporary connection is supposed to time
\* out").
KioskLinkIsTracked ==
    (poller.pc = "idle" /\ \A r \in Requests : req[r].pc = "idle")
        => \A p \in ours : conn[p].tracked

\* A timed entry does not stay for ever on a quiet link: it is hung up,
\* dropped, exempted or made permanent, and a restart that reads its row back
\* times it on.
TimedEntryEnds == \A p \in Peers : Timed(p) ~> (~Timed(p) \/ p \in keyed)
=============================================================================
