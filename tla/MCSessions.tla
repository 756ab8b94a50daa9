----------------------------- MODULE MCSessions -----------------------------
(***************************************************************************)
(* The low-latency sessions (LowLatency) and the kiosk's timed links       *)
(* (Links), which both must end what nobody uses any more.  One of them    *)
(* moves in a behaviour.                                                   *)
(***************************************************************************)
EXTENDS LowLatency

CONSTANTS p1, r1

VARIABLES part,   \* the part at work in this behaviour; the others stand still
    l_link, l_perm, l_keyed, l_ours, l_conn, l_row, l_permRow, l_open, l_prev,
    l_poll, l_req, l_budget, l_unwritten

L == INSTANCE Links WITH
    Peers <- {p1}, Requests <- {r1}, Limit <- 0, MaxReq <- 2,
    MaxRestarts <- 1, Faults <- {"command"}, link <- l_link, perm <- l_perm,
    keyed <- l_keyed, ours <- l_ours, conn <- l_conn, row <- l_row,
    permRow <- l_permRow, open <- l_open, prev <- l_prev, poller <- l_poll,
    req <- l_req, budget <- l_budget, unwritten <- l_unwritten

l_vars == <<l_link, l_perm, l_keyed, l_ours, l_conn, l_row, l_permRow, l_open,
            l_prev, l_poll, l_req, l_budget, l_unwritten>>

MCInit ==
    /\ part \in {"sessions", "links"}
    /\ Init
    /\ L!LinksInit
    \* two requests, or one and a restart
    /\ l_budget \in {[requests |-> 2, restarts |-> 0], [requests |-> 1, restarts |-> 1]}
    /\ part # "links" => l_budget.restarts = 0

\* a step of one part
SessionsDoes(A) == part = "sessions" /\ A /\ UNCHANGED <<part, l_vars>>
LinksDoes(A) == part = "links" /\ A /\ UNCHANGED <<part, vars>>

MCNext == \/ SessionsDoes(Next)
          \/ LinksDoes(L!LinksNext)

MCVars == <<part, vars, l_vars>>
MCSpec ==
    /\ MCInit /\ [][MCNext]_MCVars
    \* the fairness of each part, of which one moves
    /\ \A c \in Conns : /\ WF_MCVars(SessionsDoes(Attach(c) \/ Detach(c)))
                        /\ WF_MCVars(SessionsDoes(Unlocked(c)))
                        /\ WF_MCVars(SessionsDoes(Handler(c)))
    /\ WF_MCVars(SessionsDoes(Poll) \/ LinksDoes(L!PollThread))
    /\ WF_MCVars(SessionsDoes(Hangup) \/ LinksDoes(L!Tick))

-----------------------------------------------------------------------------
(* A node whose last low-latency listener left gives its capture up, and   *)
(* a browser that got its upgrade is not left hanging (LowLatency).        *)
NobodyLeftHanging == part = "sessions" => CaptureIsGivenUp /\ Admitted
(* A timed entry does not stay for ever on a quiet link (Links).           *)
TimedEntryEnds == part = "links" => L!TimedEntryEnds
=============================================================================
