------------------------------ MODULE MCNodes ------------------------------
(***************************************************************************)
(* What talks to Asterisk through the manager interface, the connection    *)
(* pool (AmiPool) and the Smart Connector (Connector); and the other thing *)
(* every thread shares, the database at a cold start (Schema).  One of     *)
(* them moves in a behaviour.                                              *)
(***************************************************************************)
EXTENDS AmiPool

VARIABLES part,   \* the part at work in this behaviour; the others stand still
    c_row, c_sched, c_due, c_linked, c_keyed, c_cache, c_manual, c_budget,
    h_chapter, h_stored, h_draft, h_writer, h_pc, h_told, h_conn, h_ready,
    h_tries, h_cuts, h_chosen

C == INSTANCE Connector WITH
    Force <- 1, Settle <- 1, Idle <- 1, MaxReq <- 1, MaxFaults <- 1,
    row <- c_row, sched <- c_sched, due <- c_due, linked <- c_linked,
    keyed <- c_keyed, cache <- c_cache, manual <- c_manual, budget <- c_budget
H == INSTANCE Schema WITH
    Pollers <- {"p1", "p2"}, StartupCalls <- 1, MaxCuts <- 1,
    chapter <- h_chapter, stored <- h_stored, draft <- h_draft, writer <- h_writer,
    pc <- h_pc, told <- h_told, conn <- h_conn, ready <- h_ready,
    tries <- h_tries, cuts <- h_cuts, chosen <- h_chosen

c_vars == <<c_row, c_sched, c_due, c_linked, c_keyed, c_cache, c_manual,
            c_budget>>
h_vars == <<h_chapter, h_stored, h_draft, h_writer, h_pc, h_told, h_conn,
            h_ready, h_tries, h_cuts, h_chosen>>

MCInit ==
    /\ part \in {"ami", "conn", "schema"}
    /\ Init
    /\ C!Init
    /\ part # "conn" => c_row.kind = "daily" /\ c_budget.req = 0
    /\ H!SchemaInit /\ h_chapter = "favorites"
    /\ part # "schema" => h_stored = H!Fresh

\* a step of one part
AmiDoes(A) == part = "ami" /\ A /\ UNCHANGED <<part, c_vars, h_vars>>
ConnDoes(A) == part = "conn" /\ A /\ UNCHANGED <<part, vars, h_vars>>
SchemaDoes(A) == part = "schema" /\ A /\ UNCHANGED <<part, vars, c_vars>>

MCNext == \/ AmiDoes(Next)
          \/ ConnDoes(C!Next)
          \/ SchemaDoes(H!SchemaNext)

MCVars == <<part, vars, c_vars, h_vars>>
MCSpec ==
    /\ MCInit /\ [][MCNext]_MCVars
    \* the fairness of each part, of which one moves
    /\ WF_MCVars(ConnDoes(C!Ages) \/ AmiDoes(Step(Poller)) \/ SchemaDoes(H!Step("p1")))
    /\ WF_MCVars(ConnDoes(C!Pass) \/ AmiDoes(Acquire(Poller)) \/ SchemaDoes(H!Step("p2")))
    /\ WF_MCVars(ConnDoes(C!Corrects) \/ SchemaDoes(H!Step(H!Main)))
    /\ \A t \in Callers : WF_MCVars(AmiDoes(Step(t))) /\ WF_MCVars(AmiDoes(Acquire(t)))

-----------------------------------------------------------------------------
(* Every call of ami_send_command comes back, whatever breaks (AmiPool).   *)
CallsComeBack == part = "ami" => CallsReturn

(* A connector does not wait for ever for an idle node, and a managed link *)
(* on a quiet node is ended some day (Connector).                          *)
ConnectorMoves == part = "conn" => C!WaitingEnds /\ C!QuietLinkEnds

(* Every thread gets its connection to the database (Schema).              *)
Served == part = "schema" => H!Served
=============================================================================
