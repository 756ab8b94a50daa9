----------------------------- MODULE MCFanouts -----------------------------
(***************************************************************************)
(* The queues around the encoder: of WebM items for the browsers           *)
(* (WebmFanout) and of PCM on its way in (PcmFeed); and the life of the    *)
(* broadcasts they serve, AudioBroadcast on one node while Asterisk is     *)
(* replaced.  One of them moves in a behaviour.                            *)
(***************************************************************************)
EXTENDS WebmFanout, PcmFeed

CONSTANTS s1, s2, k1, k2, g1, n1, listen, record, stress, poll

VARIABLES part,   \* the part at work in this behaviour; the others stand still
    b_lock, b_active, b_bnode, b_dead, b_clients, b_eof, b_reader, b_encoder,
    b_fifos, b_mode, b_capturing, b_born, b_pc, b_mine, b_want, b_todo, b_pid,
    b_astUp, b_seen

B == INSTANCE AudioBroadcast WITH
    Nodes <- {n1}, Consumers <- {listen, record, stress},
    Recorders <- {record}, Stressors <- {stress}, Reapers <- {poll},
    Poller <- poll, Gens <- {g1}, None <- None, FirstSeen <- 1, MaxPid <- 2,
    MonitorMayFail <- FALSE, ReadbackMayFail <- FALSE, StopMayFail <- FALSE,
    EncoderMayExit <- FALSE, SetupMayRaise <- FALSE, lock <- b_lock,
    active <- b_active, bnode <- b_bnode, dead <- b_dead,
    clients <- b_clients, eof <- b_eof, reader <- b_reader,
    encoder <- b_encoder, fifos <- b_fifos, mode <- b_mode,
    capturing <- b_capturing, born <- b_born, pc <- b_pc, mine <- b_mine,
    want <- b_want, todo <- b_todo, pid <- b_pid, astUp <- b_astUp,
    seen <- b_seen

b_vars == <<b_lock, b_active, b_bnode, b_dead, b_clients, b_eof, b_reader,
            b_encoder, b_fifos, b_mode, b_capturing, b_born, b_pc, b_mine,
            b_want, b_todo, b_pid, b_astUp, b_seen>>

MCInit ==
    /\ part \in {"webm", "pcm", "live"}
    /\ Init
    /\ PcmInit
    /\ B!Init

\* a step of one part
WebmDoes(A) == part = "webm" /\ A /\ UNCHANGED <<part, pcmVars, b_vars>>
PcmDoes(A) == part = "pcm" /\ A /\ UNCHANGED <<part, vars, b_vars>>
LiveDoes(A) == part = "live" /\ A /\ UNCHANGED <<part, vars, pcmVars>>

MCNext == \/ WebmDoes(Next)
          \/ PcmDoes(PcmNext)
          \/ LiveDoes(B!Next)

MCVars == <<part, vars, pcmVars, b_vars>>
MCSpec ==
    /\ MCInit /\ [][MCNext]_MCVars
    \* the fairness of each part, of which one moves
    /\ WF_MCVars(PcmDoes(Sender(s1)) \/ LiveDoes(B!SamplePid(poll)))
    /\ WF_MCVars(PcmDoes(Sender(s2)) \/ LiveDoes(B!ReaderEnds(g1)))
    /\ \A k \in {k1, k2} : WF_MCVars(PcmDoes(Handler(k)))
    /\ \A c \in {listen, record, stress} :
          WF_MCVars(LiveDoes(B!Start(c))) /\ WF_MCVars(LiveDoes(B!Consume(c)))
    /\ SF_MCVars(LiveDoes(B!Reap(poll) \/ \E t \in B!Threads : B!Shutdown(t)))

-----------------------------------------------------------------------------
(* A broadcast of an Asterisk that was replaced is torn down, and teardown *)
(* comes to its end (AudioBroadcast).                                      *)
TornDown == part = "live" => B!StaleIsTornDown /\ B!TeardownCompletes
=============================================================================
