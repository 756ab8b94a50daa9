---------------------------- MODULE StreamRelay -----------------------------
(***************************************************************************)
(* The stream relay: _stream_relay_loop, which attaches to the broadcast   *)
(* of a node and feeds a Relay session until the session or the broadcast  *)
(* fails or the configuration changes; and the session itself, a decoder   *)
(* process, a pump thread that writes its PCM to one encoder per target in *)
(* turn, and those encoders.  A pipe holds one chunk.                      *)
(***************************************************************************)
EXTENDS Naturals, FiniteSets, FiniteSetsExt

CONSTANTS Targets,   \* broadcastify, youtube
          MaxSaves,  \* bound: saves of the configuration
          MaxFaults  \* bound: crashes of processes and of the broadcast

VARIABLES cfg,      \* targets the configuration enables
          loop,     \* where _stream_relay_loop is
          wanted,   \* targets_wanted of the session
          source,   \* the broadcast it is attached to: "up", "ended", "none"
          decoder,  \* the decode ffmpeg: "none", "up", "exited"
          input,    \* whether the decoder's stdin pipe is full
          relayPump,     \* the pump thread: "none", "read", "ended", or the target it writes to
          todo,     \* targets the chunk at hand has still to reach
          encoder,  \* target -> "none", "up", "stuck", "exited"
          pipe,     \* targets whose stdin pipe is full
          deadT,    \* targets with _dead set
          listed,   \* queues of ours the broadcast lists
          leaked,   \* queues whose session could not be built
          status,   \* _relay_status_cache: the targets it shows as connected
          budget    \* [saves, faults] left

session == <<decoder, input, relayPump, todo, encoder, pipe, deadT>>
relay == <<cfg, loop, wanted, source>>
queues == <<listed, leaked, status>>
relayVars == <<relay, session, queues, budget>>

Loops == {"idle", "attached", "feed", "write", "check", "detach", "join", "close"}
NoSession == /\ decoder = "none" /\ input = FALSE /\ relayPump = "none" /\ todo = {}
             /\ encoder = [t \in Targets |-> "none"] /\ pipe = {} /\ deadT = {}

RelayInit == /\ cfg \in SUBSET Targets /\ loop = "idle" /\ wanted = {} /\ source = "none"
             /\ NoSession /\ listed = 0 /\ leaked = 0 /\ status = {}
             /\ budget = [saves |-> MaxSaves, faults |-> MaxFaults]

----------------------------------------------------------------------------
(* The processes, the broadcast and the network (external).                *)

RelayFault == budget.faults > 0 /\ budget' = [budget EXCEPT !.faults = @ - 1]

SourceEnds == /\ source = "up" /\ RelayFault /\ source' = "ended"
              /\ UNCHANGED <<cfg, loop, wanted, session, queues>>
DecoderExits == /\ decoder = "up" /\ RelayFault /\ decoder' = "exited"
                /\ UNCHANGED <<relay, input, relayPump, todo, encoder, pipe, deadT, queues>>
\* the network goes: the encoder blocks in its write
EncoderStuck(t) == /\ encoder[t] = "up" /\ RelayFault /\ encoder' = [encoder EXCEPT ![t] = "stuck"]
                   /\ UNCHANGED <<relay, decoder, input, relayPump, todo, pipe, deadT, queues>>
EncoderCrashes(t) == /\ encoder[t] = "up" /\ RelayFault
                     /\ encoder' = [encoder EXCEPT ![t] = "exited"]
                     /\ UNCHANGED <<relay, decoder, input, relayPump, todo, pipe, deadT, queues>>

\* Mutant: no -rw_timeout in the output arguments
NoPatience == FALSE
\* RELAY_RW_TIMEOUT_USEC: a stuck write ends the encoder
Patience == TRUE
EncoderGivesUp(t) == /\ encoder[t] = "stuck" /\ Patience
                     /\ encoder' = [encoder EXCEPT ![t] = "exited"]
                     /\ UNCHANGED <<relay, decoder, input, relayPump, todo, pipe, deadT, queues, budget>>
\* at the end of its input, or at a kill
DecoderEnds == /\ decoder = "up" /\ loop \in {"join", "close"}
               /\ decoder' = "exited"
               /\ UNCHANGED <<relay, input, relayPump, todo, encoder, pipe, deadT, queues, budget>>
EncoderReads(t) == /\ encoder[t] = "up" /\ t \in pipe /\ pipe' = pipe \ {t}
                   /\ UNCHANGED <<relay, decoder, input, relayPump, todo, encoder, deadT, queues, budget>>

----------------------------------------------------------------------------
(* Relay and RelayTarget: the pump thread.                                 *)

\* the decoder's output: PCM while it runs, the end once it has exited
RelayPumpReads == /\ relayPump = "read" /\ decoder = "up" /\ input
                  /\ input' = FALSE /\ relayPump' = "write" /\ todo' = wanted
                  /\ UNCHANGED <<relay, decoder, encoder, pipe, deadT, queues, budget>>
RelayPumpEnds == /\ relayPump = "read" /\ decoder = "exited" /\ relayPump' = "ended"
                 /\ UNCHANGED <<relay, decoder, input, todo, encoder, pipe, deadT, queues, budget>>
\* RelayTarget.feed: a full pipe holds the pump until the encoder reads or exits
RelayPumpWrites(t) ==
    /\ relayPump = "write" /\ t \in todo
    /\ \/ t \in deadT /\ UNCHANGED <<pipe, deadT>>
       \/ t \notin deadT /\ encoder[t] = "exited" /\ deadT' = deadT \cup {t} /\ pipe' = pipe
       \/ t \notin deadT /\ encoder[t] # "exited" /\ t \notin pipe /\ pipe' = pipe \cup {t} /\ deadT' = deadT
    /\ todo' = todo \ {t}
    /\ relayPump' = IF todo = {t} THEN "read" ELSE "write"
    /\ UNCHANGED <<relay, decoder, input, encoder, queues, budget>>

\* RelayTarget.connected and Relay.alive
Connected(t) == t \notin deadT /\ encoder[t] # "exited"
Alive == relayPump # "ended"

----------------------------------------------------------------------------
(* _stream_relay_loop.                                                     *)

\* add_client on the broadcast of the target node
Attach == /\ loop = "idle" /\ cfg # {}
          /\ loop' = "attached" /\ wanted' = cfg /\ source' = "up" /\ listed' = listed + 1
          /\ UNCHANGED <<cfg, session, leaked, status, budget>>
Build == /\ loop = "attached" /\ loop' = "feed"
         /\ decoder' = "up" /\ relayPump' = "read" /\ input' = FALSE /\ todo' = {}
         /\ encoder' = [t \in Targets |-> IF t \in wanted THEN "up" ELSE "none"]
         /\ pipe' = {} /\ deadT' = {}
         /\ UNCHANGED <<cfg, wanted, source, queues, budget>>

\* a process that cannot be started: the handler outside the session's own
\* try waits and starts over, and nobody removes the queue
BuildFails == /\ loop = "attached" /\ RelayFault /\ loop' = "idle"
              /\ leaked' = leaked + 1 /\ wanted' = {} /\ source' = "none" /\ status' = {}
              /\ UNCHANGED <<cfg, session, listed>>

Take == /\ loop = "feed" /\ source = "up" /\ loop' = "write"
        /\ UNCHANGED <<cfg, wanted, source, session, queues, budget>>
\* Relay.feed: a full pipe holds the loop too
Feed == /\ loop = "write" /\ loop' = "check"
        /\ IF decoder = "exited" THEN input' = input ELSE ~input /\ input' = TRUE
        /\ UNCHANGED <<cfg, wanted, source, decoder, relayPump, todo, encoder, pipe, deadT, queues, budget>>
\* one second without a chunk
NoChunk == /\ loop = "feed" /\ loop' = "check"
           /\ UNCHANGED <<cfg, wanted, source, session, queues, budget>>
Ended == /\ loop = "feed" /\ source = "ended" /\ loop' = "detach"
         /\ UNCHANGED <<cfg, wanted, source, session, queues, budget>>

Healthy == Alive /\ \A t \in wanted : Connected(t)
Check == /\ loop = "check" /\ Healthy /\ loop' = "feed" /\ status' = wanted
         /\ UNCHANGED <<cfg, wanted, source, session, listed, leaked, budget>>
Unhealthy == /\ loop = "check" /\ ~Healthy /\ loop' = "detach"
             /\ UNCHANGED <<cfg, wanted, source, session, queues, budget>>
\* every 30 s: the configuration as it is now
Changed == /\ loop = "check" /\ Healthy /\ cfg # wanted /\ loop' = "detach" /\ status' = wanted
           /\ UNCHANGED <<cfg, wanted, source, session, listed, leaked, budget>>

\* Mutant: the queue stays with the broadcast
DetachNot == listed
\* remove_client
Detached == listed - 1
Detach == /\ loop = "detach" /\ loop' = "join"
          /\ listed' = Detached /\ source' = "none"
          /\ UNCHANGED <<cfg, wanted, session, leaked, status, budget>>
\* Relay.stop: the decoder is waited for and killed, the pump joined for 5 s
Joined == /\ loop = "join" /\ decoder = "exited" /\ loop' = "close"
          /\ UNCHANGED <<cfg, wanted, source, session, queues, budget>>
\* closing the pipe of a target waits for the pump's write in it
Close == /\ loop = "close" /\ relayPump = "ended" /\ loop' = "idle"
         /\ decoder' = "none" /\ relayPump' = "none" /\ input' = FALSE /\ todo' = {}
         /\ encoder' = [t \in Targets |-> "none"] /\ pipe' = {} /\ deadT' = {}
         /\ wanted' = {} /\ status' = {}
         /\ UNCHANGED <<cfg, source, listed, leaked, budget>>

\* api_stream_relay_config_save
Save == /\ budget.saves > 0 /\ budget' = [budget EXCEPT !.saves = @ - 1]
        /\ cfg' \in SUBSET Targets
        /\ UNCHANGED <<loop, wanted, source, session, queues>>

Looping == \/ Attach \/ Build \/ BuildFails \/ Take \/ Feed \/ NoChunk \/ Ended \/ Check
           \/ Unhealthy \/ Changed
           \/ Detach \/ Joined \/ Close
Pumping == RelayPumpReads \/ RelayPumpEnds \/ \E t \in Targets : RelayPumpWrites(t)
Network == \/ SourceEnds \/ DecoderExits
           \/ \E t \in Targets : EncoderStuck(t) \/ EncoderCrashes(t)
RelayProcesses == DecoderEnds \/ \E t \in Targets : EncoderGivesUp(t) \/ EncoderReads(t)

RelayNext == Looping \/ Pumping \/ Network \/ RelayProcesses \/ Save

\* the threads run, the processes read and exit, a chunk or a second comes
RelayFairness == /\ WF_relayVars(Looping) /\ WF_relayVars(Pumping) /\ WF_relayVars(DecoderEnds)
                 /\ \A t \in Targets : WF_relayVars(EncoderGivesUp(t)) /\ WF_relayVars(EncoderReads(t))
                 /\ SF_relayVars(Ended)
RelaySpec == RelayInit /\ [][RelayNext]_relayVars /\ RelayFairness

----------------------------------------------------------------------------
RelayTypeOK == /\ cfg \subseteq Targets /\ wanted \subseteq Targets /\ loop \in Loops
               /\ source \in {"up", "ended", "none"} /\ decoder \in {"none", "up", "exited"}
               /\ relayPump \in {"none", "read", "write", "ended"} /\ todo \subseteq wanted
               /\ encoder \in [Targets -> {"none", "up", "stuck", "exited"}]
               /\ pipe \subseteq Targets /\ deadT \subseteq Targets /\ status \subseteq Targets

\* The broadcast lists one queue of the relay while it is attached and none
\* while it is idle, but for those of sessions that could not be built.
OneClient ==
    listed = leaked + IF loop \in {"attached", "feed", "write", "check", "detach"} THEN 1 ELSE 0

\* A session whose decoder, encoder or source is lost, whatever it blocks in,
\* gives way to a new one or to none: the relay does not stay dark.
Dark == /\ loop \in {"feed", "write", "check"}
        /\ \/ source = "ended" \/ decoder = "exited"
           \/ \E t \in wanted : encoder[t] \in {"stuck", "exited"}
NeverDark == Dark ~> loop = "idle"
=============================================================================
