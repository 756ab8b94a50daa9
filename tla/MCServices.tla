----------------------------- MODULE MCServices -----------------------------
(***************************************************************************)
(* The consumers of a broadcast's audio and what they leave behind: the    *)
(* jitter buffer of the low-latency relay (JitterBuffer), a recording's    *)
(* pipeline (Recorder) and the store of recordings (RecordingStore), the   *)
(* stream relay (StreamRelay); and the chat relays (ChatRelay).  They      *)
(* share no state: one of them moves in a behaviour, and the others stand  *)
(* still in their initial states.                                          *)
(***************************************************************************)
EXTENDS JitterBuffer, Recorder, RecordingStore, StreamRelay, ChatRelay

VARIABLE part   \* the part at work in this behaviour

MCInit ==
    /\ part \in {"jitter", "recorder", "store", "stream", "chat"}
    /\ Init
    /\ RecorderInit
    /\ StoreInit
    /\ RelayInit /\ (part # "stream" => cfg = {})
    /\ ChatInit /\ (part # "chat" => enabled)

\* a step of one part
JitterDoes(A) == /\ part = "jitter" /\ A
                 /\ UNCHANGED <<part, recorderVars, storeVars, relayVars, chatVars>>
RecorderDoes(A) == /\ part = "recorder" /\ A
                   /\ UNCHANGED <<part, vars, storeVars, relayVars, chatVars>>
StoreDoes(A) == part = "store" /\ A /\ UNCHANGED <<part, vars, recorderVars, relayVars, chatVars>>
StreamDoes(A) == part = "stream" /\ A /\ UNCHANGED <<part, vars, recorderVars, storeVars, chatVars>>
ChatDoes(A) == part = "chat" /\ A /\ UNCHANGED <<part, vars, recorderVars, storeVars, relayVars>>

MCNext == \/ JitterDoes(Next)
          \/ RecorderDoes(RecorderNext)
          \/ StoreDoes(StoreNext)
          \/ StreamDoes(RelayNext)
          \/ ChatDoes(ChatNext)

MCVars == <<part, vars, recorderVars, storeVars, relayVars, chatVars>>
MCSpec ==
    /\ MCInit /\ [][MCNext]_MCVars
    \* the fairness of each part, of which one moves
    /\ WF_MCVars(RecorderDoes(Route) \/ StoreDoes(JanSelect) \/ StreamDoes(Looping)
                 \/ ChatDoes(Loop))
    /\ WF_MCVars(RecorderDoes(StopRecorder) \/ StoreDoes(JanCommit) \/ StreamDoes(Pumping)
                 \/ ChatDoes(WorkerTakes))
    /\ WF_MCVars(RecorderDoes(MaxDuration) \/ StreamDoes(DecoderEnds)
                 \/ StoreDoes(\E i \in Ids : JanDelete(i) \/ JanRaises(i))
                 \/ ChatDoes(WorkerSends))
    /\ WF_MCVars(RecorderDoes(WatchdogEnds) \/ StreamDoes(EncoderGivesUp("bc"))
                 \/ ChatDoes(Sender(1)))
    /\ WF_MCVars(RecorderDoes(Decode) \/ StreamDoes(EncoderReads("bc"))
                 \/ ChatDoes(Sender(2)))
    /\ WF_MCVars(RecorderDoes(DecodeEnds) \/ StreamDoes(EncoderGivesUp("yt")))
    /\ WF_MCVars(RecorderDoes(PumpReads) \/ StreamDoes(EncoderReads("yt")))
    /\ WF_MCVars(RecorderDoes(PumpWrites)) /\ WF_MCVars(RecorderDoes(Encode))
    /\ WF_MCVars(RecorderDoes(EncodeEnds))
    /\ SF_MCVars(StreamDoes(Ended))

-----------------------------------------------------------------------------
(* A recording, when it is the part at work, is finalized: by the route or *)
(* the watchdog, whatever times out (Recorder).                            *)
RecordingEnds == part = "recorder" => Finalizes
=============================================================================
