------------------------------ MODULE PcmFeed -------------------------------
(***************************************************************************)
(* The PCM of one node on its way from the audio_relay.py processes that   *)
(* capture it (a Listen broadcast and a low-latency capture may both) to   *)
(* the one Opus encoder in audio_ws_relay.py: _WSRelayDualWriter sends     *)
(* each frame without blocking, a thread per connection reassembles frames *)
(* and feeds them if its connection owns the node.  A frame is FrameLen    *)
(* units, numbered by their place in it.                                   *)
(***************************************************************************)
EXTENDS Integers, Sequences, FiniteSets

CONSTANTS
    Senders,    \* audio_relay.py processes
    Conns,      \* TCP connections, used again once both ends are closed
    FrameLen,   \* FRAME_BYTES
    BufLen,     \* units the socket buffers hold
    NoConn

ASSUME UnitsAssumption == FrameLen \in Nat \ {0} /\ BufLen \in Nat
ASSUME NoConnAssumption == NoConn \notin Conns

VARIABLES
    running,    \* senders whose process runs
    sock,       \* per sender: its connection or NoConn
    wire,       \* per connection: units sent and not received
    torn,       \* connections on which send() took only a part of a frame
    handler,    \* per connection: the receiving thread
    frameBuf,   \* per connection: frame_buf
    owner,      \* _pcm_owners[node]
    encoder,    \* ffmpeg_proc is not None
    written     \* the last frame written to the encoder, <<>> for none

pcmVars == <<running, sock, wire, torn, handler, frameBuf, owner, encoder, written>>

Frame == [i \in 1..FrameLen |-> i]

PcmTypeOK ==
    /\ running \subseteq Senders
    /\ sock \in [Senders -> Conns \cup {NoConn}]
    /\ \A k \in Conns : Len(wire[k]) <= BufLen
    /\ wire \in [Conns -> Seq(1..FrameLen)] /\ torn \subseteq Conns
    /\ handler \in [Conns -> {"free", "accepted", "reading", "writing", "closing", "closed"}]
    /\ frameBuf \in [Conns -> Seq(1..FrameLen)]
    /\ owner \in Conns \cup {NoConn}
    /\ encoder \in BOOLEAN
    /\ written \in Seq(1..FrameLen)

PcmInit ==
    /\ running = {} /\ sock = [s \in Senders |-> NoConn]
    /\ wire = [k \in Conns |-> <<>>] /\ torn = {} /\ handler = [k \in Conns |-> "free"]
    /\ frameBuf = [k \in Conns |-> <<>>] /\ owner = NoConn
    /\ encoder = FALSE /\ written = <<>>

Held(k) == \E s \in Senders : sock[s] = k       \* the sender's end is open
CloseSock(s) == sock' = [sock EXCEPT ![s] = NoConn]
Become(k, h) == handler' = [handler EXCEPT ![k] = h]

(***************************************************************************)
(* audio_relay.py: the process, and try_send once per frame.               *)
(***************************************************************************)
receiver == <<handler, frameBuf, owner, encoder, written>>

StartSender(s) ==
    /\ s \notin running
    /\ running' = running \cup {s}
    /\ UNCHANGED <<sock, wire, torn, receiver>>

StopSender(s) ==
    /\ s \in running
    /\ running' = running \ {s}
    /\ CloseSock(s)
    /\ UNCHANGED <<wire, torn, receiver>>

(* _try_connect, when the reconnect interval is over and it succeeds.      *)
Connect(s) == \E k \in Conns :
    /\ s \in running /\ sock[s] = NoConn
    /\ handler[k] = "free" /\ ~Held(k)
    /\ sock' = [sock EXCEPT ![s] = k]
    /\ Become(k, "accepted")
    /\ UNCHANGED <<running, wire, torn, frameBuf, owner, encoder, written>>

Space(k) == BufLen - Len(wire[k])

(* The socket takes the frame, or the part of it that it has room for: the *)
(* rest is never sent.                                                     *)
Send(s) == LET k == sock[s] IN
    /\ s \in running /\ k # NoConn
    /\ handler[k] # "closed" /\ Space(k) > 0
    /\ \/ /\ Space(k) >= FrameLen
          /\ wire' = [wire EXCEPT ![k] = @ \o Frame]
          /\ UNCHANGED torn
       \/ /\ Space(k) < FrameLen
          /\ wire' = [wire EXCEPT ![k] = @ \o SubSeq(Frame, 1, Space(k))]
          /\ torn' = torn \cup {k}
    /\ UNCHANGED <<running, sock, receiver>>

(* BlockingIOError, or the other end is closed: the frame is dropped.      *)
SendFails(s) == LET k == sock[s] IN
    /\ s \in running /\ k # NoConn
    /\ handler[k] = "closed" \/ Space(k) = 0
    /\ CloseSock(s)
    /\ UNCHANGED <<running, wire, torn, receiver>>

(***************************************************************************)
(* audio_ws_relay.py: _handle_pcm_connection.                              *)
(***************************************************************************)

(* "NODE n" is read and _claim_pcm_owner asked.                            *)
Claim(k) ==
    /\ handler[k] = "accepted"
    /\ IF owner = NoConn
       THEN owner' = k /\ Become(k, "reading")
       ELSE UNCHANGED owner /\ Become(k, "closing")
    /\ UNCHANGED <<running, sock, wire, torn, frameBuf, encoder, written>>

Receive(k) ==
    /\ handler[k] = "reading" /\ Len(frameBuf[k]) < FrameLen
    /\ wire[k] # <<>>
    /\ frameBuf' = [frameBuf EXCEPT ![k] = @ \o wire[k]]
    /\ wire' = [wire EXCEPT ![k] = <<>>]
    /\ UNCHANGED <<running, sock, torn, handler, owner, encoder, written>>

EndOfStream(k) ==
    /\ handler[k] = "reading" /\ Len(frameBuf[k]) < FrameLen
    /\ wire[k] = <<>> /\ ~Held(k)
    /\ Become(k, "closing")
    /\ UNCHANGED <<running, sock, wire, torn, frameBuf, owner, encoder, written>>

(* _feed_node_pcm: a frame goes into the encoder's pipe, or nowhere.       *)
FeedFrame(k) ==
         /\ handler[k] = "reading" /\ Len(frameBuf[k]) >= FrameLen
         /\ frameBuf' = [frameBuf EXCEPT ![k] = SubSeq(@, FrameLen + 1, Len(@))]
         /\ written' = IF encoder THEN SubSeq(frameBuf[k], 1, FrameLen) ELSE written
         /\ Become(k, IF encoder THEN "writing" ELSE "reading")
         /\ UNCHANGED <<running, sock, wire, torn, owner, encoder>>

(* The write to the encoder's stdin returns, or finds it gone.             *)
Written(k) ==
    /\ handler[k] = "writing"
    /\ Become(k, "reading")
    /\ UNCHANGED <<running, sock, wire, torn, frameBuf, owner, encoder, written>>

(* Mutant: whoever ends releases the claim.                                *)
FinishReleasing(k) ==
    /\ handler[k] = "closing"
    /\ owner' = NoConn
    /\ Become(k, "closed")
    /\ wire' = [wire EXCEPT ![k] = <<>>] /\ frameBuf' = [frameBuf EXCEPT ![k] = <<>>]
    /\ UNCHANGED <<running, sock, torn, encoder, written>>

(* Mutant: the claim is not released.                                      *)
FinishHolding(k) ==
    /\ handler[k] = "closing"
    /\ Become(k, "closed")
    /\ wire' = [wire EXCEPT ![k] = <<>>] /\ frameBuf' = [frameBuf EXCEPT ![k] = <<>>]
    /\ UNCHANGED <<running, sock, torn, owner, encoder, written>>

(* The finally block: _release_pcm_owner, close.                           *)
Finish(k) ==
    /\ handler[k] = "closing"
    /\ owner' = IF owner = k THEN NoConn ELSE owner
    /\ Become(k, "closed")
    /\ wire' = [wire EXCEPT ![k] = <<>>] /\ frameBuf' = [frameBuf EXCEPT ![k] = <<>>]
    /\ UNCHANGED <<running, sock, torn, encoder, written>>

(* Both ends are closed.                                                   *)
Recycle(k) ==
    /\ handler[k] = "closed" /\ ~Held(k)
    /\ Become(k, "free")
    /\ torn' = torn \ {k}
    /\ UNCHANGED <<running, sock, wire, frameBuf, owner, encoder, written>>

(* _start_node_ffmpeg and _stop_node_ffmpeg.                               *)
ToggleEncoder ==
    /\ encoder' = ~encoder /\ written' = <<>>
    /\ UNCHANGED <<running, sock, wire, torn, handler, frameBuf, owner>>

Sender(s) == Connect(s) \/ Send(s) \/ SendFails(s)
Handler(k) ==
    \/ Claim(k) \/ Receive(k) \/ EndOfStream(k) \/ FeedFrame(k) \/ Written(k) \/ Finish(k)
    \/ Recycle(k)

PcmNext ==
    \/ \E s \in Senders : StartSender(s) \/ StopSender(s) \/ Sender(s)
    \/ \E k \in Conns : Handler(k)
    \/ ToggleEncoder

PcmSpec == PcmInit /\ [][PcmNext]_pcmVars

(* Processes and threads run; the encoder reads its pipe.                  *)
PcmFairSpec ==
    /\ PcmSpec
    /\ \A s \in Senders : WF_pcmVars(Sender(s))
    /\ \A k \in Conns : WF_pcmVars(Handler(k))

(***************************************************************************)
(* Properties.                                                             *)
(***************************************************************************)
Feeding == {k \in Conns : handler[k] \in {"reading", "writing"}}

(* _claim_pcm_owner: of the senders that overlap, reconnect and go away,   *)
(* one at a time feeds the encoder, and the claim is never left behind.    *)
OneOwner == Cardinality(Feeding) <= 1 /\ (owner # NoConn => handler[owner] # "closed")

(* A dropped frame costs one frame: what goes to the encoder is a frame    *)
(* the relay emitted, unless send() took part of one on that connection.   *)
FramesWhole == \A k \in Conns :
    handler[k] = "writing" => written \in {<<>>, Frame} \/ k \in torn

(* Both: however senders come and go, the encoder hears one of them, in    *)
(* frames.                                                                 *)
OneFeeder == OneOwner /\ FramesWhole

(* A later connection can claim the node: while some sender keeps running, *)
(* somebody feeds, over and over, whoever owned the node before.           *)
FeedResumes == \A s \in Senders :
    <>[](s \in running) => []<>(Feeding # {})
=============================================================================
