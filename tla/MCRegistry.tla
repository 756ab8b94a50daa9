----------------------------- MODULE MCRegistry -----------------------------
(***************************************************************************)
(* The safety of the registry of broadcasts, and of the parts of the web   *)
(* service that watch a stream or a node: the taps, the Opus frame queues, *)
(* the WebM cutter, the kiosk's links with two requests and the station    *)
(* IDs.  One of them moves in a behaviour.                                 *)
(***************************************************************************)
EXTENDS MCAudioBroadcast, Taps, FrameFanout, Links, StationId, WebmParser, SequencesExt

CONSTANTS b1, b2, p1, r1

VARIABLE part   \* the part at work in this behaviour; the others stand still

MCID == <<3, 1>>
AnyStream(n) == {[bytes |-> b, ends |-> {}] : b \in SeqOf(Byte, n)}
\* Clusters with a one- or two-byte size and every payload that fits it
Clusters == {MCID \o <<2>>} \cup
            UNION {{MCID \o <<1, k>> \o p : p \in [1..k -> Byte]} : k \in 0..2}
Assembled ==
    {LET hdr == h IN [bytes |-> hdr \o FlattenSeq(cs),
                      ends |-> {Len(hdr) + Len(FlattenSeq(SubSeq(cs, 1, i))) : i \in 1..Len(cs)}]
        : h \in {<<>>, <<0>>, <<3, 3>>}, cs \in UNION {[1..n -> Clusters] : n \in 1..2}}
AllStreams == AnyStream(6) \cup Assembled

MCInit ==
    /\ part \in {"registry", "taps", "frames", "webm", "links", "ids"}
    /\ Init
    /\ TapsInit
    /\ FramesInit
    /\ CutterInit /\ (part # "webm" => stream.bytes = <<>>)
    /\ LinksInit /\ budget = [requests |-> MaxReq, restarts |-> MaxRestarts]
    /\ IdInit /\ (part # "ids" => idRow.initial /\ idRow.every = 2)

\* a step of one part
RegistryDoes(A) ==
    /\ part = "registry" /\ A
    /\ UNCHANGED <<part, tapVars, frameVars, cutterVars, linkVars, idVars>>
TapsDoes(A) ==
    /\ part = "taps" /\ A
    /\ UNCHANGED <<part, vars, frameVars, cutterVars, linkVars, idVars>>
FramesDoes(A) ==
    /\ part = "frames" /\ A
    /\ UNCHANGED <<part, vars, tapVars, cutterVars, linkVars, idVars>>
WebmDoes(A) ==
    /\ part = "webm" /\ A
    /\ UNCHANGED <<part, vars, tapVars, frameVars, linkVars, idVars>>
LinksDoes(A) ==
    /\ part = "links" /\ A
    /\ UNCHANGED <<part, vars, tapVars, frameVars, cutterVars, idVars>>
IdsDoes(A) ==
    /\ part = "ids" /\ A
    /\ UNCHANGED <<part, vars, tapVars, frameVars, cutterVars, linkVars>>

MCNext == \/ RegistryDoes(Next)
          \/ TapsDoes(TapsNext)
          \/ FramesDoes(FramesNext)
          \/ WebmDoes(CutterNext)
          \/ LinksDoes(LinksNext)
          \/ IdsDoes(IdNext)

MCVars == <<part, vars, tapVars, frameVars, cutterVars, linkVars, idVars>>
MCSpec == MCInit /\ [][MCNext]_MCVars

=============================================================================
