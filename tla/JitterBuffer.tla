---------------------------- MODULE JitterBuffer ----------------------------
(***************************************************************************)
(* audio_relay.py's main loop without its clock: in every 20 ms slot it    *)
(* drains the input into a jitter buffer, drops the oldest audio beyond    *)
(* the cap, emits one frame of audio or of silence, and fades the start of *)
(* a frame that does not continue the one before.  The input is the bytes  *)
(* 0, 1, 2, ..., so positions stand for the audio itself.                  *)
(***************************************************************************)
EXTENDS Integers

CONSTANTS
    FrameBytes,     \* FRAME_BYTES
    MaxBufBytes,    \* MAX_BUF_BYTES
    Reads,          \* how many bytes a slot may find readable
    MaxBytes        \* bound on the input

SampleBytes == 2    \* signed 16-bit mono

ASSUME FrameAssumption ==
    FrameBytes \in Nat \ {0} /\ MaxBufBytes \in Nat /\ FrameBytes <= MaxBufBytes
ASSUME ReadsAssumption == Reads \subseteq Nat
(* Frames, the cap and what the writer leaves in the pipe are whole samples.*)
ASSUME SamplesAssumption ==
    /\ FrameBytes % SampleBytes = 0 /\ MaxBufBytes % SampleBytes = 0
    /\ \A n \in Reads : n % SampleBytes = 0

VARIABLES
    received,   \* bytes read from the input
    head,       \* buf is the bytes head .. received - 1
    wasReal,    \* prev_frame_is_real
    end,        \* where the last frame of audio ended
    out,        \* the last frame written: audio or silence, its start, faded
    running

vars == <<received, head, wasReal, end, out, running>>

TypeOK ==
    /\ received \in Nat /\ head \in Nat /\ end \in Nat
    /\ wasReal \in BOOLEAN /\ running \in BOOLEAN
    /\ out \in [real : BOOLEAN, from : Nat, faded : BOOLEAN]

Init ==
    /\ received = 0 /\ head = 0 /\ end = 0
    /\ wasReal = FALSE /\ running = TRUE
    /\ out = [real |-> FALSE, from |-> 0, faded |-> FALSE]

(* The oldest byte that stays, of a buffer h .. r - 1.                     *)
Keep(h, r) == IF r - h > MaxBufBytes THEN r - MaxBufBytes ELSE h

(* Mutant: a drop by the cap is not faded over.                            *)
EmitUnspliced(r) ==
    LET from == Keep(head, r)
        real == r - from >= FrameBytes
    IN /\ received' = r
       /\ head' = IF real THEN from + FrameBytes ELSE from
       /\ end' = IF real THEN from + FrameBytes ELSE end
       /\ wasReal' = real
       /\ out' = [real |-> real, from |-> from, faded |-> real # wasReal]

(* What follows the reading: overflow drop, frame, fade, write.            *)
Emit(r) ==
    LET from == Keep(head, r)
        real == r - from >= FrameBytes
    IN /\ received' = r
       /\ head' = IF real THEN from + FrameBytes ELSE from
       /\ end' = IF real THEN from + FrameBytes ELSE end
       /\ wasReal' = real
       /\ out' = [real |-> real, from |-> from, faded |-> from # head \/ real # wasReal]

Slot(n) ==
    /\ running /\ received + n <= MaxBytes
    /\ Emit(received + n)
    /\ UNCHANGED running

(* End of input: one last frame is written, what is left is not.           *)
LastSlot(n) ==
    /\ running /\ received + n <= MaxBytes
    /\ Emit(received + n)
    /\ running' = FALSE

(* SIGTERM, or the output is gone.                                         *)
Stop == running /\ running' = FALSE /\ UNCHANGED <<received, head, wasReal, end, out>>

Next == Stop \/ \E n \in Reads : Slot(n) \/ LastSlot(n)

Spec == Init /\ [][Next]_vars

(***************************************************************************)
(* Properties.                                                             *)
(***************************************************************************)

(* The buffer never delays the audio by more than its cap.                 *)
LatencyBounded == received - head <= MaxBufBytes /\ head <= received

(* Every frame starts on a sample: neither a drop nor a short read shifts  *)
(* the 16-bit framing.                                                     *)
SampleAligned == head % SampleBytes = 0 /\ out.from % SampleBytes = 0

(* _fade_frame: a frame is faded exactly if it does not continue the one   *)
(* written before it; no splice clicks and no speech is touched.           *)
Continues == out'.real = out.real /\ (out'.real => out'.from = end)
FadedAtSplices ==
    [][received' # received \/ out' # out => (out'.faded <=> ~Continues)]_vars

(* The three together: what is played is timely, whole and free of clicks. *)
Playout == [](LatencyBounded /\ SampleAligned) /\ FadedAtSplices
=============================================================================
