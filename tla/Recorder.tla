------------------------------ MODULE Recorder ------------------------------
(***************************************************************************)
(* One recording, from the route's response generator to its database row: *)
(*                                                                         *)
(*   route -din-> decode ffmpeg -dout-> pump thread -ein-> encode ffmpeg   *)
(*                                                                         *)
(* The route and the watchdog may both stop it.  Pipes are bounded, a      *)
(* write blocks while its pipe is full, and closing a pipe's buffered      *)
(* writer waits for a write under way in another thread.                   *)
(***************************************************************************)
EXTENDS Integers

CONSTANTS
    PipeCap,    \* units a pipe holds
    Faults      \* subset of {"decode", "encode", "timeout", "firstline"}

ASSUME PipeAssumption == PipeCap \in Nat

VARIABLES
    route,          \* where generate() is
    attached,       \* the route's queue is among the broadcast's clients
    watchdog,
    stopper, step,  \* who runs stop() (_stopped is stopper # "nobody"), where
    decode, encode, \* the ffmpeg processes: "run", "exit"
    pump,
    din, dout, ein,         \* units in the pipes
    dinOpen, einOpen,       \* the writing ends decode.stdin, encode.stdin
    row, finals,            \* status of the row; times it was finalized
    faulted                 \* the faults there have been

stopping == <<stopper, step>>
pipes == <<din, dout, ein>>
ends == <<dinOpen, einOpen>>
recorderVars == <<route, attached, watchdog, stopping, decode, encode, pump, pipes, ends, row,
                  finals, faulted>>

RecorderTypeOK ==
    /\ route \in {"first", "get", "feed", "check", "remove", "stop", "gone"}
    /\ attached \in BOOLEAN /\ dinOpen \in BOOLEAN /\ einOpen \in BOOLEAN
    /\ watchdog \in {"sleep", "stop", "gone"}
    /\ stopper \in {"nobody", "route", "watchdog"}
    /\ step \in {"none", "closeIn", "waitDecode", "joinPump", "closeOut", "waitEncode",
                 "finalize", "done"}
    /\ decode \in {"run", "exit"} /\ encode \in {"run", "exit"}
    /\ pump \in {"read", "write", "exit"}
    /\ din \in 0..PipeCap /\ dout \in 0..PipeCap /\ ein \in 0..PipeCap
    /\ row \in {"recording", "finished"} /\ finals \in 0..1
    /\ faulted \subseteq Faults

(* The Recorder is built and registered, the response about to start.      *)
RecorderInit ==
    /\ route = "first" /\ attached = TRUE /\ watchdog = "sleep"
    /\ stopper = "nobody" /\ step = "none"
    /\ decode = "run" /\ encode = "run" /\ pump = "read"
    /\ din = 0 /\ dout = 0 /\ ein = 0 /\ dinOpen = TRUE /\ einOpen = TRUE
    /\ row = "recording" /\ finals = 0 /\ faulted = {}

RecorderFault(f) == f \in Faults /\ faulted' = faulted \cup {f}

(***************************************************************************)
(* generate().                                                             *)
(***************************************************************************)
machinery == <<watchdog, decode, encode, pump, ends, row, finals, faulted>>

(* The first line, with the recording's id; it is sent before the `try`.   *)
FirstLine ==
    /\ route = "first"
    /\ route' = "get"
    /\ UNCHANGED <<attached, stopping, pipes, machinery>>

GoneAtFirstLine ==
    /\ route = "first" /\ RecorderFault("firstline")
    /\ route' = "gone"
    /\ UNCHANGED <<attached, stopping, pipes, watchdog, decode, encode, pump, ends, row, finals>>

(* A chunk, nothing within a second, or the broadcast's sentinel.          *)
GetChunk ==
    /\ route = "get"
    /\ route' \in {"feed", "check", "remove"}
    /\ UNCHANGED <<attached, stopping, pipes, machinery>>

(* feed() returns once the write did, or failed on a pipe that is gone.    *)
Fed ==
    /\ route = "feed"
    /\ \/ dinOpen /\ decode = "run" /\ din < PipeCap /\ din' = din + 1
       \/ (~dinOpen \/ decode = "exit") /\ UNCHANGED din
    /\ route' = "check"
    /\ UNCHANGED <<attached, stopping, dout, ein, machinery>>

(* Stopped by the watchdog; or the browser is found gone by a heartbeat.   *)
CheckStopped ==
    /\ route = "check"
    /\ route' \in IF stopper # "nobody" THEN {"remove"} ELSE {"get", "remove"}
    /\ UNCHANGED <<attached, stopping, pipes, machinery>>

(* The finally block.                                                      *)
RemoveClient ==
    /\ route = "remove"
    /\ attached' = FALSE
    /\ route' = "stop"
    /\ UNCHANGED <<stopping, pipes, machinery>>

(* stop() by the route, if it is the first.                                *)
RouteStops ==
    /\ route = "stop" /\ stopper = "nobody"
    /\ stopper' = "route" /\ step' = "closeIn"
    /\ UNCHANGED <<route, attached, pipes, machinery>>

RouteEnds ==
    /\ route = "stop"
    /\ stopper = "watchdog" \/ (stopper = "route" /\ step = "done")
    /\ route' = "gone"
    /\ UNCHANGED <<attached, stopping, pipes, machinery>>

Route == \/ FirstLine \/ GoneAtFirstLine \/ GetChunk \/ Fed \/ CheckStopped \/ RemoveClient
         \/ RouteStops \/ RouteEnds

(***************************************************************************)
(* _watchdog_loop.                                                         *)
(***************************************************************************)
others == <<route, attached, decode, encode, pump, pipes, ends, row, finals, faulted>>

(* Mutant: the watchdog sets _stopped itself, so stop() returns at once.   *)
MaxDurationMarks ==
    /\ watchdog = "sleep" /\ stopper = "nobody"
    /\ watchdog' = "stop" /\ stopper' = "watchdog" /\ UNCHANGED step
    /\ UNCHANGED others

(* max_duration_sec is over; stop() finds out whether it is the first.     *)
MaxDuration ==
    /\ watchdog = "sleep" /\ stopper = "nobody"
    /\ watchdog' = "stop" /\ stopper' = "watchdog" /\ step' = "closeIn"
    /\ UNCHANGED others

WatchdogEnds ==
    /\ \/ watchdog = "sleep" /\ stopper = "route"
       \/ watchdog = "stop" /\ step = "done"
    /\ watchdog' = "gone"
    /\ UNCHANGED <<stopping, others>>

(***************************************************************************)
(* stop(), by whoever was first.                                           *)
(***************************************************************************)
EndsOrTimesOut(ended) ==
    \/ ended /\ UNCHANGED faulted
    \/ ~ended /\ RecorderFault("timeout")
GoOn(from, to) == step = from /\ step' = to /\ UNCHANGED <<stopper, route, attached, watchdog>>

(* Not while feed() is inside the same buffered writer.                    *)
CloseDecodeIn ==
    /\ GoOn("closeIn", "waitDecode") /\ route # "feed"
    /\ dinOpen' = FALSE
    /\ UNCHANGED <<decode, encode, pump, pipes, einOpen, row, finals, faulted>>

(* The process ends, or is killed when the wait times out.                 *)
WaitDecode ==
    /\ GoOn("waitDecode", "joinPump")
    /\ EndsOrTimesOut(decode = "exit")
    /\ decode' = "exit"
    /\ UNCHANGED <<encode, pump, pipes, ends, row, finals>>

(* Mutant: the pump's last frames are not waited for.                      *)
JoinPumpNot ==
    /\ GoOn("joinPump", "closeOut")
    /\ UNCHANGED <<decode, encode, pump, pipes, ends, row, finals, faulted>>

(* The thread is waited for; it is not killed when the wait times out.     *)
JoinPump ==
    /\ GoOn("joinPump", "closeOut")
    /\ EndsOrTimesOut(pump = "exit")
    /\ UNCHANGED <<decode, encode, pump, pipes, ends, row, finals>>

CloseEncodeIn ==
    /\ GoOn("closeOut", "waitEncode") /\ pump # "write"
    /\ einOpen' = FALSE
    /\ UNCHANGED <<decode, encode, pump, pipes, dinOpen, row, finals, faulted>>

WaitEncode ==
    /\ GoOn("waitEncode", "finalize")
    /\ EndsOrTimesOut(encode = "exit")
    /\ encode' = "exit"
    /\ UNCHANGED <<decode, pump, pipes, ends, row, finals>>

(* _finalize: the row gets its size, duration and reason.                  *)
Finalize ==
    /\ GoOn("finalize", "done")
    /\ row' = "finished" /\ finals' = finals + 1
    /\ UNCHANGED <<decode, encode, pump, pipes, ends, faulted>>

StopRecorder ==
    CloseDecodeIn \/ WaitDecode \/ JoinPump \/ CloseEncodeIn \/ WaitEncode \/ Finalize

(***************************************************************************)
(* The pump thread and the ffmpeg processes.                               *)
(***************************************************************************)
threads == <<route, attached, watchdog, stopping, ends, row, finals, faulted>>

Decode ==
    /\ decode = "run" /\ din > 0 /\ dout < PipeCap
    /\ din' = din - 1 /\ dout' = dout + 1
    /\ UNCHANGED <<threads, decode, encode, pump, ein>>

DecodeEnds ==
    /\ decode = "run" /\ din = 0 /\ ~dinOpen
    /\ decode' = "exit"
    /\ UNCHANGED <<threads, encode, pump, pipes>>

DecodeDies ==
    /\ RecorderFault("decode") /\ decode = "run"
    /\ decode' = "exit"
    /\ UNCHANGED <<route, attached, watchdog, stopping, ends, row, finals, encode, pump, pipes>>

(* A frame is read; the silence gate may drop it.                          *)
PumpReads ==
    /\ pump = "read"
    /\ \/ dout > 0 /\ dout' = dout - 1 /\ pump' \in {"read", "write"}
       \/ dout = 0 /\ decode = "exit" /\ pump' = "exit" /\ UNCHANGED dout
    /\ UNCHANGED <<threads, decode, encode, din, ein>>

PumpWrites ==
    /\ pump = "write"
    /\ \/ einOpen /\ encode = "run" /\ ein < PipeCap /\ ein' = ein + 1 /\ pump' = "read"
       \/ (~einOpen \/ encode = "exit") /\ pump' = "exit" /\ UNCHANGED ein
    /\ UNCHANGED <<threads, decode, encode, din, dout>>

Encode ==
    /\ encode = "run" /\ ein > 0
    /\ ein' = ein - 1
    /\ UNCHANGED <<threads, decode, encode, pump, din, dout>>

EncodeEnds ==
    /\ encode = "run" /\ ein = 0 /\ ~einOpen
    /\ encode' = "exit"
    /\ UNCHANGED <<threads, decode, pump, pipes>>

EncodeDies ==
    /\ RecorderFault("encode") /\ encode = "run"
    /\ encode' = "exit"
    /\ UNCHANGED <<route, attached, watchdog, stopping, ends, row, finals, decode, pump, pipes>>

Processes == Decode \/ DecodeEnds \/ PumpReads \/ PumpWrites \/ Encode \/ EncodeEnds

RecorderNext ==
    \/ Route \/ MaxDuration \/ WatchdogEnds \/ StopRecorder \/ Processes
    \/ DecodeDies \/ EncodeDies

RecorderSpec == RecorderInit /\ [][RecorderNext]_recorderVars

(* Threads and processes run, and the watchdog's time comes; how long the  *)
(* browser stays is its own affair.                                        *)
RecorderFairSpec ==
    /\ RecorderSpec
    /\ WF_recorderVars(Route) /\ WF_recorderVars(StopRecorder)
    /\ WF_recorderVars(MaxDuration) /\ WF_recorderVars(WatchdogEnds)
    /\ WF_recorderVars(Decode) /\ WF_recorderVars(DecodeEnds)
    /\ WF_recorderVars(PumpReads) /\ WF_recorderVars(PumpWrites)
    /\ WF_recorderVars(Encode) /\ WF_recorderVars(EncodeEnds)

(***************************************************************************)
(* Properties.                                                             *)
(***************************************************************************)

(* stop()'s order: unless something failed or a step of it timed out,      *)
(* everything the browser's recording was fed has gone through both        *)
(* processes before its size is written to the row.                        *)
FlushedBeforeFinal ==
    row = "finished" /\ faulted \subseteq {"firstline"} =>
        din = 0 /\ dout = 0 /\ ein = 0 /\ pump = "exit"

(* on_stop is called at most once, and only for a pipeline that is down.   *)
FinalizedOnce ==
    /\ finals <= 1
    /\ row = "finished" => decode = "exit" /\ encode = "exit" /\ ~dinOpen /\ ~einOpen

(* The docstring of api_recording_start: when the response is over, the    *)
(* recording has stopped listening to the node.  Not so for a browser that *)
(* is gone before the first line: see the README.                          *)
EndOfResponseDetaches ==
    route = "gone" /\ "firstline" \notin faulted => ~attached /\ stopper # "nobody"

(* The three: a stop, by the route, the watchdog or both, is complete.     *)
StopIsClean == FlushedBeforeFinal /\ FinalizedOnce /\ EndOfResponseDetaches

(* The same docstring: the recorder is stopped and its row finalized, by   *)
(* the tab's end or by the watchdog; even if the decoder dies at any point *)
(* or a wait times out.                                                    *)
Finalizes == <>(row = "finished" \/ "encode" \in faulted)

(* What the docstring promises, with an encoder that may die.              *)
AlwaysFinalizes == <>(row = "finished")
=============================================================================
