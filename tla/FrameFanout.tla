---------------------------- MODULE FrameFanout -----------------------------
(***************************************************************************)
(* audio_ws_relay.py: the Opus frames of one node's encoder on their way   *)
(* to the browsers.  The UDP reader puts every frame into a bounded queue  *)
(* per client, a writer thread per client empties it into the socket, and  *)
(* the connection's own thread removes the client and puts the sentinel    *)
(* that ends the writer.  No lock covers a queue across two calls, so put, *)
(* get and the reaction to Full are steps of their own.                    *)
(***************************************************************************)
EXTENDS Integers, Sequences

CONSTANTS
    Clients,
    Cap,            \* queue.Queue(maxsize=50)
    MaxFrames,      \* bound on the frames the encoder emits
    NoClient        \* nobody; as a queue entry, the sentinel

ASSUME CapAssumption == Cap \in Nat \ {0} /\ MaxFrames \in Nat
ASSUME NoClientAssumption == NoClient \notin Clients /\ NoClient \notin Nat

VARIABLES
    listeners,  \* state.clients
    queue,
    thread,     \* the connection's thread
    writer,     \* the writer thread; it reads the queue in "get"
    sockets,    \* clients whose socket is open
    frame,      \* the number of the frame being fanned out
    targets,    \* the clients fanout() copied and has not served
    full,       \* the client whose queue was found full, or NoClient
    evicted,    \* room was made in it
    offered,    \* the last frame fanout() finished with, per client
    taken       \* the last frame its writer took, per client

frameVars == <<listeners, queue, thread, writer, sockets, frame, targets, full, evicted,
               offered, taken>>

FramesTypeOK ==
    /\ listeners \subseteq Clients /\ sockets \subseteq Clients /\ targets \subseteq Clients
    /\ \A c \in Clients : Len(queue[c]) <= Cap
    /\ queue \in [Clients -> Seq(1..MaxFrames \cup {NoClient})]
    /\ thread \in [Clients -> {"new", "reading", "unlisted", "full", "again", "closing", "gone"}]
    /\ writer \in [Clients -> {"new", "get", "send", "gone"}]
    /\ frame \in 0..MaxFrames
    /\ full \in Clients \cup {NoClient} /\ evicted \in BOOLEAN
    /\ offered \in [Clients -> 0..MaxFrames] /\ taken \in [Clients -> 0..MaxFrames]

FramesInit ==
    /\ listeners = {} /\ sockets = Clients /\ targets = {} /\ frame = 0
    /\ full = NoClient /\ evicted = FALSE
    /\ queue = [c \in Clients |-> <<>>]
    /\ thread = [c \in Clients |-> "new"] /\ writer = [c \in Clients |-> "new"]
    /\ offered = [c \in Clients |-> 0] /\ taken = [c \in Clients |-> 0]

Room(c) == Len(queue[c]) < Cap
Put(c, item) == queue' = [queue EXCEPT ![c] = Append(@, item)]
Get(c) == queue' = [queue EXCEPT ![c] = Tail(@)]
ThreadAt(c, p) == thread' = [thread EXCEPT ![c] = p]

(***************************************************************************)
(* fanout(), on the UDP reader's thread.                                   *)
(***************************************************************************)
fanoutState == <<frame, targets, full, evicted, offered>>

NextFrame ==
    /\ targets = {} /\ frame < MaxFrames
    /\ frame' = frame + 1
    /\ targets' = listeners
    /\ UNCHANGED <<listeners, queue, thread, writer, sockets, full, evicted, offered, taken>>

Served(c) ==
    /\ targets' = targets \ {c}
    /\ full' = NoClient /\ evicted' = FALSE
    /\ offered' = [offered EXCEPT ![c] = frame]

PutFrame(c) ==
    /\ c \in targets /\ full = NoClient /\ Room(c)
    /\ Put(c, frame)
    /\ Served(c)
    /\ UNCHANGED <<listeners, thread, writer, sockets, frame, taken>>

FindFull(c) ==
    /\ c \in targets /\ full = NoClient /\ ~Room(c)
    /\ full' = c
    /\ UNCHANGED <<listeners, queue, thread, writer, sockets, frame, targets, evicted, offered,
                   taken>>

(* get_nowait(), or nothing if the writer emptied the queue meanwhile.     *)
EvictOldest(c) ==
    /\ full = c /\ ~evicted
    /\ IF queue[c] = <<>> THEN UNCHANGED queue ELSE Get(c)
    /\ evicted' = TRUE
    /\ UNCHANGED <<listeners, thread, writer, sockets, frame, targets, full, offered, taken>>

PutEvicted(c) ==
    /\ full = c /\ evicted
    /\ IF Room(c) THEN Put(c, frame) ELSE UNCHANGED queue
    /\ Served(c)
    /\ UNCHANGED <<listeners, thread, writer, sockets, frame, taken>>

Fanout(c) == PutFrame(c) \/ FindFull(c) \/ EvictOldest(c) \/ PutEvicted(c)

(***************************************************************************)
(* The connection's thread: add_client, remove_client, close.              *)
(***************************************************************************)
AddBrowser(c) ==
    /\ thread[c] = "new"
    /\ listeners' = listeners \cup {c}
    /\ writer' = [writer EXCEPT ![c] = "get"]
    /\ ThreadAt(c, "reading")
    /\ UNCHANGED <<queue, sockets, fanoutState, taken>>

RemoveBrowser(c) ==
    /\ thread[c] = "reading"
    /\ listeners' = listeners \ {c}
    /\ ThreadAt(c, "unlisted")
    /\ UNCHANGED <<queue, writer, sockets, fanoutState, taken>>

PutSentinel(c) ==
    /\ thread[c] = "unlisted"
    /\ IF Room(c) THEN Put(c, NoClient) /\ ThreadAt(c, "closing")
       ELSE ThreadAt(c, "full") /\ UNCHANGED queue
    /\ UNCHANGED <<listeners, writer, sockets, fanoutState, taken>>

(* Full: make room and try again; Empty ends the attempt.                  *)
MakeRoom(c) ==
    /\ thread[c] = "full"
    /\ IF queue[c] = <<>> THEN ThreadAt(c, "closing") /\ UNCHANGED queue
       ELSE ThreadAt(c, "again") /\ Get(c)
    /\ UNCHANGED <<listeners, writer, sockets, fanoutState, taken>>

PutSentinelAgain(c) ==
    /\ thread[c] = "again"
    /\ ThreadAt(c, "closing")
    /\ IF Room(c) THEN Put(c, NoClient) ELSE UNCHANGED queue
    /\ UNCHANGED <<listeners, writer, sockets, fanoutState, taken>>

(* After the encoder and the capture were dealt with.                      *)
CloseSocket(c) ==
    /\ thread[c] = "closing"
    /\ sockets' = sockets \ {c}
    /\ ThreadAt(c, "gone")
    /\ UNCHANGED <<listeners, queue, writer, fanoutState, taken>>

Connection(c) ==
    RemoveBrowser(c) \/ PutSentinel(c) \/ MakeRoom(c) \/ PutSentinelAgain(c) \/ CloseSocket(c)

(***************************************************************************)
(* _client_writer_loop.                                                    *)
(***************************************************************************)
(* Mutant: a LifoQueue.                                                    *)
TakeUnordered(c) ==
    /\ writer[c] = "get" /\ queue[c] # <<>>
    /\ LET item == queue[c][Len(queue[c])] IN
       /\ writer' = [writer EXCEPT ![c] = IF item = NoClient THEN "gone" ELSE "send"]
       /\ taken' = [taken EXCEPT ![c] = IF item = NoClient THEN @ ELSE item]
       /\ queue' = [queue EXCEPT ![c] = SubSeq(@, 1, Len(@) - 1)]
    /\ UNCHANGED <<listeners, thread, sockets, fanoutState>>

Take(c) ==
    /\ writer[c] = "get" /\ queue[c] # <<>>
    /\ LET item == Head(queue[c]) IN
       /\ writer' = [writer EXCEPT ![c] = IF item = NoClient THEN "gone" ELSE "send"]
       /\ taken' = [taken EXCEPT ![c] = IF item = NoClient THEN @ ELSE item]
    /\ Get(c)
    /\ UNCHANGED <<listeners, thread, sockets, fanoutState>>

(* sendall returns, as late as it likes; or it fails.                      *)
Sent(c) ==
    /\ writer[c] = "send" /\ c \in sockets
    /\ writer' = [writer EXCEPT ![c] = "get"]
    /\ UNCHANGED <<listeners, queue, thread, sockets, fanoutState, taken>>

SendFails(c) ==
    /\ writer[c] = "send"
    /\ writer' = [writer EXCEPT ![c] = "gone"]
    /\ sockets' = sockets \ {c}
    /\ UNCHANGED <<listeners, queue, thread, fanoutState, taken>>

FramesNext ==
    \/ NextFrame
    \/ \E c \in Clients :
          Fanout(c) \/ AddBrowser(c) \/ Connection(c) \/ Take(c) \/ Sent(c) \/ SendFails(c)

FramesSpec == FramesInit /\ [][FramesNext]_frameVars

(***************************************************************************)
(* Properties.                                                             *)
(***************************************************************************)
FramesAt(c) == {i \in 1..Len(queue[c]) : queue[c][i] # NoClient}

(* However reader, writer and removal race for a queue, a browser gets the *)
(* frames in the order they were encoded and none of them twice.           *)
FramesInOrder == \A c \in Clients : \A i \in FramesAt(c) :
    /\ taken[c] < queue[c][i]
    /\ \A j \in FramesAt(c) : i < j => queue[c][i] < queue[c][j]

(* fanout's comment: the oldest frame is dropped, so a client that cannot  *)
(* keep up still finds the newest one in its queue.                        *)
NewestIsKept == \A c \in listeners :
    full # c => offered[c] = taken[c] \/ (queue[c] # <<>> /\ queue[c][Len(queue[c])] = offered[c])

(* Both, whichever of reader, writers and removals comes first.            *)
NewestInOrder == FramesInOrder /\ NewestIsKept
=============================================================================
