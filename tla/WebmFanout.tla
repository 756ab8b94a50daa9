----------------------------- MODULE WebmFanout -----------------------------
(***************************************************************************)
(* The queues of one broadcast: the reader thread publishes the init       *)
(* segment, Clusters, a partial tail and the None sentinel; _fanout puts   *)
(* each into every client's bounded queue, dropping the oldest entry of a  *)
(* full one; add_client seeds the init segment to a late joiner; shutdown  *)
(* publishes a sentinel and clears the list.  The object's _lock is held   *)
(* through one _fanout, but a client's get() does not take it, so the      *)
(* put / get / put of an eviction is interleaved with it.                  *)
(*                                                                         *)
(* Items are numbered as they are published; the init segment seeded to a  *)
(* late joiner takes the number of the item that went by just before.      *)
(***************************************************************************)
EXTENDS Integers, Sequences

CONSTANTS
    Clients,
    Cap,        \* Queue(maxsize=25)
    MaxItems,   \* bound on the items published
    None

ASSUME CapAssumption == Cap \in Nat \ {0}
ASSUME NoneAssumption == None \notin Clients

VARIABLES
    head,       \* number of the last item published, -1 before the first
    kind,       \* of that item: "init", "data" or "eof" (the sentinel)
    init,       \* _init_segment is set
    reader,     \* the reader thread: "reading", "tail" or "ended"
    stop,       \* shutdown(): "no", "told" or "cleared"
    members,    \* _clients
    todo,       \* clients the running _fanout has still to serve
    evict,      \* the client whose full queue is being made room in
    q,          \* the queues, of [n |-> number, kind |-> kind]
    lagged,     \* clients with meta['drops'] > 0
    at,         \* number of the last item a client took
    status      \* of a client: "out", "in", "done" (took a sentinel), "gone"

published == <<head, kind, init, reader, stop>>
fanning == <<members, todo, evict, lagged>>
clients == <<at, status>>
vars == <<published, fanning, q, clients>>

Kinds == {"init", "data", "eof"}
Items == [n : Nat, kind : Kinds]

TypeOK ==
    /\ head \in Nat \cup {-1} /\ kind \in Kinds /\ init \in BOOLEAN
    /\ reader \in {"reading", "tail", "ended"}
    /\ stop \in {"no", "told", "cleared"}
    /\ members \subseteq Clients /\ todo \subseteq members
    /\ evict \in todo \cup {None}
    /\ q \in [Clients -> Seq(Items)] /\ \A c \in Clients : Len(q[c]) <= Cap
    /\ lagged \subseteq Clients
    /\ at \in [Clients -> Nat \cup {-1}]
    /\ status \in [Clients -> {"out", "in", "done", "gone"}]

Init ==
    /\ head = -1 /\ kind = "data" /\ init = FALSE
    /\ reader = "reading" /\ stop = "no"
    /\ members = {} /\ todo = {} /\ evict = None /\ lagged = {}
    /\ q = [c \in Clients |-> <<>>]
    /\ at = [c \in Clients |-> -1]
    /\ status = [c \in Clients |-> "out"]

(* The broadcast's _lock is free.                                          *)
Unlocked == todo = {}

(* _fanout(item) takes the lock and has every client before it.            *)
Publish(k) ==
    /\ Unlocked /\ head < MaxItems
    /\ head' = head + 1 /\ kind' = k
    /\ todo' = members
    /\ UNCHANGED <<members, evict, lagged, q, clients>>

(* Clusters are 200 ms of audio apart: none falls between the two adjacent *)
(* statements of shutdown() that send the sentinel and clear the list.     *)
ReaderPublishes(k) ==
    /\ Publish(k)
    /\ stop # "told"
    /\ UNCHANGED stop

(* _drain_webm: the init segment is set, and put in every queue that is    *)
(* not full, under one hold of the lock.                                   *)
CaptureInit ==
    /\ reader = "reading" /\ ~init
    /\ Unlocked /\ head < MaxItems /\ stop # "told"
    /\ init' = TRUE
    /\ head' = head + 1 /\ kind' = "init"
    /\ q' = [c \in Clients |->
               IF c \in members /\ Len(q[c]) < Cap
               THEN Append(q[c], [n |-> head + 1, kind |-> "init"]) ELSE q[c]]
    /\ UNCHANGED <<reader, stop, fanning, clients>>

FanoutCluster ==
    /\ reader = "reading" /\ init
    /\ ReaderPublishes("data")
    /\ UNCHANGED <<init, reader>>

FlushTail ==
    /\ reader = "reading"
    /\ reader' = "tail"
    /\ ReaderPublishes("data")
    /\ UNCHANGED init

ReaderEof ==
    /\ reader \in {"reading", "tail"}
    /\ reader' = "ended"
    /\ ReaderPublishes("eof")
    /\ UNCHANGED init

Item == [n |-> head, kind |-> kind]

(* The loop body of _fanout for one client, its queue not full or full.    *)
Offer(c) ==
    /\ evict = None /\ c \in todo /\ Len(q[c]) < Cap
    /\ q' = [q EXCEPT ![c] = Append(@, Item)]
    /\ todo' = todo \ {c}
    /\ UNCHANGED <<published, members, evict, lagged, clients>>

(* Mutant: a full queue is not noted.                                      *)
FindFullUncounted(c) ==
    /\ evict = None /\ c \in todo /\ Len(q[c]) >= Cap
    /\ evict' = c
    /\ UNCHANGED <<published, members, todo, lagged, q, clients>>

FindFull(c) ==
    /\ evict = None /\ c \in todo /\ Len(q[c]) >= Cap
    /\ evict' = c
    /\ lagged' = lagged \cup {c}
    /\ UNCHANGED <<published, members, todo, q, clients>>

(* Mutant: the newest item makes room.                                     *)
EvictNewest(c) ==
    /\ evict = c
    /\ q' = [q EXCEPT ![c] =
               Append(IF @ = <<>> THEN @ ELSE SubSeq(@, 1, Len(@) - 1), Item)]
    /\ evict' = None
    /\ todo' = todo \ {c}
    /\ UNCHANGED <<published, members, lagged, clients>>

(* get_nowait, put_nowait: the client may have emptied the queue by now.   *)
EvictOldest(c) ==
    /\ evict = c
    /\ q' = [q EXCEPT ![c] = Append(IF @ = <<>> THEN @ ELSE Tail(@), Item)]
    /\ evict' = None
    /\ todo' = todo \ {c}
    /\ UNCHANGED <<published, members, lagged, clients>>

(* add_client, called while the broadcast is registered.  A late joiner's  *)
(* seed is numbered like the last item published, which it stands for.     *)
Join(c) ==
    /\ status[c] = "out" /\ Unlocked /\ stop = "no"
    /\ members' = members \cup {c}
    /\ status' = [status EXCEPT ![c] = "in"]
    /\ IF init THEN /\ q' = [q EXCEPT ![c] = <<[n |-> head, kind |-> "init"]>>]
                    /\ at' = [at EXCEPT ![c] = head - 1]
       ELSE /\ q' = [q EXCEPT ![c] = <<>>]
            /\ at' = [at EXCEPT ![c] = head]
    /\ UNCHANGED <<published, todo, evict, lagged>>

(* client_q.get(): the only access to a queue that does not take _lock.    *)
Take(c) ==
    /\ status[c] = "in" /\ q[c] # <<>>
    /\ at' = [at EXCEPT ![c] = Head(q[c]).n]
    /\ q' = [q EXCEPT ![c] = Tail(@)]
    /\ status' = [status EXCEPT ![c] = IF Head(q[c]).kind = "eof" THEN "done" ELSE @]
    /\ UNCHANGED <<published, fanning>>

Leave(c) ==
    /\ status[c] \in {"in", "done"} /\ Unlocked
    /\ members' = members \ {c}
    /\ status' = [status EXCEPT ![c] = "gone"]
    /\ UNCHANGED <<published, todo, evict, lagged, q, at>>

(* shutdown(): the sentinel, then the list is cleared.                     *)

ShutdownEof ==
    /\ stop = "no"
    /\ stop' = "told"
    /\ Publish("eof")
    /\ UNCHANGED <<init, reader>>

ShutdownClear ==
    /\ stop = "told" /\ Unlocked
    /\ stop' = "cleared"
    /\ members' = {}
    /\ UNCHANGED <<head, kind, init, reader, todo, evict, lagged, q, clients>>

Reader == CaptureInit \/ FanoutCluster \/ FlushTail \/ ReaderEof
Fanout == \E c \in Clients : Offer(c) \/ FindFull(c) \/ EvictOldest(c)
Shutdown == ShutdownEof \/ ShutdownClear
Client(c) == Join(c) \/ Take(c) \/ Leave(c)

Next == Reader \/ Fanout \/ Shutdown \/ \E c \in Clients : Client(c)

Spec == Init /\ [][Next]_vars

(***************************************************************************)
(* Properties.                                                             *)
(***************************************************************************)

(* What the queue of c has been offered: the last item in it, or taken.    *)
Offered(c) == IF q[c] = <<>> THEN at[c] ELSE q[c][Len(q[c])].n

IsRun(c) ==
    /\ \A i \in 1..Len(q[c]) : q[c][i].n = Offered(c) - Len(q[c]) + i
    /\ Offered(c) - Len(q[c]) >= at[c]
    /\ c \in members => Offered(c) = IF c \in todo THEN head - 1 ELSE head

(* A client's queue holds consecutive items, up to the one being fanned    *)
(* out unless the client is still to be served, and nothing it took        *)
(* already: drop-oldest loses only what is older than all that waits.      *)
QueuesAreRuns == \A c \in Clients : IsRun(c)

(* The queues implement the promise of LossyFeed: a client gets the items  *)
(* in order, none twice, and all of them unless its drop counter moved.    *)
Feed == INSTANCE LossyFeed WITH offered <- [c \in Clients |-> Offered(c)]
FeedSpec == Feed!Spec

(* A client dropped from the list and still reading has a sentinel coming, *)
(* whatever was evicted from its queue to make room for it.                *)
SentinelKept ==
    \A c \in Clients : status[c] = "in" /\ c \notin members =>
        \E i \in 1..Len(q[c]) : q[c][i].kind = "eof"

(* Both: whatever the readers, evictions and departures in between, a      *)
(* queue is what it should be, and its end is not lost from it.            *)
QueuesExact == QueuesAreRuns /\ SentinelKept
=============================================================================
