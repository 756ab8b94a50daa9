---------------------------- MODULE FanoutProofs ----------------------------
(***************************************************************************)
(* Proofs about the queues around the encoder: WebmFanout implements       *)
(* LossyFeed, for every number of clients and every queue size, and a      *)
(* client dropped by shutdown always has its sentinel; PcmFeed lets one    *)
(* sender at a time feed the encoder, in frames, for every number of       *)
(* senders and connections and every frame and buffer size; WebmParser     *)
(* cuts what the encoder writes exactly at its Clusters, for every stream  *)
(* of any length, every width of a byte and however the reads fall.        *)
(***************************************************************************)
EXTENDS WebmFanout, PcmFeed, WebmParser, FiniteSetTheorems, SequenceTheorems,
        WellFoundedInduction, TLAPS

-----------------------------------------------------------------------------
(***************************************************************************)
(* WebmFanout.  The inductive invariant adds to QueuesAreRuns that the     *)
(* drop counter accounts for a client's gap (Accounted), that whoever is   *)
(* not listed was told or is about to be (Told), and where the reader, a   *)
(* fan-out under way and shutdown stand to each other (Phases).            *)
(***************************************************************************)
(* The gap of a client is what its drop counter admits to.                 *)
Accounted(c) == c \notin lagged => Offered(c) - Len(q[c]) = at[c]

(* A client is listed, or was told, or its turn is coming.                 *)
Told(c) ==
    /\ c \in members => status[c] # "out"
    /\ stop = "no" /\ status[c] = "in" => c \in members
    /\ status[c] = "in" /\ stop # "no" /\ c \notin todo =>
          \E i \in 1..Len(q[c]) : q[c][i].kind = "eof"

ClientInv(c) == IsRun(c) /\ Accounted(c) /\ Told(c)

Phases ==
    /\ init \/ todo # {} => head \in Nat
    /\ reader = "reading" /\ ~init /\ stop = "no" => head = -1
    /\ stop = "told" => kind = "eof"
    /\ stop = "cleared" => members = {}
    /\ evict # None => evict \in lagged

FanoutInv == TypeOK /\ Phases /\ \A c \in Clients : ClientInv(c)

(* Appending to a queue, and taking its head, as the actions do.           *)
LEMMA AppendItem ==
    ASSUME NEW s \in Seq(Items), NEW x \in Items
    PROVE  /\ Append(s, x) \in Seq(Items)
           /\ Len(Append(s, x)) = Len(s) + 1
           /\ Append(s, x) # <<>>
           /\ Append(s, x)[Len(s) + 1] = x
           /\ \A i \in 1..Len(s) : Append(s, x)[i] = s[i]
  OBVIOUS

LEMMA TailItem ==
    ASSUME NEW s \in Seq(Items), s # <<>>
    PROVE  /\ Tail(s) \in Seq(Items)
           /\ Len(Tail(s)) = Len(s) - 1
           /\ Len(s) \in Nat /\ Len(s) >= 1
           /\ Head(s) = s[1] /\ s[1] \in Items
           /\ \A i \in 1..Len(s) - 1 : Tail(s)[i] = s[i + 1]
  OBVIOUS

(* One queue of a type-correct state, its items and what it was offered.   *)
LEMMA Queue ==
    ASSUME TypeOK, NEW c \in Clients
    PROVE  /\ q[c] \in Seq(Items) /\ Len(q[c]) \in Nat /\ Len(q[c]) <= Cap
           /\ q[c] = <<>> <=> Len(q[c]) = 0
           /\ \A i \in 1..Len(q[c]) : q[c][i] \in Items /\ q[c][i].n \in Nat
           /\ at[c] \in Nat \cup {-1}
           /\ Offered(c) \in Nat \cup {-1}
<1>1. q[c] \in Seq(Items) /\ Len(q[c]) \in Nat /\ Len(q[c]) <= Cap
  BY DEF TypeOK
<1>2. q[c] = <<>> <=> Len(q[c]) = 0
  BY <1>1
<1>3. \A i \in 1..Len(q[c]) : q[c][i] \in Items /\ q[c][i].n \in Nat
  <2>1. ASSUME NEW i \in 1..Len(q[c]) PROVE q[c][i] \in Items
    BY <1>1
  <2>2. \A x \in Items : x.n \in Nat
    BY DEF Items
  <2> QED  BY <2>1, <2>2
<1>4. at[c] \in Nat \cup {-1}
  BY DEF TypeOK
<1>5. Offered(c) \in Nat \cup {-1}
  <2>1. CASE q[c] = <<>>
    BY <1>4, <2>1 DEF Offered
  <2>2. CASE q[c] # <<>>
    <3>1. Len(q[c]) \in 1..Len(q[c])
      BY <1>1, <1>2, <2>2
    <3> QED  BY <1>3, <2>2, <3>1 DEF Offered
  <2> QED  BY <2>1, <2>2
<1> QED  BY <1>1, <1>2, <1>3, <1>4, <1>5

(* A queue that an action leaves alone.                                    *)
LEMMA Unmoved ==
    ASSUME NEW c \in Clients, q'[c] = q[c], at'[c] = at[c]
    PROVE  Offered(c)' = Offered(c)
  BY DEF Offered

(* The three moves of a queue: x is put, the oldest is evicted, one is     *)
(* taken.                                                                  *)
Follows(x, c) == x.n = Offered(c) + 1

LEMMA PutMoves ==
    ASSUME FanoutInv, NEW c \in Clients, NEW x \in Items, q'[c] = Append(q[c], x), at'[c] = at[c],
           Follows(x, c)
    PROVE  /\ q'[c] \in Seq(Items) /\ Len(q'[c]) = Len(q[c]) + 1
           /\ Offered(c)' = Offered(c) + 1
           /\ \A i \in 1..Len(q'[c]) : q'[c][i].n = Offered(c)' - Len(q'[c]) + i
           /\ q'[c][Len(q[c]) + 1] = x
           /\ \A i \in 1..Len(q[c]) : q'[c][i] = q[c][i]
<1>1. TypeOK /\ Phases /\ (\A d \in Clients : IsRun(d))
  BY DEF FanoutInv, ClientInv
<1>2. /\ q'[c] \in Seq(Items) /\ Len(q'[c]) = Len(q[c]) + 1 /\ q'[c] # <<>>
      /\ q'[c][Len(q[c]) + 1] = x
      /\ \A i \in 1..Len(q[c]) : q'[c][i] = q[c][i]
  BY SMTT(30), <1>1, Queue, AppendItem
<1>3. Offered(c)' = Offered(c) + 1
  BY <1>2 DEF Offered, Follows
<1>4. ASSUME NEW i \in 1..Len(q'[c]) PROVE q'[c][i].n = Offered(c)' - Len(q'[c]) + i
  <2>1. CASE i = Len(q[c]) + 1
    BY <1>1, <1>2, <1>3, <2>1, Queue DEF Follows
  <2>2. CASE i \in 1..Len(q[c])
    <3>1. q'[c][i].n = Offered(c) - Len(q[c]) + i
      BY <1>1, <1>2, <2>2 DEF IsRun
    <3>2. Offered(c) \in Int /\ Len(q[c]) \in Int /\ i \in Int
      BY <1>1, <2>2, Queue
    <3>3. \A o, l, j, p, m \in Int : p = o + 1 /\ m = l + 1 => o - l + j = p - m + j
      OBVIOUS
    <3>4. Offered(c)' \in Int /\ Len(q'[c]) \in Int
      BY <1>2, <1>3, <3>2
    <3>5. Len(q'[c]) = Len(q[c]) + 1
      BY <1>2
    <3>6. Offered(c) - Len(q[c]) + i = Offered(c)' - Len(q'[c]) + i
      BY <1>3, <3>2, <3>3, <3>4, <3>5
    <3> QED  BY <3>1, <3>6
  <2> QED  BY <1>1, <1>2, <2>1, <2>2, Queue
<1> QED  BY <1>2, <1>3, <1>4

LEMMA EvictMoves ==
    ASSUME FanoutInv, NEW c \in todo, EvictOldest(c)
    PROVE  /\ q'[c] \in Seq(Items) /\ Len(q'[c]) <= Cap /\ q'[c] # <<>>
           /\ Len(q'[c]) = IF q[c] = <<>> THEN 1 ELSE Len(q[c])
           /\ Offered(c)' = head /\ Offered(c) = head - 1
           /\ \A i \in 1..Len(q'[c]) : q'[c][i].n = head - Len(q'[c]) + i
           /\ q'[c][Len(q'[c])] = Item
<1> USE CapAssumption
<1>1. /\ TypeOK /\ Phases /\ \A d \in Clients : IsRun(d)
      /\ c \in Clients /\ c \in members /\ head \in Nat
  BY DEF FanoutInv, Phases, TypeOK, ClientInv
<1>2. Offered(c) = head - 1 /\ Item \in Items /\ Item.n = head
  BY <1>1 DEF IsRun, Item, Items, TypeOK
<1>3. CASE q[c] = <<>>
  <2>1. q'[c] = <<Item>>
    BY <1>1, <1>3 DEF EvictOldest, TypeOK
  <2> QED  BY <1>1, <1>2, <1>3, <2>1 DEF Offered
<1>4. CASE q[c] # <<>>
  <2>1. q'[c] = Append(Tail(q[c]), Item)
    BY <1>1, <1>4 DEF EvictOldest, TypeOK
  <2>2. /\ Tail(q[c]) \in Seq(Items) /\ Len(Tail(q[c])) = Len(q[c]) - 1
        /\ Len(q[c]) \in Nat /\ Len(q[c]) >= 1
        /\ \A i \in 1..Len(q[c]) - 1 : Tail(q[c])[i] = q[c][i + 1]
    BY <1>1, <1>4, Queue, TailItem
  <2>3. /\ q'[c] \in Seq(Items) /\ Len(q'[c]) = Len(q[c]) /\ q'[c] # <<>>
        /\ q'[c][Len(q[c])] = Item
        /\ \A i \in 1..Len(q[c]) - 1 : q'[c][i] = q[c][i + 1]
    BY <1>2, <2>1, <2>2, AppendItem
  <2>4. Offered(c)' = head
    BY <1>2, <2>3 DEF Offered
  <2>5. ASSUME NEW i \in 1..Len(q'[c]) PROVE q'[c][i].n = head - Len(q'[c]) + i
    <3>1. CASE i = Len(q[c])
      <4>1. \A a, b \in Int : a = a - b + b
        OBVIOUS
      <4>2. head = head - Len(q[c]) + Len(q[c])
        BY <1>1, <2>2, <4>1
      <4>3. q'[c][i] = Item /\ Len(q'[c]) = i
        BY <2>3, <3>1
      <4> QED  BY <1>2, <3>1, <4>2, <4>3
    <3>2. CASE i \in 1..Len(q[c]) - 1
      <4>1. i + 1 \in 1..Len(q[c]) /\ q'[c][i] = q[c][i + 1]
        BY <2>2, <2>3, <3>2
      <4>2. q[c][i + 1].n = Offered(c) - Len(q[c]) + (i + 1)
        BY <1>1, <4>1 DEF IsRun
      <4>3. i \in Nat
        BY <2>2, <3>2
      <4> QED  BY <1>1, <1>2, <2>2, <2>3, <4>1, <4>2, <4>3
    <3>3. i \in 1..Len(q[c]) /\ Len(q[c]) \in Nat
      BY <2>2, <2>3
    <3>4. i = Len(q[c]) \/ i \in 1..Len(q[c]) - 1
      BY <3>3
    <3> QED  BY <3>1, <3>2, <3>4
  <2> QED  BY <1>1, <1>2, <1>4, <2>2, <2>3, <2>4, <2>5, Queue
<1> QED  BY <1>3, <1>4

LEMMA TakeMoves ==
    ASSUME FanoutInv, NEW c \in Clients, Take(c)
    PROVE  /\ q'[c] \in Seq(Items) /\ Len(q'[c]) = Len(q[c]) - 1 /\ Len(q[c]) >= 1
           /\ at'[c] = Offered(c) - Len(q[c]) + 1 /\ at'[c] \in Nat
           /\ Offered(c)' = Offered(c)
           /\ \A i \in 1..Len(q'[c]) : q'[c][i] = q[c][i + 1]
           /\ \A i \in 1..Len(q'[c]) : q'[c][i].n = Offered(c)' - Len(q'[c]) + i
<1>1. TypeOK /\ Phases /\ (\A d \in Clients : IsRun(d)) /\ q[c] # <<>>
  BY DEF FanoutInv, Take, ClientInv
<1>2. q'[c] = Tail(q[c]) /\ at'[c] = Head(q[c]).n
  BY <1>1 DEF Take, TypeOK
<1>3. /\ q'[c] \in Seq(Items) /\ Len(q'[c]) = Len(q[c]) - 1
      /\ Len(q[c]) \in Nat /\ Len(q[c]) >= 1
      /\ Head(q[c]) = q[c][1] /\ q[c][1] \in Items
      /\ \A i \in 1..Len(q[c]) - 1 : q'[c][i] = q[c][i + 1]
  BY <1>1, <1>2, Queue, TailItem
<1>4. at'[c] = Offered(c) - Len(q[c]) + 1 /\ at'[c] \in Nat
  BY <1>1, <1>2, <1>3 DEF IsRun, Items
<1>7. Offered(c) \in Int
  BY <1>1, Queue
<1>8. Len(q[c]) \in Nat /\ Len(q[c]) >= 1
  BY <1>3
<1>5. Offered(c)' = Offered(c)
  <2>1. CASE Len(q[c]) = 1
    <3>1. q'[c] = <<>>
      BY <1>3, <2>1
    <3>2. Offered(c)' = at'[c]
      BY <3>1 DEF Offered
    <3>3. at'[c] = Offered(c)
      BY <1>4, <1>7, <2>1
    <3> QED  BY <3>2, <3>3
  <2>2. CASE Len(q[c]) > 1
    <3>1. Len(q[c]) - 1 \in 1..Len(q[c]) - 1 /\ q'[c] # <<>>
      BY <1>3, <2>2
    <3>2. q'[c][Len(q[c]) - 1] = q[c][Len(q[c]) - 1 + 1]
      BY <1>3, <3>1
    <3>3. q'[c][Len(q'[c])] = q[c][Len(q[c])]
      BY <1>3, <3>2
    <3> QED  BY <1>1, <3>1, <3>3 DEF Offered
  <2>3. \A m \in Nat : m >= 1 => m = 1 \/ m > 1
    OBVIOUS
  <2> QED  BY <1>8, <2>1, <2>2, <2>3
<1>6. ASSUME NEW i \in 1..Len(q'[c]) PROVE q'[c][i].n = Offered(c)' - Len(q'[c]) + i
  <2>1. i + 1 \in 1..Len(q[c]) /\ q'[c][i] = q[c][i + 1]
    BY <1>3
  <2>2. q[c][i + 1].n = Offered(c) - Len(q[c]) + (i + 1)
    BY <1>1, <2>1 DEF IsRun
  <2>3. i \in Nat
    BY <1>3
  <2>4. q[c][i + 1].n = Offered(c) - (Len(q[c]) - 1) + i
    <3>1. \A o, l, j \in Int : o - l + (j + 1) = o - (l - 1) + j
      OBVIOUS
    <3>2. Offered(c) - Len(q[c]) + (i + 1) = Offered(c) - (Len(q[c]) - 1) + i
      BY SMTT(30), <1>7, <1>8, <2>3, <3>1
    <3> QED  BY <2>2, <3>2
  <2> QED  BY <1>3, <1>5, <2>1, <2>4
<1> QED  BY <1>3, <1>4, <1>5, <1>6

(* The init segment finds the queue of every member empty.                 *)
LEMMA CaptureMoves ==
    ASSUME FanoutInv, CaptureInit, NEW c \in Clients
    PROVE  /\ at'[c] = at[c]
           /\ c \notin members => q'[c] = q[c]
           /\ c \in members =>
                 /\ head = -1 /\ Offered(c) = head /\ Len(q[c]) = 0
                 /\ q'[c] = Append(q[c], [n |-> head + 1, kind |-> "init"])
<1> USE CapAssumption
<1>1. /\ TypeOK /\ Phases /\ \A d \in Clients : IsRun(d)
      /\ at'[c] = at[c] /\ todo = {} /\ head \in Nat \cup {-1}
  BY DEF FanoutInv, ClientInv, CaptureInit, TypeOK, Unlocked, clients
<1>2. CASE c \notin members
  BY <1>1, <1>2 DEF CaptureInit
<1>3. CASE c \in members
  <2>1. head = -1
    BY <1>3 DEF CaptureInit, FanoutInv, Phases, TypeOK
  <2>2. Offered(c) = head
    BY <1>1, <1>3 DEF IsRun
  <2>3. Len(q[c]) = 0
    <3>1. SUFFICES ASSUME q[c] # <<>> PROVE FALSE
      BY <1>1, Queue
    <3>2. Len(q[c]) \in 1..Len(q[c]) /\ Offered(c) = q[c][Len(q[c])].n
      BY <1>1, <3>1, Queue DEF Offered
    <3> QED  BY <1>1, <2>1, <2>2, <3>2, Queue
  <2> QED  BY <1>1, <1>3, <2>1, <2>2, <2>3 DEF CaptureInit
<1> QED  BY <1>2, <1>3

(* A client that an action does not touch.                                 *)
LEMMA Bystander ==
    ASSUME NEW c \in Clients, ClientInv(c),
           q'[c] = q[c], at'[c] = at[c], status'[c] = status[c],
           c \in members' <=> c \in members, c \in todo' <=> c \in todo,
           c \in lagged' <=> c \in lagged, head' = head, stop' = stop
    PROVE  ClientInv(c)'
<1>1. Offered(c)' = Offered(c)
  BY Unmoved
<1> QED  BY <1>1 DEF ClientInv, IsRun, Accounted, Told

LEMMA PublishStep ==
    ASSUME FanoutInv, FanoutCluster \/ FlushTail \/ ReaderEof \/ ShutdownEof
    PROVE  FanoutInv'
<1>1. /\ todo = {} /\ todo' = members /\ head' = head + 1 /\ kind' \in Kinds
      /\ UNCHANGED <<members, evict, lagged, q, at, status>>
  BY DEF FanoutCluster, FlushTail, ReaderEof, ShutdownEof, ReaderPublishes, Publish,
         Unlocked, Kinds, clients
<1>2. TypeOK'
  BY <1>1 DEF FanoutInv, TypeOK, FanoutCluster, FlushTail, ReaderEof, ShutdownEof,
              ReaderPublishes
<1>3. Phases'
  BY <1>1 DEF FanoutInv, TypeOK, Phases, FanoutCluster, FlushTail, ReaderEof, ShutdownEof,
              ReaderPublishes, Publish
<1>4. ASSUME NEW c \in Clients PROVE ClientInv(c)'
  <2>1. ClientInv(c) /\ TypeOK /\ Phases /\ Offered(c)' = Offered(c)
    BY <1>1, Unmoved DEF FanoutInv
  <2>2. IsRun(c)' /\ Accounted(c)'
    <3>1. c \in members => Offered(c)' = head' - 1
      BY <1>1, <2>1 DEF ClientInv, IsRun, TypeOK
    <3> QED  BY <1>1, <2>1, <3>1 DEF ClientInv, IsRun, Accounted
  <2>3. CASE stop' = stop
    BY <1>1, <2>1, <2>2, <2>3 DEF ClientInv, Told
  <2>4. CASE stop = "no" /\ stop' = "told"
    BY <1>1, <2>1, <2>2, <2>4 DEF ClientInv, Told
  <2> QED  BY <2>3, <2>4 DEF FanoutCluster, FlushTail, ReaderEof, ShutdownEof,
                             ReaderPublishes
<1> QED  BY <1>2, <1>3, <1>4 DEF FanoutInv

LEMMA CaptureStep ==
    ASSUME FanoutInv, CaptureInit
    PROVE  FanoutInv'
<1> DEFINE seg == [n |-> head + 1, kind |-> "init"]
<1>1. /\ todo = {} /\ head' = head + 1 /\ kind' = "init" /\ init' = TRUE
      /\ UNCHANGED <<reader, stop, members, todo, evict, lagged, at, status>>
      /\ head + 1 \in Nat /\ stop # "told"
  BY DEF CaptureInit, Unlocked, fanning, clients, FanoutInv, TypeOK
<1>2. seg \in Items /\ seg.n = head + 1
  BY <1>1 DEF Items, Kinds
<1> HIDE DEF seg
<1>3. ASSUME NEW c \in Clients
      PROVE  q'[c] \in Seq(Items) /\ Len(q'[c]) <= Cap /\ ClientInv(c)'
  <2>1. ClientInv(c) /\ TypeOK /\ Phases
    BY DEF FanoutInv
  <2>2. CASE c \notin members
    <3>1. q'[c] = q[c] /\ Offered(c)' = Offered(c)
      BY <2>2, CaptureMoves, Unmoved
    <3> QED  BY <1>1, <2>1, <2>2, <3>1, Queue DEF ClientInv, IsRun, Accounted, Told
  <2>3. CASE c \in members
    <3>1. /\ head = -1 /\ Offered(c) = head /\ Len(q[c]) = 0
          /\ q'[c] = Append(q[c], seg) /\ at'[c] = at[c]
      BY <2>3, CaptureMoves DEF seg
    <3>2. /\ q'[c] \in Seq(Items) /\ Len(q'[c]) = Len(q[c]) + 1
          /\ Offered(c)' = Offered(c) + 1
          /\ \A i \in 1..Len(q'[c]) : q'[c][i].n = Offered(c)' - Len(q'[c]) + i
      BY <1>2, <3>1, PutMoves DEF Follows
    <3>3. stop = "no"
      BY <1>1, <2>1, <2>3 DEF Phases, TypeOK
    <3>4. Len(q'[c]) = 1 /\ Offered(c)' = 0 /\ 1 <= Cap
      BY <3>1, <3>2, CapAssumption
    <3> QED  BY <1>1, <2>1, <2>3, <3>1, <3>2, <3>3, <3>4
             DEF ClientInv, IsRun, Accounted, Told
  <2> QED  BY <2>2, <2>3
<1>4. TypeOK'
  <2>1. q' = [c \in Clients |-> q'[c]]
    BY DEF CaptureInit
  <2>2. q' \in [Clients -> Seq(Items)]
    BY <1>3, <2>1
  <2> QED  BY <1>1, <1>3, <2>2 DEF FanoutInv, TypeOK, Kinds
<1>5. Phases'
  BY <1>1 DEF FanoutInv, Phases, TypeOK
<1> QED  BY <1>3, <1>4, <1>5 DEF FanoutInv

LEMMA OfferStep ==
    ASSUME FanoutInv, NEW c \in Clients, Offer(c)
    PROVE  FanoutInv'
<1>1. /\ TypeOK /\ Phases /\ ClientInv(c) /\ c \in todo /\ c \in members /\ head \in Nat
      /\ Len(q[c]) < Cap /\ todo' = todo \ {c}
      /\ UNCHANGED <<head, kind, init, reader, stop, members, evict, lagged, at, status>>
      /\ Offered(c) = head - 1 /\ Item \in Items /\ Item.n = head
  BY DEF FanoutInv, Offer, Phases, TypeOK, ClientInv, IsRun, Item, Items, published, clients
<1>2. q' = [q EXCEPT ![c] = Append(@, Item)]
  BY DEF Offer
<1>3. q'[c] = Append(q[c], Item) /\ \A d \in Clients : d # c => q'[d] = q[d]
  BY <1>1, <1>2 DEF TypeOK
<1>4. /\ q'[c] \in Seq(Items) /\ Len(q'[c]) = Len(q[c]) + 1
      /\ Offered(c)' = Offered(c) + 1
      /\ \A i \in 1..Len(q'[c]) : q'[c][i].n = Offered(c)' - Len(q'[c]) + i
      /\ q'[c][Len(q[c]) + 1] = Item
  <2>1. Item.n = Offered(c) + 1 /\ at'[c] = at[c]
    BY <1>1
  <2> QED  BY <1>1, <1>3, <2>1, PutMoves DEF Follows
<1>5. Len(q'[c]) <= Cap /\ Len(q[c]) + 1 \in 1..Len(q'[c])
  BY <1>1, <1>4, Queue, CapAssumption
<1>6. TypeOK'
  <2>1. q' \in [Clients -> Seq(Items)]
    BY <1>1, <1>2, <1>3, <1>4 DEF TypeOK
  <2>2. \A d \in Clients : Len(q'[d]) <= Cap
    BY <1>1, <1>3, <1>5 DEF TypeOK
  <2> QED  BY <1>1, <2>1, <2>2 DEF TypeOK, Offer
<1>7. Phases'
  BY <1>1 DEF Phases, Offer
<1>8. ClientInv(c)'
  <2>1. Offered(c)' - Len(q'[c]) = Offered(c) - Len(q[c])
    BY <1>1, <1>4, Queue
  <2>2. IsRun(c)' /\ Accounted(c)'
    <3>1. Offered(c)' = head
      BY <1>1, <1>4
    <3>2. Offered(c)' - Len(q'[c]) >= at'[c]
      BY <1>1, <2>1 DEF ClientInv, IsRun
    <3>3. Accounted(c)'
      BY <1>1, <2>1 DEF ClientInv, Accounted
    <3> QED  BY <1>1, <1>4, <3>1, <3>2, <3>3 DEF IsRun
  <2>3. stop = "told" => \E i \in 1..Len(q'[c]) : q'[c][i].kind = "eof"
    <3>1. stop = "told" => Item.kind = "eof"
      BY <1>1 DEF Phases, Item
    <3>2. Len(q[c]) + 1 \in 1..Len(q'[c])
      BY <1>4, <1>5
    <3> QED  BY <1>4, <3>1, <3>2
  <2>4. stop # "cleared"
    BY <1>1 DEF Phases
  <2> QED  BY <1>1, <2>2, <2>3, <2>4 DEF ClientInv, Told, TypeOK
<1>9. ASSUME NEW d \in Clients, d # c PROVE ClientInv(d)'
  BY <1>1, <1>3, <1>9, Bystander DEF FanoutInv
<1> QED  BY <1>6, <1>7, <1>8, <1>9 DEF FanoutInv

LEMMA EvictStep ==
    ASSUME FanoutInv, NEW c \in Clients, EvictOldest(c)
    PROVE  FanoutInv'
<1>1. /\ TypeOK /\ Phases /\ ClientInv(c) /\ evict = c /\ c # None
      /\ c \in todo /\ c \in members /\ head \in Nat
      /\ todo' = todo \ {c} /\ evict' = None /\ c \in lagged
      /\ UNCHANGED <<head, kind, init, reader, stop, members, lagged, at, status>>
      /\ Item \in Items
  BY NoneAssumption
  DEF FanoutInv, EvictOldest, Phases, TypeOK, ClientInv, Item, Items, published, clients
<1>2. /\ q' = [q EXCEPT ![c] = q'[c]]
      /\ \A d \in Clients : d # c => q'[d] = q[d]
  BY <1>1 DEF TypeOK, EvictOldest
<1>3. /\ q'[c] \in Seq(Items) /\ Len(q'[c]) <= Cap /\ q'[c] # <<>>
      /\ Len(q'[c]) = IF q[c] = <<>> THEN 1 ELSE Len(q[c])
      /\ Offered(c)' = head /\ Offered(c) = head - 1
      /\ \A i \in 1..Len(q'[c]) : q'[c][i].n = head - Len(q'[c]) + i
      /\ q'[c][Len(q'[c])] = Item
  BY <1>1, EvictMoves
<1>4. TypeOK'
  <2>1. q' \in [Clients -> Seq(Items)]
    BY <1>1, <1>2, <1>3 DEF TypeOK
  <2>2. \A d \in Clients : Len(q'[d]) <= Cap
    BY <1>1, <1>2, <1>3 DEF TypeOK
  <2> QED  BY <1>1, <2>1, <2>2 DEF TypeOK
<1>5. Phases'
  BY <1>1 DEF Phases
<1>6. ClientInv(c)'
  <2>1. at[c] \in Int /\ Len(q[c]) \in Nat /\ (q[c] = <<>> <=> Len(q[c]) = 0)
    BY <1>1, Queue
  <2>2. head - 1 - Len(q[c]) >= at[c] /\ (q[c] = <<>> => head - 1 = at[c])
    <3>1. head - 1 - Len(q[c]) >= at[c]
      BY <1>1, <1>3 DEF ClientInv, IsRun
    <3>2. q[c] = <<>> => head - 1 = at[c]
      BY <1>3 DEF Offered
    <3> QED  BY <3>1, <3>2
  <2>3. head - Len(q'[c]) >= at[c]
    <3>1. CASE q[c] = <<>>
      BY <1>1, <1>3, <2>1, <2>2, <3>1
    <3>2. CASE q[c] # <<>>
      <4>1. \A h, l, a \in Int : h - 1 - l >= a => h - l >= a
        OBVIOUS
      <4>2. head - Len(q[c]) >= at[c]
        <5>1. head \in Int /\ Len(q[c]) \in Int
          BY <1>1, <2>1
        <5> QED  BY <2>1, <2>2, <4>1, <5>1
      <4> QED  BY <1>3, <3>2, <4>2
    <3> QED  BY <3>1, <3>2
  <2>4. IsRun(c)' /\ Accounted(c)'
    BY <1>1, <1>3, <2>3 DEF IsRun, Accounted
  <2>5. stop = "told" => \E i \in 1..Len(q'[c]) : q'[c][i].kind = "eof"
    <3>1. Len(q'[c]) \in 1..Len(q'[c])
      BY <1>3
    <3> QED  BY <1>1, <1>3, <3>1 DEF Phases, Item
  <2>6. stop # "cleared"
    BY <1>1 DEF Phases
  <2> QED  BY <1>1, <2>4, <2>5, <2>6 DEF ClientInv, Told, TypeOK
<1>7. ASSUME NEW d \in Clients, d # c PROVE ClientInv(d)'
  BY <1>1, <1>2, <1>7, Bystander DEF FanoutInv
<1> QED  BY <1>4, <1>5, <1>6, <1>7 DEF FanoutInv

LEMMA FullStep ==
    ASSUME FanoutInv, NEW c \in Clients, FindFull(c)
    PROVE  FanoutInv'
<1>1. /\ TypeOK /\ Phases /\ c \in todo /\ evict' = c /\ lagged' = lagged \cup {c}
      /\ UNCHANGED <<head, kind, init, reader, stop, members, todo, q, at, status>>
  BY DEF FanoutInv, FindFull, published, clients
<1>2. TypeOK' /\ Phases'
  BY <1>1 DEF TypeOK, Phases
<1>3. ASSUME NEW d \in Clients PROVE ClientInv(d)'
  <2>1. ClientInv(d) /\ Offered(d)' = Offered(d)
    BY <1>1, Unmoved DEF FanoutInv
  <2> QED  BY <1>1, <2>1 DEF ClientInv, IsRun, Accounted, Told
<1> QED  BY <1>2, <1>3 DEF FanoutInv

LEMMA JoinStep ==
    ASSUME FanoutInv, NEW c \in Clients, Join(c)
    PROVE  FanoutInv'
<1> DEFINE seed == [n |-> head, kind |-> "init"]
<1>1. /\ TypeOK /\ Phases /\ todo = {} /\ stop = "no" /\ members' = members \cup {c}
      /\ status' = [status EXCEPT ![c] = "in"]
      /\ UNCHANGED <<head, kind, init, reader, stop, todo, evict, lagged>>
  BY DEF FanoutInv, Join, Unlocked, published
<1>2. ASSUME NEW d \in Clients, d # c
      PROVE  q'[d] = q[d] /\ at'[d] = at[d] /\ status'[d] = status[d]
  BY <1>1, <1>2 DEF Join, TypeOK
<1>3. ASSUME NEW d \in Clients, d # c PROVE ClientInv(d)'
  BY <1>1, <1>2, <1>3, Bystander DEF FanoutInv
<1>4. CASE init
  <2>1. /\ head \in Nat /\ seed \in Items /\ seed.n = head
        /\ q' = [q EXCEPT ![c] = <<seed>>] /\ q'[c] = <<seed>> /\ at'[c] = head - 1
        /\ at' = [at EXCEPT ![c] = head - 1]
    BY <1>1, <1>4 DEF Phases, Join, TypeOK, Items, Kinds
  <2> HIDE DEF seed
  <2>2. q'[c] \in Seq(Items) /\ Len(q'[c]) = 1 /\ q'[c][1] = seed /\ q'[c] # <<>>
    <3>1. \A x \in Items : /\ <<x>> \in Seq(Items) /\ Len(<<x>>) = 1
                          /\ <<x>>[1] = x /\ <<x>> # <<>>
      OBVIOUS
    <3> QED  BY <2>1, <3>1
  <2>3. TypeOK'
    <3>1. q' \in [Clients -> Seq(Items)]
      BY <1>1, <2>1, <2>2 DEF TypeOK
    <3>2. \A d \in Clients : Len(q'[d]) <= Cap
      <4>1. Len(q'[c]) <= Cap
        BY <2>2, CapAssumption
      <4> QED  BY <1>1, <1>2, <4>1 DEF TypeOK
    <3> QED  BY <1>1, <2>1, <3>1, <3>2 DEF TypeOK
  <2>4. ClientInv(c)'
    <3>1. Offered(c)' = head
      BY <2>1, <2>2 DEF Offered
    <3>2. ASSUME NEW i \in 1..Len(q'[c]) PROVE q'[c][i].n = Offered(c)' - Len(q'[c]) + i
      <4>1. i = 1
        BY <2>2
      <4>2. q'[c][i].n = head /\ Offered(c)' - Len(q'[c]) + i = head - 1 + 1
        BY <2>1, <2>2, <3>1, <4>1
      <4>3. head - 1 + 1 = head
        BY <2>1
      <4> QED  BY <4>2, <4>3
    <3>3. IsRun(c)' /\ Accounted(c)'
      <4>1. Offered(c)' - Len(q'[c]) = head - 1
        BY <2>2, <3>1, Zenon
      <4>2. head - 1 \in Int
        BY <2>1
      <4>3. Offered(c)' - Len(q'[c]) >= at'[c]
        BY <2>1, <4>1, <4>2
      <4> QED  BY <1>1, <2>1, <3>1, <3>2, <4>1, <4>3 DEF IsRun, Accounted
    <3> QED  BY <1>1, <3>3 DEF ClientInv, Told, TypeOK
  <2> QED  BY <1>1, <1>3, <2>3, <2>4 DEF FanoutInv, Phases
<1>5. CASE ~init
  <2>1. /\ head + 1 \in Nat
        /\ q' = [q EXCEPT ![c] = <<>>] /\ q'[c] = <<>> /\ at'[c] = head
        /\ at' = [at EXCEPT ![c] = head]
    BY <1>1, <1>5 DEF Join, TypeOK
  <2>2. TypeOK'
    BY <1>1, <1>2, <2>1, CapAssumption DEF TypeOK
  <2>3. ClientInv(c)'
    <3>1. Offered(c)' = head /\ Len(q'[c]) = 0
      BY <2>1 DEF Offered
    <3> QED  BY <1>1, <2>1, <3>1 DEF ClientInv, IsRun, Accounted, Told, TypeOK
  <2> QED  BY <1>1, <1>3, <2>2, <2>3 DEF FanoutInv, Phases
<1> QED  BY <1>4, <1>5

LEMMA TakeStep ==
    ASSUME FanoutInv, NEW c \in Clients, Take(c)
    PROVE  FanoutInv'
<1>1. /\ TypeOK /\ Phases /\ ClientInv(c) /\ status[c] = "in" /\ q[c] # <<>>
      /\ at' = [at EXCEPT ![c] = Head(q[c]).n] /\ q' = [q EXCEPT ![c] = Tail(@)]
      /\ status' = [status EXCEPT ![c] = IF Head(q[c]).kind = "eof" THEN "done" ELSE @]
      /\ UNCHANGED <<head, kind, init, reader, stop, members, todo, evict, lagged>>
  BY DEF FanoutInv, Take, published, fanning
<1>2. ASSUME NEW d \in Clients, d # c
      PROVE  q'[d] = q[d] /\ at'[d] = at[d] /\ status'[d] = status[d]
  BY <1>1, <1>2 DEF TypeOK
<1>3. /\ q'[c] \in Seq(Items) /\ Len(q'[c]) = Len(q[c]) - 1 /\ Len(q[c]) >= 1
      /\ at'[c] = Offered(c) - Len(q[c]) + 1 /\ at'[c] \in Nat
      /\ Offered(c)' = Offered(c)
      /\ \A i \in 1..Len(q'[c]) : q'[c][i] = q[c][i + 1]
      /\ \A i \in 1..Len(q'[c]) : q'[c][i].n = Offered(c)' - Len(q'[c]) + i
  BY TakeMoves
<1>4. Len(q[c]) \in Nat /\ Len(q[c]) <= Cap /\ Offered(c) \in Int
  BY <1>1, Queue
<1>5. TypeOK'
  <2>1. q' \in [Clients -> Seq(Items)] /\ at' \in [Clients -> Nat \cup {-1}]
    BY <1>1, <1>3 DEF TypeOK
  <2>2. Len(q'[c]) <= Cap
    BY <1>3, <1>4, CapAssumption
  <2>3. \A d \in Clients : Len(q'[d]) <= Cap
    BY <1>1, <1>2, <2>2 DEF TypeOK
  <2>4. status' \in [Clients -> {"out", "in", "done", "gone"}]
    BY <1>1 DEF TypeOK
  <2> QED  BY <1>1, <2>1, <2>3, <2>4 DEF TypeOK
<1>6. Phases'
  BY <1>1 DEF Phases
<1>7. ClientInv(c)'
  <2>1. Offered(c)' - Len(q'[c]) = at'[c]
    <3>1. \A o, l \in Int : o - (l - 1) = o - l + 1
      OBVIOUS
    <3>2. Offered(c) - (Len(q[c]) - 1) = Offered(c) - Len(q[c]) + 1
      BY <1>4, <3>1
    <3> QED  BY <1>3, <3>2
  <2>2. IsRun(c)' /\ Accounted(c)'
    BY <1>1, <1>3, <2>1 DEF ClientInv, IsRun, Accounted
  <2>3. ASSUME status'[c] = "in", stop # "no", c \notin todo
        PROVE  \E i \in 1..Len(q'[c]) : q'[c][i].kind = "eof"
    <3>1. Head(q[c]).kind # "eof"
      BY <1>1, <2>3 DEF TypeOK
    <3>2. PICK i \in 1..Len(q[c]) : q[c][i].kind = "eof"
      BY <1>1, <2>3 DEF ClientInv, Told
    <3>3. Head(q[c]) = q[c][1]
      BY <1>1, Queue, TailItem
    <3>4. i # 1
      BY <3>1, <3>2, <3>3
    <3>5. \A l \in Nat : \A j \in 1..l : j # 1 => j - 1 \in 1..l - 1 /\ j - 1 + 1 = j
      OBVIOUS
    <3>6. i - 1 \in 1..Len(q'[c]) /\ i - 1 + 1 = i
      BY <1>3, <1>4, <3>4, <3>5
    <3>7. q'[c][i - 1] = q[c][i]
      BY <1>3, <3>6
    <3> QED  BY <3>2, <3>6, <3>7
  <2>4. status'[c] \in {"in", "done"}
    BY <1>1 DEF TypeOK
  <2> QED  BY <1>1, <2>2, <2>3, <2>4 DEF ClientInv, Told
<1>8. ASSUME NEW d \in Clients, d # c PROVE ClientInv(d)'
  BY <1>1, <1>2, <1>8, Bystander DEF FanoutInv
<1> QED  BY <1>5, <1>6, <1>7, <1>8 DEF FanoutInv

LEMMA LeaveStep ==
    ASSUME FanoutInv, NEW c \in Clients, Leave(c)
    PROVE  FanoutInv'
<1>1. /\ TypeOK /\ Phases /\ ClientInv(c) /\ todo = {} /\ members' = members \ {c}
      /\ status' = [status EXCEPT ![c] = "gone"]
      /\ UNCHANGED <<head, kind, init, reader, stop, todo, evict, lagged, q, at>>
  BY DEF FanoutInv, Leave, Unlocked, published
<1>2. TypeOK' /\ Phases'
  BY <1>1 DEF TypeOK, Phases
<1>3. ClientInv(c)'
  <2>1. Offered(c)' = Offered(c) /\ status'[c] = "gone"
    BY <1>1, Unmoved DEF TypeOK
  <2> QED  BY <1>1, <2>1 DEF ClientInv, IsRun, Accounted, Told
<1>4. ASSUME NEW d \in Clients, d # c PROVE ClientInv(d)'
  <2>1. status'[d] = status[d]
    BY <1>1, <1>4 DEF TypeOK
  <2> QED  BY <1>1, <1>4, <2>1, Bystander DEF FanoutInv
<1> QED  BY <1>2, <1>3, <1>4 DEF FanoutInv

LEMMA ClearStep ==
    ASSUME FanoutInv, ShutdownClear
    PROVE  FanoutInv'
<1>1. /\ TypeOK /\ Phases /\ todo = {} /\ stop = "told" /\ stop' = "cleared" /\ members' = {}
      /\ UNCHANGED <<head, kind, init, reader, todo, evict, lagged, q, at, status>>
  BY DEF FanoutInv, ShutdownClear, Unlocked, clients
<1>2. TypeOK' /\ Phases'
  BY <1>1 DEF TypeOK, Phases
<1>3. ASSUME NEW d \in Clients PROVE ClientInv(d)'
  <2>1. ClientInv(d) /\ Offered(d)' = Offered(d)
    BY <1>1, Unmoved DEF FanoutInv
  <2> QED  BY <1>1, <2>1 DEF ClientInv, IsRun, Accounted, Told
<1> QED  BY <1>2, <1>3 DEF FanoutInv

LEMMA InvInit == Init => FanoutInv
<1> SUFFICES ASSUME Init PROVE FanoutInv
  OBVIOUS
<1>1. TypeOK /\ Phases
  <2>1. q \in [Clients -> Seq(Items)] /\ \A c \in Clients : Len(q[c]) = 0
    BY DEF Init
  <2>2. \A c \in Clients : Len(q[c]) <= Cap
    <3>1. 0 <= Cap
      BY CapAssumption
    <3> QED  BY <2>1, <3>1
  <2> QED  BY <2>1, <2>2 DEF Init, TypeOK, Phases, Kinds
<1>2. ASSUME NEW c \in Clients PROVE ClientInv(c)
  <2>1. q[c] = <<>> /\ at[c] = -1 /\ Len(q[c]) = 0 /\ Offered(c) = -1
    BY DEF Init, Offered
  <2> QED  BY <2>1 DEF Init, ClientInv, IsRun, Accounted, Told
<1> QED  BY <1>1, <1>2 DEF FanoutInv

LEMMA InvStep == FanoutInv /\ [Next]_vars => FanoutInv'
<1> SUFFICES ASSUME FanoutInv, [Next]_vars PROVE FanoutInv'
  OBVIOUS
<1>1. CASE UNCHANGED vars
  BY <1>1 DEF vars, published, fanning, clients, FanoutInv, TypeOK, Phases, ClientInv, IsRun,
              Accounted, Told, Offered
<1>2. CASE Next
  BY <1>2, CaptureStep, PublishStep, OfferStep, FullStep, EvictStep, JoinStep, TakeStep,
     LeaveStep, ClearStep
  DEF Next, Reader, Fanout, Shutdown, Client
<1> QED  BY <1>1, <1>2

LEMMA Inductive == Spec => []FanoutInv
  BY InvInit, InvStep, PTL DEF Spec

(* Every variable keeps its type; no queue exceeds its maxsize.            *)
THEOREM TypeCorrect == Spec => []TypeOK
<1>1. FanoutInv => TypeOK
  BY DEF FanoutInv
<1> QED  BY <1>1, Inductive, PTL

(* _fanout and get() keep every queue a run of consecutive items.          *)
THEOREM Runs == Spec => []QueuesAreRuns
<1>1. FanoutInv => QueuesAreRuns
  BY DEF FanoutInv, ClientInv, QueuesAreRuns
<1> QED  BY <1>1, Inductive, PTL

(* shutdown() lets go of nobody who is not told.                           *)
THEOREM Sentinel == Spec => []SentinelKept
<1>1. FanoutInv => SentinelKept
  BY DEF FanoutInv, ClientInv, SentinelKept, Told, TypeOK
<1> QED  BY <1>1, Inductive, PTL

(* Every step of the queues is a step of LossyFeed, or changes nothing of  *)
(* it.                                                                     *)
LEMMA Quiet ==
    ASSUME head' = head, at' = at, lagged' = lagged,
           \A c \in Clients : Offered(c)' = Offered(c)
    PROVE  UNCHANGED Feed!feed
  BY DEF Feed!feed

LEMMA RefineInit == Init => Feed!Init
<1> SUFFICES ASSUME Init PROVE Feed!Init
  OBVIOUS
<1>1. \A c \in Clients : Offered(c) = -1
  BY DEF Init, Offered
<1> QED  BY <1>1 DEF Init, Feed!Init

LEMMA RefineStep == FanoutInv /\ [Next]_vars => [Feed!Next]_Feed!feed
<1> DEFINE off == [c \in Clients |-> Offered(c)]
<1> SUFFICES ASSUME FanoutInv, [Next]_vars PROVE Feed!Next \/ UNCHANGED Feed!feed
  OBVIOUS
<1>1. TypeOK /\ Phases /\ \A c \in Clients : ClientInv(c)
  BY DEF FanoutInv
<1>2. CASE UNCHANGED vars
  BY <1>2, Quiet, Unmoved DEF vars, published, fanning, clients
<1>3. CASE FanoutCluster \/ FlushTail \/ ReaderEof \/ ShutdownEof
  <2>1. head' = head + 1 /\ UNCHANGED <<q, at, lagged>>
    BY <1>3 DEF FanoutCluster, FlushTail, ReaderEof, ShutdownEof, ReaderPublishes, Publish,
                clients
  <2>2. \A c \in Clients : Offered(c)' = Offered(c)
    BY <2>1, Unmoved
  <2>3. off' = [c \in Clients |-> IF c \in {} THEN head + 1 ELSE off[c]]
    BY <2>2
  <2>4. {} \in SUBSET {c \in Clients : off[c] = head}
    OBVIOUS
  <2> HIDE DEF off
  <2>5. \E now \in SUBSET {c \in Clients : off[c] = head} :
            off' = [c \in Clients |-> IF c \in now THEN head + 1 ELSE off[c]]
    BY <2>3, <2>4
  <2> USE DEF off
  <2>6. Feed!Publish
    BY <2>1, <2>5 DEF Feed!Publish
  <2> QED  BY <2>6 DEF Feed!Next
<1>4. CASE CaptureInit
  <2>1. head' = head + 1 /\ UNCHANGED <<at, lagged>>
    BY <1>4 DEF CaptureInit, fanning, clients
  <2>2. ASSUME NEW c \in members PROVE Offered(c) = head /\ Offered(c)' = head + 1
    <3>1. c \in Clients
      BY <1>1 DEF TypeOK
    <3>2. /\ Offered(c) = head /\ at'[c] = at[c] /\ head = -1
          /\ q'[c] = Append(q[c], [n |-> head + 1, kind |-> "init"])
      BY <1>4, <3>1, CaptureMoves
    <3>3. [n |-> head + 1, kind |-> "init"] \in Items
      BY <3>2 DEF Items, Kinds
    <3> QED  BY <3>1, <3>2, <3>3, PutMoves DEF Follows
  <2>3. ASSUME NEW c \in Clients, c \notin members PROVE Offered(c)' = Offered(c)
    BY <1>4, <2>3, CaptureMoves, Unmoved
  <2>4. members \subseteq {c \in Clients : off[c] = head}
    BY <1>1, <2>2 DEF TypeOK
  <2>5. off' = [c \in Clients |-> IF c \in members THEN head + 1 ELSE off[c]]
    BY <2>2, <2>3
  <2>6. Feed!Publish
    BY <2>1, <2>4, <2>5 DEF Feed!Publish
  <2> QED  BY <2>6 DEF Feed!Next
<1>5. ASSUME NEW c \in Clients, Offer(c) \/ EvictOldest(c) PROVE Feed!Offer(c)
  <2>1. /\ head' = head /\ UNCHANGED <<at, lagged>> /\ head \in Nat /\ c \in todo
        /\ Offered(c) = head - 1
        /\ \A d \in Clients : d # c => q'[d] = q[d]
    <3>1. /\ head' = head /\ UNCHANGED <<at, lagged>>
          /\ \A d \in Clients : d # c => q'[d] = q[d]
      BY <1>1, <1>5 DEF Offer, EvictOldest, published, clients, TypeOK
    <3>2. c \in todo
      BY <1>1, <1>5, NoneAssumption DEF Offer, EvictOldest, TypeOK
    <3>3. head \in Nat /\ Offered(c) = head - 1
      BY <1>1, <3>2 DEF Phases, TypeOK, ClientInv, IsRun
    <3> QED  BY <3>1, <3>2, <3>3
  <2>2. Offered(c)' = head
    <3>1. CASE Offer(c)
      <4>1. Item \in Items /\ Item.n = head /\ q'[c] = Append(q[c], Item)
        BY <1>1, <2>1, <3>1 DEF Item, Items, TypeOK, Offer
      <4>2. Item.n = Offered(c) + 1 /\ at'[c] = at[c]
        BY <2>1, <4>1
      <4>3. Offered(c)' = Offered(c) + 1
        BY <4>1, <4>2, PutMoves DEF Follows
      <4> QED  BY <4>1, <4>2, <4>3
    <3>2. CASE EvictOldest(c)
      BY <2>1, <3>2, EvictMoves
    <3> QED  BY <1>5, <3>1, <3>2
  <2>3. \A d \in Clients : d # c => Offered(d)' = Offered(d)
    BY <2>1, Unmoved
  <2>4. head - 1 < head /\ head - 1 + 1 = head
    BY <2>1
  <2>5. off[c] = head - 1
    BY <2>1
  <2>6. off' = [off EXCEPT ![c] = head]
    BY <2>2, <2>3
  <2>7. off[c] < head /\ off' = [off EXCEPT ![c] = off[c] + 1]
    BY <2>4, <2>5, <2>6
  <2> QED  BY <2>1, <2>7 DEF Feed!Offer
<1>6. ASSUME NEW c \in Clients, FindFull(c) PROVE Feed!Lag(c)
  <2>1. /\ head' = head /\ UNCHANGED <<at, q>> /\ lagged' = lagged \cup {c}
        /\ Len(q[c]) >= Cap
    BY <1>6 DEF FindFull, published, clients
  <2>2. off' = off
    BY <2>1, Unmoved
  <2>3. Offered(c) - at[c] >= Cap
    <3>1. Offered(c) - Len(q[c]) >= at[c]
      BY <1>1 DEF ClientInv, IsRun
    <3>2. Offered(c) \in Int /\ Len(q[c]) \in Int /\ at[c] \in Int /\ Cap \in Int
      BY <1>1, Queue, CapAssumption
    <3>3. \A o, l, a, k \in Int : o - l >= a /\ l >= k => o - a >= k
      OBVIOUS
    <3> QED  BY <2>1, <3>1, <3>2, <3>3
  <2> QED  BY <2>1, <2>2, <2>3 DEF Feed!Lag
<1>7. ASSUME NEW c \in Clients, Join(c) PROVE Feed!Join(c)
  <2>1. /\ head' = head /\ lagged' = lagged
        /\ \A d \in Clients : d # c => q'[d] = q[d] /\ at'[d] = at[d]
    BY <1>1, <1>7 DEF Join, published, TypeOK
  <2>2. \A d \in Clients : d # c => Offered(d)' = Offered(d)
    BY <2>1, Unmoved
  <2>3. /\ Offered(c)' = head
        /\ \E before \in {head - 1, head} : at' = [at EXCEPT ![c] = before]
    <3>1. CASE init
      <4>1. /\ q'[c] = <<[n |-> head, kind |-> "init"]>>
            /\ at' = [at EXCEPT ![c] = head - 1]
        BY <1>1, <1>7, <3>1 DEF Join, TypeOK
      <4>2. Offered(c)' = head
        <5>1. \A x : <<x>> # <<>> /\ Len(<<x>>) = 1 /\ <<x>>[1] = x
          OBVIOUS
        <5> QED  BY <4>1, <5>1 DEF Offered
      <4> QED  BY <4>1, <4>2
    <3>2. CASE ~init
      <4>1. q'[c] = <<>> /\ at' = [at EXCEPT ![c] = head]
        BY <1>1, <1>7, <3>2 DEF Join, TypeOK
      <4>2. Offered(c)' = at'[c] /\ at'[c] = head
        BY <1>1, <4>1 DEF Offered, TypeOK
      <4> QED  BY <4>1, <4>2
    <3> QED  BY <3>1, <3>2
  <2>4. off' = [off EXCEPT ![c] = head]
    BY <2>2, <2>3
  <2> QED  BY <2>1, <2>3, <2>4 DEF Feed!Join
<1>8. ASSUME NEW c \in Clients, Take(c) PROVE Feed!Take(c)
  <2>1. /\ head' = head /\ lagged' = lagged /\ q[c] # <<>>
        /\ at' = [at EXCEPT ![c] = Head(q[c]).n]
        /\ \A d \in Clients : d # c => q'[d] = q[d] /\ at'[d] = at[d]
    BY <1>1, <1>8 DEF Take, published, fanning, TypeOK
  <2>2. /\ Offered(c)' = Offered(c) /\ Len(q[c]) >= 1
        /\ at'[c] = Offered(c) - Len(q[c]) + 1 /\ at'[c] \in Nat
    BY <1>8, TakeMoves
  <2>3. off' = off
    BY <2>1, <2>2, Unmoved
  <2>4. at'[c] = Head(q[c]).n
    BY <1>1, <2>1 DEF TypeOK
  <2>5. Offered(c) \in Int /\ Len(q[c]) \in Int /\ at[c] \in Int
    BY <1>1, Queue
  <2>6. Offered(c) - Len(q[c]) >= at[c] /\ (c \notin lagged => Offered(c) - Len(q[c]) = at[c])
    BY <1>1 DEF ClientInv, IsRun, Accounted
  <2>7. \A o, l, a \in Int : o - l >= a /\ l >= 1 =>
            a < o /\ o - l + 1 \in a + 1 .. o /\ (o - l = a => o - l + 1 = a + 1)
    OBVIOUS
  <2>8. /\ at[c] < Offered(c) /\ at'[c] \in at[c] + 1 .. Offered(c)
        /\ c \notin lagged => at'[c] = at[c] + 1
    BY <2>2, <2>5, <2>6, <2>7
  <2>9. off[c] = Offered(c)
    OBVIOUS
  <2> QED  BY <2>1, <2>3, <2>4, <2>8, <2>9 DEF Feed!Take
<1>9. ASSUME (\E c \in Clients : Leave(c)) \/ ShutdownClear PROVE UNCHANGED Feed!feed
  <2>1. head' = head /\ at' = at /\ lagged' = lagged /\ q' = q
    BY <1>9 DEF Leave, ShutdownClear, published, clients
  <2> QED  BY <2>1, Quiet, Unmoved
<1> QED  BY <1>2, <1>3, <1>4, <1>5, <1>6, <1>7, <1>8, <1>9
         DEF Next, Reader, Fanout, Shutdown, Client, Feed!Next

(* The queues of a broadcast keep the promise made to a client: the items  *)
(* in order, none twice, and none missing while its drop counter is zero.  *)
THEOREM FanoutImplementsFeed == Spec => FeedSpec
  BY RefineInit, RefineStep, Inductive, PTL DEF Spec, FeedSpec, Feed!Spec

(* What the run checks of the queues.                                      *)
THEOREM Queues == Spec => []QueuesExact
BY Runs, Sentinel, PTL DEF QueuesExact

-----------------------------------------------------------------------------
(***************************************************************************)
(* PcmFeed.  Who reads or writes is the owner, and the owner has not       *)
(* closed.  Until a send is cut short, what a connection holds is a number *)
(* of frames: it starts with one, goes on as it started, and ends with one.*)
(***************************************************************************)
Whole(u) ==
    /\ \A i \in 1..Len(u) : u[i] = IF i <= FrameLen THEN i ELSE u[i - FrameLen]
    /\ u # <<>> => /\ Len(u) >= FrameLen
                   /\ \A j \in 1..FrameLen : u[Len(u) - FrameLen + j] = j

Ownership ==
    /\ \A k \in Conns : handler[k] \in {"reading", "writing"} => owner = k
    /\ owner # NoConn => handler[owner] \in {"reading", "writing", "closing"}

EndsOpen == \A k \in Conns :
    /\ Held(k) => handler[k] # "free"
    /\ handler[k] \in {"free", "closed"} => wire[k] = <<>> /\ frameBuf[k] = <<>>

Untorn == \A k \in Conns \ torn :
    /\ Whole(wire[k]) /\ Whole(frameBuf[k])
    /\ handler[k] = "writing" => written \in {<<>>, Frame}

PcmInv == PcmTypeOK /\ Ownership /\ EndsOpen /\ Untorn

(* Sequences of units, as send() and the handler put them together.        *)
LEMMA FrameFacts ==
    /\ Frame \in Seq(1..FrameLen) /\ Len(Frame) = FrameLen /\ Frame # <<>> /\ Whole(Frame)
    /\ \A j \in 1..FrameLen : Frame[j] = j
<1>1. Frame \in Seq(1..FrameLen) /\ Len(Frame) = FrameLen
    BY UnitsAssumption DEF Frame
<1>2. \A j \in 1..FrameLen : Frame[j] = j
    BY DEF Frame
<1> QED BY <1>1, <1>2, UnitsAssumption DEF Whole

LEMMA Empty ==
    ASSUME NEW u \in Seq(1..FrameLen)
    PROVE  Len(u) \in Nat /\ (u = <<>> <=> Len(u) = 0)
OBVIOUS

LEMMA Concat ==
    ASSUME NEW u \in Seq(1..FrameLen), NEW w \in Seq(1..FrameLen)
    PROVE  /\ u \o w \in Seq(1..FrameLen) /\ Len(u \o w) = Len(u) + Len(w)
           /\ \A i \in 1..Len(u) : (u \o w)[i] = u[i]
           /\ \A i \in 1..Len(w) : (u \o w)[Len(u) + i] = w[i]
OBVIOUS

LEMMA Without ==
    ASSUME NEW u \in Seq(1..FrameLen), Len(u) >= FrameLen
    PROVE  /\ SubSeq(u, FrameLen + 1, Len(u)) \in Seq(1..FrameLen)
           /\ Len(SubSeq(u, FrameLen + 1, Len(u))) = Len(u) - FrameLen
           /\ \A i \in 1..(Len(u) - FrameLen) :
                 SubSeq(u, FrameLen + 1, Len(u))[i] = u[FrameLen + i]
           /\ SubSeq(u, 1, FrameLen) \in Seq(1..FrameLen)
           /\ Len(SubSeq(u, 1, FrameLen)) = FrameLen
           /\ \A i \in 1..FrameLen : SubSeq(u, 1, FrameLen)[i] = u[i]
BY UnitsAssumption

(* Frames behind frames are frames.                                        *)
LEMMA WholeConcat ==
    ASSUME NEW u \in Seq(1..FrameLen), NEW w \in Seq(1..FrameLen), Whole(u), Whole(w)
    PROVE  Whole(u \o w)
<1> DEFINE c == u \o w
<1>1. /\ c \in Seq(1..FrameLen) /\ Len(c) = Len(u) + Len(w)
      /\ \A i \in 1..Len(u) : c[i] = u[i]
      /\ \A i \in 1..Len(w) : c[Len(u) + i] = w[i]
    BY Concat
<1>2. /\ Len(u) \in Nat /\ Len(w) \in Nat
      /\ (u = <<>> <=> Len(u) = 0) /\ (w = <<>> <=> Len(w) = 0) /\ (c = <<>> <=> Len(c) = 0)
    BY <1>1, Empty
<1> HIDE DEF c
<1>3. ASSUME NEW i \in 1..Len(c)
      PROVE  c[i] = IF i <= FrameLen THEN i ELSE c[i - FrameLen]
    <2>1. CASE i <= Len(u)
        <3>1. i \in 1..Len(u) /\ (i > FrameLen => i - FrameLen \in 1..Len(u))
            BY <2>1, <1>1, <1>2, UnitsAssumption
        <3>2. u[i] = IF i <= FrameLen THEN i ELSE u[i - FrameLen]
            BY <3>1 DEF Whole
        <3>3. c[i] = u[i] /\ (i > FrameLen => c[i - FrameLen] = u[i - FrameLen])
            BY <3>1, <1>1
        <3> QED BY <3>2, <3>3, UnitsAssumption
    <2>2. CASE i > Len(u)
        <3> DEFINE m == i - Len(u)
        <3>1. m \in 1..Len(w) /\ i = Len(u) + m
            BY <2>2, <1>1, <1>2
        <3> HIDE DEF m
        <3>2. c[i] = w[m] /\ w[m] = IF m <= FrameLen THEN m ELSE w[m - FrameLen]
            BY <3>1, <1>1 DEF Whole
        <3>3. CASE u = <<>>
            <4>1. i = m /\ (m > FrameLen => m - FrameLen \in 1..Len(w))
                BY <3>1, <3>3, <1>2, UnitsAssumption
            <4>2. m > FrameLen => c[Len(u) + (m - FrameLen)] = w[m - FrameLen]
                BY <4>1, <1>1
            <4> QED BY <3>1, <3>2, <3>3, <4>1, <4>2, <1>2, UnitsAssumption
        <3>4. CASE u # <<>> /\ m > FrameLen
            <4>1. m - FrameLen \in 1..Len(w) /\ i - FrameLen = Len(u) + (m - FrameLen)
                BY <3>1, <3>4, <1>2, UnitsAssumption
            <4>2. c[i - FrameLen] = w[m - FrameLen]
                BY <4>1, <1>1
            <4>3. ~(i <= FrameLen) /\ ~(m <= FrameLen)
                BY <3>1, <3>4, <1>2, UnitsAssumption
            <4> QED BY <3>2, <4>2, <4>3
        <3>5. CASE u # <<>> /\ m <= FrameLen
            <4>1. Len(u) >= FrameLen /\ m \in 1..FrameLen
                BY <3>1, <3>5, <1>2, UnitsAssumption DEF Whole
            <4>2. u[Len(u) - FrameLen + m] = m
                BY <3>5, <4>1 DEF Whole
            <4>3. /\ i > FrameLen /\ i - FrameLen = Len(u) - FrameLen + m
                  /\ Len(u) - FrameLen + m \in 1..Len(u)
                BY <3>1, <3>5, <4>1, <1>2, UnitsAssumption
            <4>4. c[i - FrameLen] = m
                BY <4>2, <4>3, <1>1
            <4> QED BY <3>2, <4>1, <4>3, <4>4, UnitsAssumption
        <3>6. m > FrameLen \/ m <= FrameLen
            BY <3>1, UnitsAssumption
        <3> QED BY <3>3, <3>4, <3>5, <3>6
    <2> QED BY <2>1, <2>2, <1>2
<1>4. ASSUME c # <<>>
      PROVE  Len(c) >= FrameLen /\ \A j \in 1..FrameLen : c[Len(c) - FrameLen + j] = j
    <2>1. CASE w = <<>>
        <3>1. Len(c) = Len(u) /\ u # <<>>
            BY <2>1, <1>1, <1>2, <1>4
        <3>2. Len(u) >= FrameLen /\ \A j \in 1..FrameLen : u[Len(u) - FrameLen + j] = j
            BY <3>1 DEF Whole
        <3>3. \A j \in 1..FrameLen : Len(u) - FrameLen + j \in 1..Len(u)
            BY <3>2, <1>2, UnitsAssumption
        <3> QED BY <3>1, <3>2, <3>3, <1>1
    <2>2. CASE w # <<>>
        <3>1. Len(w) >= FrameLen /\ \A j \in 1..FrameLen : w[Len(w) - FrameLen + j] = j
            BY <2>2 DEF Whole
        <3>2. ASSUME NEW j \in 1..FrameLen PROVE c[Len(c) - FrameLen + j] = j
            <4>1. /\ Len(w) - FrameLen + j \in 1..Len(w)
                  /\ Len(c) - FrameLen + j = Len(u) + (Len(w) - FrameLen + j)
                BY <3>1, <1>1, <1>2, UnitsAssumption
            <4>2. c[Len(u) + (Len(w) - FrameLen + j)] = w[Len(w) - FrameLen + j]
                BY <4>1, <1>1
            <4> QED BY <3>1, <4>1, <4>2
        <3>3. Len(c) >= FrameLen
            BY <3>1, <1>1, <1>2, UnitsAssumption
        <3> QED BY <3>2, <3>3
    <2> QED BY <2>1, <2>2
<1> QED BY <1>3, <1>4 DEF Whole, c

(* The first of some frames is a frame, and the rest are frames.           *)
LEMMA WholeRest ==
    ASSUME NEW u \in Seq(1..FrameLen), Whole(u), Len(u) >= FrameLen
    PROVE  /\ Whole(SubSeq(u, FrameLen + 1, Len(u)))
           /\ SubSeq(u, 1, FrameLen) = Frame
<1> DEFINE rest == SubSeq(u, FrameLen + 1, Len(u))
<1>1. /\ rest \in Seq(1..FrameLen) /\ Len(rest) = Len(u) - FrameLen
      /\ \A i \in 1..(Len(u) - FrameLen) : rest[i] = u[FrameLen + i]
    BY Without
<1>2. Len(u) \in Nat /\ (rest = <<>> <=> Len(rest) = 0)
    BY <1>1, Empty
<1> HIDE DEF rest
<1>3. \A i \in 1..(Len(u) - FrameLen) : u[FrameLen + i] = u[i]
    BY <1>2, UnitsAssumption DEF Whole
<1>4. \A i \in 1..Len(rest) : rest[i] = u[i]
    BY <1>1, <1>3
<1>5. \A i \in 1..Len(rest) : rest[i] = IF i <= FrameLen THEN i ELSE rest[i - FrameLen]
    <2> SUFFICES ASSUME NEW i \in 1..Len(rest)
                 PROVE  rest[i] = IF i <= FrameLen THEN i ELSE rest[i - FrameLen]
        OBVIOUS
    <2>1. i \in 1..Len(u) /\ (i > FrameLen => i - FrameLen \in 1..Len(rest))
        BY <1>1, <1>2, UnitsAssumption
    <2>2. u[i] = IF i <= FrameLen THEN i ELSE u[i - FrameLen]
        BY <2>1 DEF Whole
    <2> QED BY <2>1, <2>2, <1>4, UnitsAssumption
<1>6. ASSUME rest # <<>>
      PROVE  Len(rest) >= FrameLen /\ \A j \in 1..FrameLen : rest[Len(rest) - FrameLen + j] = j
    <2>1. Len(rest) \in Nat \ {0} /\ u # <<>>
        BY <1>1, <1>2, <1>6, UnitsAssumption
    <2>2. u[Len(u)] = FrameLen
        <3>1. u[Len(u) - FrameLen + FrameLen] = FrameLen
            BY <2>1, UnitsAssumption DEF Whole
        <3> QED BY <3>1, <1>2, UnitsAssumption
    <2>3. u[Len(u)] = u[Len(rest)]
        <3>1. Len(rest) \in 1..(Len(u) - FrameLen) /\ FrameLen + Len(rest) = Len(u)
            BY <1>1, <1>2, <2>1, UnitsAssumption
        <3> QED BY <3>1, <1>3
    <2>4. Len(rest) <= FrameLen => u[Len(rest)] = Len(rest)
        <3>1. Len(rest) \in 1..Len(u)
            BY <1>1, <1>2, <2>1, UnitsAssumption
        <3> QED BY <3>1 DEF Whole
    <2>5. Len(rest) >= FrameLen
        BY <2>1, <2>2, <2>3, <2>4, UnitsAssumption
    <2>6. ASSUME NEW j \in 1..FrameLen PROVE rest[Len(rest) - FrameLen + j] = j
        <3>1. Len(rest) - FrameLen + j \in 1..Len(rest)
            BY <2>1, <2>5, UnitsAssumption
        <3>2. rest[Len(rest) - FrameLen + j] = u[FrameLen + (Len(rest) - FrameLen + j)]
            BY <3>1, <1>1
        <3>3. FrameLen + (Len(rest) - FrameLen + j) = Len(u) - FrameLen + j
            BY <1>1, <1>2, <2>1, UnitsAssumption
        <3> QED BY <3>2, <3>3, <2>1 DEF Whole
    <2> QED BY <2>5, <2>6
<1>7. SubSeq(u, 1, FrameLen) = Frame
    <2>1. /\ SubSeq(u, 1, FrameLen) \in Seq(1..FrameLen) /\ Len(SubSeq(u, 1, FrameLen)) = FrameLen
          /\ \A i \in 1..FrameLen : SubSeq(u, 1, FrameLen)[i] = u[i]
        BY Without
    <2>2. ASSUME NEW i \in 1..FrameLen PROVE u[i] = i
        <3>1. i \in 1..Len(u) /\ i <= FrameLen
            BY <1>2, UnitsAssumption
        <3> QED BY <3>1 DEF Whole
    <2> QED BY <2>1, <2>2, FrameFacts
<1> QED BY <1>5, <1>6, <1>7 DEF Whole, rest

LEMMA WholeEmpty == Whole(<<>>) /\ <<>> \in Seq(1..FrameLen) /\ Len(<<>>) = 0
BY DEF Whole

LEMMA InitPcmInv == PcmInit => PcmInv
<1> SUFFICES ASSUME PcmInit PROVE PcmInv
    OBVIOUS
<1>1. PcmTypeOK
    <2>1. \A k \in Conns : wire[k] = <<>>
        BY DEF PcmInit
    <2>2. 0 <= BufLen
        BY UnitsAssumption
    <2>3. \A k \in Conns : Len(wire[k]) <= BufLen
        BY <2>1, <2>2, WholeEmpty
    <2>4. wire \in [Conns -> Seq(1..FrameLen)] /\ frameBuf \in [Conns -> Seq(1..FrameLen)]
        BY WholeEmpty DEF PcmInit
    <2> QED BY <2>3, <2>4, WholeEmpty DEF PcmInit, PcmTypeOK
<1>2. Ownership /\ EndsOpen
    BY NoConnAssumption DEF PcmInit, Ownership, EndsOpen, Held
<1>3. Untorn
    BY WholeEmpty DEF PcmInit, Untorn
<1> QED BY <1>1, <1>2, <1>3 DEF PcmInv

LEMMA NextPcmInv == PcmInv /\ [PcmNext]_pcmVars => PcmInv'
<1> SUFFICES ASSUME PcmInv, [PcmNext]_pcmVars PROVE PcmInv'
    OBVIOUS
<1> USE UnitsAssumption, NoConnAssumption DEF PcmInv, PcmTypeOK, Ownership, EndsOpen, Untorn
<1>1. ASSUME NEW s \in Senders, StartSender(s) PROVE PcmInv'
    BY <1>1 DEF StartSender, receiver, Held
<1>2. ASSUME NEW s \in Senders, StopSender(s) PROVE PcmInv'
    BY <1>2 DEF StopSender, CloseSock, receiver, Held
<1>3. ASSUME NEW s \in Senders, Connect(s) PROVE PcmInv'
    BY <1>3 DEF Connect, Become, Held
<1>4. ASSUME NEW s \in Senders, Send(s) PROVE PcmInv'
    <2> DEFINE k == sock[s]
               x == IF Space(k) >= FrameLen THEN Frame ELSE SubSeq(Frame, 1, Space(k))
    <2>1. k \in Conns /\ Held(k) /\ wire[k] \in Seq(1..FrameLen) /\ Space(k) \in Nat
        BY <1>4 DEF Send, Held, Space
    <2>2. x \in Seq(1..FrameLen) /\ Len(wire[k]) + Len(x) <= BufLen
        <3>1. CASE Space(k) >= FrameLen
            BY <2>1, <3>1, FrameFacts DEF Space
        <3>2. CASE Space(k) < FrameLen
            <4>1. SubSeq(Frame, 1, Space(k)) \in Seq(1..FrameLen)
                BY <2>1, <3>2, FrameFacts
            <4>2. Len(SubSeq(Frame, 1, Space(k))) = Space(k)
                BY <2>1, <3>2, FrameFacts
            <4>3. x = SubSeq(Frame, 1, Space(k))
                BY <2>1, <3>2
            <4>4. Len(wire[k]) + Space(k) <= BufLen
                BY <2>1 DEF Space
            <4> HIDE DEF x
            <4> QED BY <4>1, <4>2, <4>3, <4>4
        <3> QED BY <2>1, <3>1, <3>2
    <2>3. wire' = [wire EXCEPT ![k] = wire[k] \o x]
        <3>1. CASE Space(k) >= FrameLen
            BY <1>4, <2>1, <3>1, SMTT(20) DEF Send
        <3>2. CASE ~(Space(k) >= FrameLen)
            BY <1>4, <2>1, <3>2, SMTT(20) DEF Send
        <3> QED BY <3>1, <3>2
    <2>4. torn \subseteq torn' /\ torn' \subseteq Conns /\ (k \notin torn' => x = Frame)
        BY <1>4, <2>1 DEF Send
    <2> HIDE DEF x
    <2>5. /\ wire' \in [Conns -> Seq(1..FrameLen)]
          /\ \A j \in Conns : Len(wire'[j]) <= BufLen
          /\ \A j \in Conns \ {k} : wire'[j] = wire[j]
        BY <2>1, <2>2, <2>3, Concat
    <2>6. k \notin torn' => Whole(wire'[k])
        BY <2>1, <2>3, <2>4, WholeConcat, FrameFacts
    <2>7. /\ handler[k] \notin {"free", "closed"}
          /\ UNCHANGED <<running, sock, handler, frameBuf, owner, encoder, written>>
        BY <1>4, <2>1 DEF Send, receiver
    <2> HIDE DEF k
    <2> QED BY <2>1, <2>4, <2>5, <2>6, <2>7 DEF Held
<1>5. ASSUME NEW s \in Senders, SendFails(s) PROVE PcmInv'
    BY <1>5 DEF SendFails, CloseSock, receiver, Held
<1>6. ASSUME NEW k \in Conns, Claim(k) PROVE PcmInv'
    <2>1. \/ owner = NoConn /\ owner' = k /\ handler' = [handler EXCEPT ![k] = "reading"]
          \/ owner # NoConn /\ owner' = owner /\ handler' = [handler EXCEPT ![k] = "closing"]
        BY <1>6 DEF Claim, Become
    <2>2. handler[k] = "accepted" /\ UNCHANGED <<running, sock, wire, torn, frameBuf, encoder, written>>
        BY <1>6 DEF Claim
    <2>3. PcmTypeOK' /\ Ownership'
        BY <2>1, <2>2
    <2> QED BY <2>1, <2>2, <2>3 DEF Held
<1>7. ASSUME NEW k \in Conns, Receive(k) PROVE PcmInv'
    <2>1. wire[k] \in Seq(1..FrameLen) /\ frameBuf[k] \in Seq(1..FrameLen)
        OBVIOUS
    <2>2. frameBuf[k] \o wire[k] \in Seq(1..FrameLen)
        BY <2>1, Concat
    <2>3. k \notin torn => Whole(frameBuf[k] \o wire[k])
        BY <2>1, WholeConcat
    <2>4. /\ frameBuf' = [frameBuf EXCEPT ![k] = frameBuf[k] \o wire[k]]
          /\ wire' = [wire EXCEPT ![k] = <<>>] /\ handler[k] = "reading"
          /\ UNCHANGED <<running, sock, torn, handler, owner, encoder, written>>
        BY <1>7 DEF Receive
    <2>5. PcmTypeOK' /\ Ownership' /\ EndsOpen'
        BY <2>2, <2>4, WholeEmpty DEF Held
    <2>6. Untorn'
        BY <2>2, <2>3, <2>4, WholeEmpty
    <2> QED BY <2>5, <2>6
<1>8. ASSUME NEW k \in Conns, EndOfStream(k) PROVE PcmInv'
    BY <1>8 DEF EndOfStream, Become, Held
<1>9. ASSUME NEW k \in Conns, FeedFrame(k) PROVE PcmInv'
    <2> DEFINE rest == SubSeq(frameBuf[k], FrameLen + 1, Len(frameBuf[k]))
               fed == SubSeq(frameBuf[k], 1, FrameLen)
    <2>1. frameBuf[k] \in Seq(1..FrameLen) /\ Len(frameBuf[k]) >= FrameLen
        BY <1>9 DEF FeedFrame
    <2>2. rest \in Seq(1..FrameLen) /\ fed \in Seq(1..FrameLen)
        BY <2>1, Without
    <2>3. k \notin torn => Whole(rest) /\ fed = Frame
        BY <2>1, WholeRest
    <2>4. /\ frameBuf' = [frameBuf EXCEPT ![k] = rest]
          /\ written' = IF encoder THEN fed ELSE written
          /\ handler' = [handler EXCEPT ![k] = IF encoder THEN "writing" ELSE "reading"]
          /\ handler[k] = "reading" /\ UNCHANGED <<running, sock, wire, torn, owner, encoder>>
        BY <1>9 DEF FeedFrame, Become
    <2> HIDE DEF rest, fed
    <2>5. PcmTypeOK' /\ Ownership' /\ EndsOpen'
        BY <2>2, <2>4 DEF Held
    <2>6. Untorn'
        BY <2>2, <2>3, <2>4
    <2> QED BY <2>5, <2>6
<1>10. ASSUME NEW k \in Conns, Written(k) PROVE PcmInv'
    BY <1>10 DEF Written, Become, Held
<1>11. ASSUME NEW k \in Conns, Finish(k) PROVE PcmInv'
    BY <1>11, WholeEmpty DEF Finish, Become, Held
<1>12. ASSUME NEW k \in Conns, Recycle(k) PROVE PcmInv'
    BY <1>12, WholeEmpty DEF Recycle, Become, Held
<1>13. CASE ToggleEncoder
    BY <1>13 DEF ToggleEncoder, Held
<1>14. CASE UNCHANGED pcmVars
    BY <1>14 DEF pcmVars, Held
<1> HIDE DEF PcmInv
<1> QED
    BY <1>1, <1>2, <1>3, <1>4, <1>5, <1>6, <1>7, <1>8, <1>9, <1>10, <1>11, <1>12,
       <1>13, <1>14
       DEF PcmNext, Sender, Handler

LEMMA PcmInvariance == PcmSpec => []PcmInv
BY InitPcmInv, NextPcmInv, PTL DEF PcmSpec

(* Types of the feed's state.                                              *)
THEOREM PcmTypes == PcmSpec => []PcmTypeOK
BY PcmInvariance, PTL DEF PcmInv

(* One connection at a time feeds the encoder, the claim is never left     *)
(* with a closed one, and what it feeds is frames.                         *)
THEOREM OneSenderFeeds == PcmSpec => []OneFeeder
<1>1. PcmInv => OneFeeder
    <2> SUFFICES ASSUME PcmInv PROVE OneFeeder
        OBVIOUS
    <2>1. Feeding = {} \/ Feeding = {owner}
        BY DEF PcmInv, Ownership, Feeding
    <2>2. Cardinality(Feeding) <= 1
        <3>1. CASE Feeding = {} BY <3>1, FS_EmptySet
        <3>2. CASE Feeding = {owner} BY <3>2, FS_Singleton
        <3> QED BY <2>1, <3>1, <3>2
    <2> QED BY <2>2 DEF PcmInv, Ownership, Untorn, OneFeeder, OneOwner, FramesWhole
<1> QED BY <1>1, PcmInvariance, PTL

-----------------------------------------------------------------------------
(***************************************************************************)
(* WebmParser.  Values, Find and VintLen are defined by recursion or as    *)
(* least elements: what they are, for all lengths, follows from Least.     *)
(* Where a unit ends depends on its own bytes only (UnitEndPrefix), so it  *)
(* makes no difference how much was read when it was cut; and the end of   *)
(* the next Cluster is where the next unit ends (NextCluster, NextUnit).   *)
(***************************************************************************)
(* Every set of naturals that is not empty has a least element.            *)
LEMMA Least ==
    ASSUME NEW T, T \subseteq Nat, T # {} PROVE \E x \in T : \A y \in T : x <= y
<1> DEFINE R == {ss \in Nat \X Nat : ss[1] < ss[2]}
<1>1. IsWellFoundedOn(R, Nat)
  BY NatLessThanWellFounded DEF OpToRel
<1> HIDE DEF R
<1>2. PICK x \in T : \A y \in T : ~ (<<y, x>> \in R)
  BY <1>1, WFMin
<1>3. ASSUME NEW y \in T PROVE x <= y
  <2>1. x \in Nat /\ y \in Nat
    OBVIOUS
  <2>2. y < x => <<y, x>> \in R
    BY <2>1 DEF R
  <2> QED BY <1>2, <2>1, <2>2
<1> QED BY <1>3

(* The recursion that defines the values of digits has a solution.         *)
Solves(f, base, d, n) == f = [i \in 0..n |-> IF i = 0 THEN d[0] ELSE f[i - 1] * base + d[i]]

LEMMA ValuesExist ==
    ASSUME NEW base, NEW d, NEW n \in Nat PROVE \E f : Solves(f, base, d, n)
<1> USE DEF Solves
<1> DEFINE Is(f, m) == Solves(f, base, d, m)
           T == {m \in Nat : ~ \E f : Is(f, m)}
<1> SUFFICES ASSUME n \in T PROVE FALSE
  OBVIOUS
<1>1. PICK m \in T : \A k \in T : m <= k
  BY Least
<1>2. m # 0
  <2>1. Is([i \in 0..0 |-> d[0]], 0)
    OBVIOUS
  <2> QED BY <2>1
<1>3. m - 1 \in Nat /\ m - 1 \notin T
  <2>1. m \in Nat
    OBVIOUS
  <2> HIDE DEF T
  <2>2. m - 1 \in Nat /\ ~(m <= m - 1)
    BY <1>2, <2>1
  <2> QED BY <1>1, <2>2
<1>4. PICK f : Is(f, m - 1)
  BY <1>3
<1> DEFINE g == [i \in 0..m |-> IF i = m THEN f[m - 1] * base + d[m] ELSE f[i]]
<1>5. \A i \in 0..m : g[i] = IF i = 0 THEN d[0] ELSE g[i - 1] * base + d[i]
  <2> TAKE i \in 0..m
  <2>1. CASE i = m
    BY <1>2, <2>1
  <2>2. CASE i # m
    <3>1. i \in 0..m - 1 /\ g[i] = f[i] /\ (i # 0 => g[i - 1] = f[i - 1])
      BY <2>2
    <3>2. f[i] = IF i = 0 THEN d[0] ELSE f[i - 1] * base + d[i]
      BY <1>4, <3>1
    <3> QED BY <3>1, <3>2
  <2> QED BY <2>1, <2>2
<1>6. Is(g, m)
  BY <1>5
<1> QED BY <1>6

LEMMA ValuesAre ==
    ASSUME NEW base \in Nat, NEW n \in Nat, NEW d, \A i \in 0..n : d[i] \in Nat
    PROVE  /\ Values(base, d, n) \in [0..n -> Nat]
           /\ Values(base, d, n)[0] = d[0]
           /\ \A i \in 1..n : Values(base, d, n)[i] = Values(base, d, n)[i - 1] * base + d[i]
<1> DEFINE v == Values(base, d, n)
           T == {i \in 0..n : v[i] \notin Nat}
<1>1. v = [i \in 0..n |-> IF i = 0 THEN d[0] ELSE v[i - 1] * base + d[i]]
  <2>1. \E f : Solves(f, base, d, n)
    BY ValuesExist
  <2>2. v = CHOOSE f : Solves(f, base, d, n)
    BY DEF Values, Solves
  <2>3. Solves(v, base, d, n)
    BY <2>1, <2>2, Zenon
  <2> QED BY <2>3 DEF Solves
<1> HIDE DEF v
<1>2. T = {}
  <2> SUFFICES ASSUME T # {} PROVE FALSE
    OBVIOUS
  <2>0. T \subseteq Nat
    OBVIOUS
  <2>1. PICK m \in T : \A k \in T : m <= k
    BY <2>0, Least
  <2>2. CASE m = 0
    BY <1>1, <2>2
  <2>3. CASE m # 0
    <3>1. m - 1 \in 0..n /\ m - 1 \notin T
      BY <2>1, <2>3
    <3>2. v[m - 1] \in Nat /\ v[m] = v[m - 1] * base + d[m]
      BY <1>1, <2>3, <3>1
    <3>3. d[m] \in Nat
      OBVIOUS
    <3>4. v[m - 1] * base \in Nat
      BY <3>2
    <3> QED BY <3>2, <3>3, <3>4
  <2> QED BY <2>2, <2>3
<1>3. \A i \in 1..n : v[i] = v[i - 1] * base + d[i]
  <2> TAKE i \in 1..n
  <2>1. i \in 0..n /\ i # 0
    OBVIOUS
  <2> QED BY <1>1, <2>1
<1>4. v[0] = d[0] /\ \A i \in 0..n : v[i] \in Nat
  <2>1. 0 \in 0..n
    OBVIOUS
  <2>2. v[0] = d[0]
    BY <1>1, <2>1
  <2> QED BY <1>2, <2>2
<1>5. v \in [0..n -> Nat]
  <2>1. DOMAIN v = 0..n /\ v = [i \in DOMAIN v |-> v[i]]
    BY <1>1, Zenon
  <2> QED BY <1>4, <2>1, Zenon
<1> QED BY <1>3, <1>4, <1>5 DEF v

(* The same digits have the same values.                                   *)
LEMMA ValuesAgree ==
    ASSUME NEW base \in Nat, NEW n \in Nat, NEW m \in 0..n, NEW d, NEW e,
           \A i \in 0..m : d[i] \in Nat /\ d[i] = e[i], \A i \in 0..n : e[i] \in Nat
    PROVE  \A i \in 0..m : Values(base, d, m)[i] = Values(base, e, n)[i]
<1> DEFINE v == Values(base, d, m)
           u == Values(base, e, n)
           T == {i \in 0..m : v[i] # u[i]}
<1>1. /\ v[0] = d[0] /\ \A i \in 1..m : v[i] = v[i - 1] * base + d[i]
      /\ u[0] = e[0] /\ \A i \in 1..n : u[i] = u[i - 1] * base + e[i]
  BY ValuesAre
<1> HIDE DEF v, u
<1> SUFFICES ASSUME T # {} PROVE FALSE
  BY DEF v, u
<1>2. T \subseteq Nat
  OBVIOUS
<1>3. PICK k \in T : \A j \in T : k <= j
  BY <1>2, Least
<1>4. k # 0
  BY <1>1
<1>5. k - 1 \in 0..m /\ k - 1 \notin T /\ k \in 1..m /\ k \in 1..n
  BY <1>3, <1>4
<1>6. v[k] = v[k - 1] * base + d[k] /\ u[k] = u[k - 1] * base + e[k]
  BY <1>1, <1>5
<1>7. v[k - 1] = u[k - 1] /\ d[k] = e[k]
  BY <1>5
<1> QED BY <1>6, <1>7

LEMMA Shifts == ASSUME NEW n \in Nat PROVE Shifted(n) \in Nat \ {0}
<1> DEFINE d == [i \in 0..n |-> IF i = 0 THEN 1 ELSE 0]
<1>1. d[0] = 1 /\ \A i \in 0..n : d[i] \in Nat
  OBVIOUS
<1>2. Shifted(n) = Values(2, d, n)[n]
  BY DEF Shifted
<1> HIDE DEF d
<1> DEFINE v == Values(2, d, n)
           T == {i \in 0..n : v[i] = 0}
<1>3. /\ v \in [0..n -> Nat] /\ v[0] = d[0]
      /\ \A i \in 1..n : v[i] = v[i - 1] * 2 + d[i]
  BY <1>1, ValuesAre
<1>4. Shifted(n) = v[n] /\ n \in 0..n
  BY <1>2
<1> HIDE DEF v
<1>5. T = {}
  <2> SUFFICES ASSUME T # {} PROVE FALSE
    OBVIOUS
  <2>0. T \subseteq Nat
    OBVIOUS
  <2>1. PICK m \in T : \A k \in T : m <= k
    BY <2>0, Least
  <2>2. m # 0
    BY <1>1, <1>3
  <2>3. m - 1 \in 0..n /\ m - 1 \notin T /\ m \in 1..n
    BY <2>1, <2>2
  <2>4. v[m] = v[m - 1] * 2 + d[m] /\ v[m - 1] \in Nat \ {0} /\ d[m] \in Nat
    BY <1>1, <1>3, <2>3
  <2> QED BY <2>4
<1> QED BY <1>3, <1>4, <1>5

(***************************************************************************)
(* Where a unit ends can be told from its beginning.                       *)
(***************************************************************************)
Prefix(s, t) == /\ s \in Seq(Byte) /\ t \in Seq(Byte) /\ Len(s) <= Len(t)
                /\ \A i \in 1..Len(s) : s[i] = t[i]

LEMMA Ids == IdLen \in Nat \ {0} /\ ClusterID \in Seq(Byte) /\ W \in Nat \ {0}
BY CutterAssumption DEF IdLen

LEMMA IdPoints ==
    ASSUME NEW s \in Seq(Byte), NEW i \in Nat
    PROVE  IdAt(s, i) <=> /\ i + IdLen <= Len(s)
                          /\ \A k \in 1..IdLen : s[i + k] = ClusterID[k]
<1> SUFFICES ASSUME i + IdLen <= Len(s)
             PROVE  SubSeq(s, i + 1, i + IdLen) = ClusterID
                    <=> \A k \in 1..IdLen : s[i + k] = ClusterID[k]
  BY DEF IdAt
<1> DEFINE u == SubSeq(s, i + 1, i + IdLen)
<1>1. /\ IdLen \in Nat /\ Len(s) \in Nat /\ ClusterID \in Seq(Byte) /\ Len(ClusterID) = IdLen
  BY Ids DEF IdLen
<1>2. u \in Seq(Byte) /\ Len(u) = IdLen /\ \A k \in 1..IdLen : u[k] = s[i + k]
  <2>1. \A j \in i + 1..i + IdLen : s[j] \in Byte
    BY <1>1
  <2>2. (i + IdLen) - (i + 1) + 1 = IdLen /\ \A k \in 1..IdLen : i + 1 + k - 1 = i + k
    BY <1>1
  <2>3. i + 1 \in Int /\ i + IdLen \in Int /\ i + 1 <= i + IdLen
    BY Ids
  <2> QED BY <2>1, <2>2, <2>3, SubSeqProperties
<1> HIDE DEF u
<1>3. (\A k \in 1..IdLen : u[k] = ClusterID[k]) => u = ClusterID
  BY <1>1, <1>2, SeqEqual
<1> QED BY <1>2, <1>3 DEF u

LEMMA IdPrefix ==
    ASSUME NEW s, NEW t, Prefix(s, t), NEW i \in Nat, i + IdLen <= Len(s)
    PROVE  IdAt(s, i) <=> IdAt(t, i)
<1>1. s \in Seq(Byte) /\ t \in Seq(Byte) /\ Len(s) \in Nat /\ Len(t) \in Nat /\ i + IdLen <= Len(t)
  BY Ids DEF Prefix
<1>2. ASSUME NEW k \in 1..IdLen PROVE s[i + k] = t[i + k]
  <2>1. i + k \in 1..Len(s)
    BY Ids, <1>1
  <2> QED BY <2>1 DEF Prefix
<1> QED BY <1>1, <1>2, IdPoints

LEMMA Found ==
    ASSUME NEW s \in Seq(Byte), NEW b \in Nat
    PROVE  \/ Find(s, b) = -1 /\ \A i \in b..Len(s) - IdLen : ~IdAt(s, i)
           \/ /\ Find(s, b) \in b..Len(s) - IdLen /\ IdAt(s, Find(s, b))
              /\ \A i \in b..Find(s, b) - 1 : ~IdAt(s, i)
<1> DEFINE hits == {i \in b..Len(s) - IdLen : IdAt(s, i)}
<1>1. Find(s, b) = IF hits = {} THEN -1 ELSE CHOOSE i \in hits : \A j \in hits : i <= j
  BY DEF Find
<1>2. Len(s) \in Nat /\ IdLen \in Nat /\ hits \subseteq Nat
  BY Ids
<1>3. CASE hits = {}
  BY <1>1, <1>3
<1>4. CASE hits # {}
  <2>1. PICK i \in hits : \A j \in hits : i <= j
    BY <1>2, <1>4, Least
  <2>2. Find(s, b) \in hits /\ \A j \in hits : Find(s, b) <= j
    <3> HIDE DEF hits
    <3> QED BY <1>1, <1>4, <2>1
  <2>3. Find(s, b) \in b..Len(s) - IdLen /\ IdAt(s, Find(s, b))
    BY <2>2
  <2>4. ASSUME NEW j \in b..Find(s, b) - 1 PROVE ~IdAt(s, j)
    <3>1. j \in b..Len(s) - IdLen /\ ~(Find(s, b) <= j)
      BY <1>2, <2>3
    <3> QED BY <2>2, <3>1
  <2> QED BY <2>3, <2>4
<1> QED BY <1>3, <1>4

LEMMA FindPrefix ==
    ASSUME NEW s, NEW t, Prefix(s, t), NEW b \in Nat, Find(s, b) # -1
    PROVE  Find(t, b) = Find(s, b)
<1>1. s \in Seq(Byte) /\ t \in Seq(Byte) /\ Len(s) \in Nat /\ Len(t) \in Nat /\ Len(s) <= Len(t)
  BY DEF Prefix
<1> DEFINE f == Find(s, b)
           g == Find(t, b)
<1>2. f \in b..Len(s) - IdLen /\ IdAt(s, f) /\ \A i \in b..f - 1 : ~IdAt(s, i)
  BY <1>1, Found
<1>3. f \in b..Len(t) - IdLen /\ IdAt(t, f)
  BY <1>1, <1>2, Ids, IdPrefix
<1>4. g \in b..Len(t) - IdLen /\ IdAt(t, g) /\ \A i \in b..g - 1 : ~IdAt(t, i)
  BY <1>1, <1>3, Found
<1> HIDE DEF f, g
<1>5. ~(f < g)
  BY <1>1, <1>3, <1>4, Ids
<1>6. ~(g < f)
  <2> SUFFICES ASSUME g < f PROVE FALSE
    OBVIOUS
  <2>1. g \in b..f - 1 /\ g \in Nat /\ g + IdLen <= Len(s)
    BY <1>1, <1>2, <1>4, Ids
  <2> QED BY <1>2, <1>4, <2>1, IdPrefix
<1> QED BY <1>2, <1>4, <1>5, <1>6, Ids DEF f, g

LEMMA VintLens == ASSUME NEW b PROVE VintLen(b) \in 0..W
<1> DEFINE set == {n \in 1..W : Shifted(W - n) <= b}
<1>1. VintLen(b) = IF set = {} THEN 0 ELSE CHOOSE n \in set : \A m \in set : n <= m
  BY DEF VintLen
<1>2. CASE set = {}
  BY <1>1, <1>2, Ids
<1>3. CASE set # {}
  <2>1. set \subseteq Nat
    BY Ids
  <2>2. PICK n \in set : \A m \in set : n <= m
    BY <1>3, <2>1, Least
  <2> HIDE DEF set
  <2>3. VintLen(b) \in set
    BY <1>1, <1>3, <2>2
  <2> QED BY <2>3, Ids DEF set
<1> QED BY <1>2, <1>3

LEMMA DigitsAre ==
    ASSUME NEW s \in Seq(Byte), NEW n \in 1..W, IdLen + n <= Len(s)
    PROVE  \A i \in 0..n - 1 : Digits(s, n)[i] \in Nat
<1>1. Shifted(W - n) \in Nat \ {0} /\ Shifted(W) \in Nat
  <2>1. W - n \in Nat /\ W \in Nat
    BY Ids
  <2> QED BY <2>1, Shifts
<1>2. \A i \in 0..n - 1 : IdLen + 1 + i \in 1..Len(s)
  BY Ids
<1>3. \A i \in 0..n - 1 : s[IdLen + 1 + i] \in Nat
  <2> TAKE i \in 0..n - 1
  <2>1. s[IdLen + 1 + i] \in Byte
    BY <1>2
  <2> QED BY <1>1, <2>1 DEF Byte
<1>4. s[IdLen + 1] \in Nat
  <2>1. 0 \in 0..n - 1 /\ IdLen + 1 + 0 = IdLen + 1
    BY Ids
  <2> QED BY <1>3, <2>1
<1>5. s[IdLen + 1] % Shifted(W - n) \in Nat
  BY <1>1, <1>4
<1> QED BY <1>3, <1>5 DEF Digits

LEMMA VintValues ==
    ASSUME NEW s \in Seq(Byte), NEW n \in 1..W, IdLen + n <= Len(s)
    PROVE  VintValue(s, n) \in Nat
<1>1. VintValue(s, n) = Values(Shifted(W), Digits(s, n), n - 1)[n - 1]
  BY DEF VintValue
<1>2. W \in Nat /\ n - 1 \in Nat /\ n - 1 \in 0..n - 1
  BY Ids
<1>3. Shifted(W) \in Nat
  BY <1>2, Shifts
<1> QED BY <1>1, <1>2, <1>3, DigitsAre, ValuesAre

LEMMA VintPrefix ==
    ASSUME NEW s, NEW t, Prefix(s, t), NEW n \in 1..W, IdLen + n <= Len(s)
    PROVE  VintValue(s, n) = VintValue(t, n)
<1>1. \A i \in 0..n - 1 : IdLen + 1 + i \in 1..Len(s)
  BY Ids DEF Prefix
<1>2. \A i \in 0..n - 1 : s[IdLen + 1 + i] = t[IdLen + 1 + i]
  BY <1>1 DEF Prefix
<1>3. s[IdLen + 1] = t[IdLen + 1]
  <2>1. 0 \in 0..n - 1 /\ IdLen + 1 + 0 = IdLen + 1
    BY Ids
  <2> QED BY <1>2, <2>1
<1>4. Digits(s, n) = Digits(t, n)
  BY <1>2, <1>3 DEF Digits
<1> QED BY <1>4 DEF VintValue, Digits

LEMMA UnitEnds ==
    ASSUME NEW s \in Seq(Byte)
    PROVE  UnitEnd(s) = -1 \/ UnitEnd(s) \in 1..Len(s)
<1> DEFINE n == VintLen(s[IdLen + 1])
           v == VintValue(s, n)
<1>1. Len(s) \in Nat /\ n \in 0..W
  BY VintLens
<1>2. \A b \in Nat \ {0} : Find(s, b) = -1 \/ Find(s, b) \in 1..Len(s)
  BY <1>1, Ids, Found
<1>3. n # 0 /\ IdLen + n <= Len(s) => v \in Nat
  BY <1>1, VintValues, Ids
<1>4. UnitEnd(s) \in {-1, Find(s, 1), Find(s, IdLen)}
      \/ /\ n # 0 /\ IdLen + n <= Len(s) /\ ~(Len(s) < IdLen + n + v)
         /\ UnitEnd(s) = IdLen + n + v
  <2> HIDE DEF v
  <2>1. n # 0 /\ ~(Len(s) < IdLen + n) => IdLen + n <= Len(s)
    BY <1>1, Ids
  <2> QED BY <2>1 DEF UnitEnd, v
<1>5. CASE UnitEnd(s) \in {-1, Find(s, 1), Find(s, IdLen)}
  BY <1>2, <1>5, Ids
<1>6. CASE n # 0 /\ IdLen + n <= Len(s) /\ ~(Len(s) < IdLen + n + v) /\ UnitEnd(s) = IdLen + n + v
  <2> HIDE DEF n, v
  <2> QED BY <1>1, <1>3, <1>6, Ids
<1> QED BY <1>4, <1>5, <1>6

LEMMA UnitEndPrefix ==
    ASSUME NEW s, NEW t, Prefix(s, t), UnitEnd(s) # -1
    PROVE  UnitEnd(t) = UnitEnd(s)
<1> DEFINE n == VintLen(s[IdLen + 1])
           v == VintValue(s, n)
<1>1. s \in Seq(Byte) /\ t \in Seq(Byte) /\ Len(s) \in Nat /\ Len(t) \in Nat /\ Len(s) <= Len(t)
  BY DEF Prefix
<1>2. Len(s) >= IdLen + 1 /\ Len(t) >= IdLen + 1
  BY <1>1, Ids DEF UnitEnd
<1>3. IdAt(s, 0) <=> IdAt(t, 0)
  BY <1>1, <1>2, Ids, IdPrefix
<1>4. n \in 0..W /\ s[IdLen + 1] = t[IdLen + 1]
  BY <1>1, <1>2, Ids, VintLens DEF Prefix
<1>5. \A b \in Nat : Find(s, b) # -1 => Find(t, b) = Find(s, b)
  BY FindPrefix
<1>6. CASE ~IdAt(s, 0)
  <2>1. UnitEnd(s) = Find(s, 1) /\ UnitEnd(t) = Find(t, 1)
    BY <1>1, <1>2, <1>3, <1>6, Ids DEF UnitEnd
  <2> QED BY <1>5, <2>1
<1>7. CASE IdAt(s, 0) /\ n = 0
  <2>1. UnitEnd(s) = Find(s, IdLen) /\ UnitEnd(t) = Find(t, IdLen)
    BY <1>1, <1>2, <1>3, <1>4, <1>7, Ids DEF UnitEnd
  <2> QED BY <1>5, <2>1, Ids
<1>8. CASE IdAt(s, 0) /\ n # 0
  <2>1. UnitEnd(s) = IF Len(s) < IdLen + n THEN -1
                     ELSE IF AllOnes(v, n) THEN Find(s, IdLen)
                     ELSE IF Len(s) < IdLen + n + v THEN -1 ELSE IdLen + n + v
    BY <1>1, <1>2, <1>8, Ids DEF UnitEnd
  <2>2. IdLen + n <= Len(s) /\ IdLen + n <= Len(t) /\ n \in 1..W
    BY <1>1, <1>4, <1>8, <2>1, Ids
  <2>3. v \in Nat /\ VintValue(t, n) = v
    BY <1>1, <2>2, VintValues, VintPrefix
  <2>4. UnitEnd(t) = IF AllOnes(v, n) THEN Find(t, IdLen)
                     ELSE IF Len(t) < IdLen + n + v THEN -1 ELSE IdLen + n + v
    <3>1. VintLen(t[IdLen + 1]) = n
      BY <1>4
    <3>2. ~(Len(t) < IdLen + 1) /\ ~(Len(t) < IdLen + n) /\ IdAt(t, 0)
      BY <1>1, <1>2, <1>3, <1>8, <2>2, Ids
    <3> HIDE DEF n, v
    <3> QED BY <3>1, <3>2, <1>8, <2>3 DEF UnitEnd
  <2> HIDE DEF n, v
  <2>5. CASE AllOnes(v, n)
    BY <1>5, <2>1, <2>2, <2>4, <2>5, Ids
  <2>6. CASE ~AllOnes(v, n)
    BY <1>1, <2>1, <2>2, <2>3, <2>4, <2>6, Ids
  <2> QED BY <2>5, <2>6
<1> QED BY <1>6, <1>7, <1>8

(***************************************************************************)
(* What is cut off.                                                        *)
(***************************************************************************)
Segments == {<<>>} \cup {<<x>> : x \in Seq(Byte)}
CutterTypes ==
    /\ stream \in Streams /\ pos \in 0..Len(stream.bytes) /\ buf \in Seq(Byte)
    /\ segment \in Segments /\ items \in Seq(Seq(Byte)) /\ ended \in BOOLEAN
Ordered == End <= pos /\ \A i \in 0..Len(items) : Ends[i] <= End

(* The header was cut where it ends, and then every Cluster so far.        *)
ClustersCut ==
    ~ended /\ segment # <<>> /\ stream.ends # {} =>
       /\ WellFormed(stream.bytes, stream.ends, Ends[0])
       /\ End \in stream.ends \cup {Ends[0]}
       /\ {Ends[i] : i \in 1..Len(items)} = {e \in stream.ends : e <= End}

(* CutsExactly is not inductive: that the last cut is the end of a Cluster *)
(* has to be known at the steps where the drain goes on.                   *)
CutterInv == CutterTypes /\ Ordered /\ NothingLost /\ ChunkingIrrelevant /\ ClustersCut

LEMMA LensAre ==
    ASSUME NEW seg \in Segments, NEW its \in Seq(Seq(Byte))
    PROVE  /\ Len(its) \in Nat /\ \A i \in 0..Len(its) : Lens(seg, its)[i] \in Nat
           /\ Lens(seg, its)[0] = IF seg = <<>> THEN 0 ELSE Len(seg[1])
           /\ \A i \in 1..Len(its) : Lens(seg, its)[i] = Len(its[i])
<1>1. Len(its) \in Nat /\ \A i \in 1..Len(its) : its[i] \in Seq(Byte)
  OBVIOUS
<1>2. (IF seg = <<>> THEN 0 ELSE Len(seg[1])) \in Nat
  BY DEF Segments
<1>3. Lens(seg, its)[0] = IF seg = <<>> THEN 0 ELSE Len(seg[1])
  BY <1>1 DEF Lens
<1>4. ASSUME NEW i \in 1..Len(its) PROVE Lens(seg, its)[i] = Len(its[i]) /\ Lens(seg, its)[i] \in Nat
  <2>1. i \in 0..Len(its) /\ i > 0
    BY <1>1
  <2> QED BY <1>1, <2>1 DEF Lens
<1>5. ASSUME NEW i \in 0..Len(its) PROVE Lens(seg, its)[i] \in Nat
  <2>1. i = 0 \/ i \in 1..Len(its)
    BY <1>1
  <2> QED BY <1>2, <1>3, <1>4, <2>1
<1> QED BY <1>1, <1>3, <1>4, <1>5

LEMMA EndsAre ==
    ASSUME NEW seg \in Segments, NEW its \in Seq(Seq(Byte))
    PROVE  /\ \A i \in 0..Len(its) : EndsOf(seg, its)[i] \in Nat
           /\ Len(its) \in Nat
           /\ EndsOf(seg, its)[0] = IF seg = <<>> THEN 0 ELSE Len(seg[1])
           /\ \A i \in 1..Len(its) : EndsOf(seg, its)[i] = EndsOf(seg, its)[i - 1] + Len(its[i])
<1> DEFINE v == EndsOf(seg, its)
<1>1. v = Values(1, Lens(seg, its), Len(its))
  BY DEF EndsOf
<1> HIDE DEF v
<1>2. /\ v \in [0..Len(its) -> Nat] /\ v[0] = Lens(seg, its)[0]
      /\ \A i \in 1..Len(its) : v[i] = v[i - 1] * 1 + Lens(seg, its)[i]
  <2> DEFINE d == Lens(seg, its)
             n == Len(its)
  <2>1. 1 \in Nat /\ n \in Nat /\ v = Values(1, d, n) /\ \A i \in 0..n : d[i] \in Nat
    BY <1>1, LensAre
  <2> HIDE DEF d, n
  <2>2. v \in [0..n -> Nat] /\ v[0] = d[0] /\ \A i \in 1..n : v[i] = v[i - 1] * 1 + d[i]
    BY <2>1, ValuesAre
  <2> QED BY <2>2 DEF d, n
<1>4. ASSUME NEW i \in 1..Len(its) PROVE v[i] = v[i - 1] + Len(its[i])
  <2>1. i - 1 \in 0..Len(its)
    BY LensAre
  <2>2. v[i - 1] \in Nat
    BY <1>2, <2>1
  <2> QED BY <1>2, <2>2, LensAre
<1> QED BY <1>2, <1>4, LensAre DEF v

(* What is cut off next is counted after what was.                         *)
LEMMA EndsAppend ==
    ASSUME NEW seg \in Segments, NEW its \in Seq(Seq(Byte)), NEW u \in Seq(Byte),
           NEW new, new = Append(its, u)
    PROVE  /\ new \in Seq(Seq(Byte)) /\ Len(new) = Len(its) + 1 /\ new[Len(new)] = u
           /\ \A i \in 1..Len(its) : new[i] = its[i]
           /\ EndsOf(seg, new)[Len(new)] = EndsOf(seg, its)[Len(its)] + Len(u)
           /\ \A i \in 0..Len(its) : EndsOf(seg, new)[i] = EndsOf(seg, its)[i]
<1> DEFINE n == Len(its)
<1>1. /\ n \in Nat /\ new \in Seq(Seq(Byte)) /\ Len(new) = n + 1 /\ new[n + 1] = u
      /\ \A i \in 1..n : new[i] = its[i]
  OBVIOUS
<1> DEFINE d == Lens(seg, its)
           e == Lens(seg, new)
<1>2. EndsOf(seg, its) = Values(1, d, n) /\ EndsOf(seg, new) = Values(1, e, n + 1)
  BY <1>1 DEF EndsOf
<1>3. \A i \in 0..n + 1 : e[i] \in Nat
  BY <1>1, LensAre
<1>4. ASSUME NEW i \in 0..n PROVE d[i] \in Nat /\ d[i] = e[i]
  <2>1. d[i] \in Nat
    BY LensAre
  <2>2. CASE i = 0
    BY <1>1, <2>1, <2>2, LensAre
  <2>3. CASE i \in 1..n
    <3>1. i \in 1..Len(new)
      BY <1>1, <2>3
    <3>2. d[i] = Len(its[i]) /\ e[i] = Len(new[i])
      BY <1>1, <2>3, <3>1, LensAre
    <3> QED BY <1>1, <2>1, <2>3, <3>2
  <2> QED BY <1>1, <2>2, <2>3
<1>5. \A i \in 0..n : EndsOf(seg, its)[i] = EndsOf(seg, new)[i]
  <2>1. n + 1 \in Nat /\ n \in 0..n + 1 /\ 1 \in Nat
    BY <1>1
  <2>2. n \in Nat
    BY <1>1
  <2> HIDE DEF n, d, e
  <2> QED BY <1>2, <1>3, <1>4, <2>1, <2>2, ValuesAgree
<1>6. EndsOf(seg, new)[n + 1] = EndsOf(seg, its)[n] + Len(u)
  <2>1. n + 1 \in 1..Len(new) /\ n \in 0..n /\ (n + 1) - 1 = n
    BY <1>1
  <2>2. EndsOf(seg, new)[n + 1] = EndsOf(seg, new)[(n + 1) - 1] + Len(new[n + 1])
    BY <1>1, <2>1, EndsAre
  <2> QED BY <1>1, <1>5, <2>1, <2>2
<1> QED BY <1>1, <1>5, <1>6

(* The part of a stream from l to p.                                       *)
Part(b, l, p) == SubSeq(b, l + 1, p)

LEMMA Parts ==
    ASSUME NEW b \in Seq(Byte), NEW p \in 0..Len(b), NEW l \in 0..p
    PROVE  /\ Part(b, l, p) \in Seq(Byte) /\ Len(Part(b, l, p)) = p - l
           /\ \A k \in 1..p - l : Part(b, l, p)[k] = b[l + k]
<1>1. Len(b) \in Nat /\ \A i \in l + 1..p : b[i] \in Byte
  BY ElementOfSeq
<1>2. /\ l + 1 \in Int /\ p \in Int /\ p - (l + 1) + 1 = p - l
      /\ \A k \in 1..p - l : l + 1 + k - 1 = l + k
      /\ ~(l + 1 <= p) => p - l = 0
  BY <1>1
<1> QED BY <1>1, <1>2, SubSeqProperties DEF Part

LEMMA PartsPrefix ==
    ASSUME NEW b \in Seq(Byte), NEW r \in 0..Len(b), NEW p \in 0..r, NEW l \in 0..p
    PROVE  Prefix(Part(b, l, p), Part(b, l, r))
<1>1. p \in 0..Len(b) /\ l \in 0..r /\ Len(b) \in Nat
  OBVIOUS
<1>2. p - l <= r - l /\ \A k \in 1..p - l : k \in 1..r - l
  OBVIOUS
<1>3. /\ Part(b, l, p) \in Seq(Byte) /\ Len(Part(b, l, p)) = p - l
      /\ \A k \in 1..p - l : Part(b, l, p)[k] = b[l + k]
  BY <1>1, Parts
<1>4. /\ Part(b, l, r) \in Seq(Byte) /\ Len(Part(b, l, r)) = r - l
      /\ \A k \in 1..r - l : Part(b, l, r)[k] = b[l + k]
  BY <1>1, Parts
<1> QED BY <1>2, <1>3, <1>4 DEF Prefix

LEMMA PartsOfPart ==
    ASSUME NEW b \in Seq(Byte), NEW p \in 0..Len(b), NEW l \in 0..p, NEW k \in 0..p - l
    PROVE  /\ UpTo(Part(b, l, p), k) = Part(b, l, l + k)
           /\ From(Part(b, l, p), k) = Part(b, l + k, p)
<1>1. Len(b) \in Nat /\ l + k \in 0..Len(b) /\ l \in 0..l + k /\ l + k \in 0..p
  OBVIOUS
<1> DEFINE s == Part(b, l, p)
<1>2. s \in Seq(Byte) /\ Len(s) = p - l /\ \A i \in 1..p - l : s[i] = b[l + i]
  BY Parts
<1> HIDE DEF s
<1>3. k \in 0..Len(s) /\ Len(s) \in 0..Len(s) /\ 0 \in 0..k
  BY <1>1, <1>2
<1>4. UpTo(s, k) = Part(b, l, l + k)
  <2>1. /\ Part(s, 0, k) \in Seq(Byte) /\ Len(Part(s, 0, k)) = k
        /\ \A i \in 1..k : Part(s, 0, k)[i] = s[i]
    <3>1. /\ Part(s, 0, k) \in Seq(Byte) /\ Len(Part(s, 0, k)) = k - 0
          /\ \A i \in 1..k - 0 : Part(s, 0, k)[i] = s[0 + i]
      BY <1>2, <1>3, Parts
    <3>2. k - 0 = k /\ \A i \in 1..k : 0 + i = i
      OBVIOUS
    <3> QED BY <3>1, <3>2
  <2>2. /\ Part(b, l, l + k) \in Seq(Byte) /\ Len(Part(b, l, l + k)) = k
        /\ \A i \in 1..k : Part(b, l, l + k)[i] = b[l + i]
    <3>1. (l + k) - l = k
      OBVIOUS
    <3> QED BY <1>1, <3>1, Parts
  <2>3. \A i \in 1..k : i \in 1..p - l
    OBVIOUS
  <2>4. Part(s, 0, k) = Part(b, l, l + k)
    BY <1>2, <2>1, <2>2, <2>3, SeqEqual
  <2> QED BY <2>4 DEF UpTo, Part
<1>5. From(s, k) = Part(b, l + k, p)
  <2>1. /\ Part(s, k, Len(s)) \in Seq(Byte) /\ Len(Part(s, k, Len(s))) = Len(s) - k
        /\ \A i \in 1..Len(s) - k : Part(s, k, Len(s))[i] = s[k + i]
    BY <1>2, <1>3, Parts
  <2>2. /\ Part(b, l + k, p) \in Seq(Byte) /\ Len(Part(b, l + k, p)) = p - (l + k)
        /\ \A i \in 1..p - (l + k) : Part(b, l + k, p)[i] = b[l + k + i]
    BY <1>1, Parts
  <2>3. /\ Len(s) - k = p - (l + k)
        /\ \A i \in 1..p - (l + k) : k + i \in 1..p - l /\ l + (k + i) = l + k + i
    BY <1>2
  <2>4. \A i \in 1..Len(s) - k : Part(s, k, Len(s))[i] = Part(b, l + k, p)[i]
    BY <1>2, <2>1, <2>2, <2>3
  <2>5. Part(s, k, Len(s)) = Part(b, l + k, p)
    BY <2>1, <2>2, <2>3, <2>4, SeqEqual
  <2> QED BY <2>5 DEF From, Part
<1> QED BY <1>4, <1>5 DEF s

LEMMA PartsJoined ==
    ASSUME NEW b \in Seq(Byte), NEW r \in 0..Len(b), NEW p \in 0..r, NEW l \in 0..p
    PROVE  Part(b, l, p) \o Part(b, p, r) = Part(b, l, r)
<1>1. l + 1 \in 1..Len(b) + 1 /\ p \in (l + 1) - 1..Len(b) /\ r \in p..Len(b)
  OBVIOUS
<1> QED BY <1>1, ConcatAdjacentSubSeq DEF Part

(* A Cluster that is all there is a unit.                                  *)
LEMMA ClusterIsUnit ==
    ASSUME NEW b \in Seq(Byte), NEW e \in 0..Len(b), NEW s \in 0..e, Cluster(b, s, e)
    PROVE  UnitEnd(Part(b, s, e)) = e - s
<1> DEFINE t == Part(b, s, e)
           n == VintLen(b[s + IdLen + 1])
           v == VintValue(From(b, s), n)
<1>1. /\ IdAt(b, s) /\ s + IdLen < e /\ n # 0 /\ s + IdLen + n <= e
      /\ e = s + IdLen + n + v /\ ~AllOnes(v, n)
  BY DEF Cluster
<1>2. Len(b) \in Nat /\ e \in Nat /\ s \in Nat /\ n \in 1..W /\ s \in 0..Len(b)
  BY <1>1, VintLens, Ids
<1>3. /\ t \in Seq(Byte) /\ Len(t) = e - s /\ \A k \in 1..e - s : t[k] = b[s + k]
  BY Parts
<1>4. From(b, s) = Part(b, s, Len(b)) /\ Prefix(t, Part(b, s, Len(b)))
  BY <1>2, PartsPrefix DEF From, Part
<1> HIDE DEF t
<1>5. IdLen + n <= Len(t) /\ ~(Len(t) < IdLen + 1) /\ ~(Len(t) < IdLen + n)
  BY <1>1, <1>2, <1>3, Ids
<1>6. v = VintValue(t, n) /\ v \in Nat
  BY <1>2, <1>3, <1>4, <1>5, VintPrefix, VintValues
<1>7. IdAt(t, 0)
  <2>1. ASSUME NEW k \in 1..IdLen PROVE t[0 + k] = ClusterID[k]
    <3>1. b[s + k] = ClusterID[k]
      BY <1>1, <1>2, IdPoints
    <3>2. k \in 1..e - s /\ 0 + k = k
      BY <1>1, <1>2, Ids
    <3> QED BY <1>3, <3>1, <3>2
  <2>2. 0 + IdLen <= Len(t)
    BY <1>5, <1>2, <1>3, Ids
  <2> QED BY <1>3, <2>1, <2>2, IdPoints
<1>8. VintLen(t[IdLen + 1]) = n
  <2>1. IdLen + 1 \in 1..e - s /\ s + (IdLen + 1) = s + IdLen + 1
    BY <1>1, <1>2, Ids
  <2> QED BY <1>3, <2>1
<1> HIDE DEF n, v
<1>9. UnitEnd(t) = IF Len(t) < IdLen + n + v THEN -1 ELSE IdLen + n + v
  BY <1>1, <1>5, <1>6, <1>7, <1>8 DEF UnitEnd
<1>10. IdLen + n + v = e - s
  BY <1>1, <1>2, <1>6, Ids
<1> QED BY <1>2, <1>3, <1>9, <1>10 DEF t

(* In a well-formed stream the next Cluster begins where the last one ends.*)
LEMMA NextCluster ==
    ASSUME NEW b \in Seq(Byte), NEW ends, NEW h \in Nat, WellFormed(b, ends, h),
           NEW l \in ends \cup {h}, NEW x \in ends, l < x
    PROVE  \E e \in ends : l < e /\ e <= x /\ Cluster(b, l, e) /\ \A y \in ends : l < y => e <= y
<1>1. Len(b) \in Nat /\ ends \subseteq h + 1..Len(b) /\ l \in Nat
  BY DEF WellFormed
<1> DEFINE T == {e \in ends : l < e}
<1>2. T \subseteq Nat /\ T # {}
  <2>1. ends \subseteq Nat
    BY <1>1
  <2>2. x \in T
    OBVIOUS
  <2> QED BY <2>1, <2>2
<1>3. PICK e \in T : \A y \in T : e <= y
  BY <1>2, Least
<1>4. PICK s \in ends \cup {h} : Cluster(b, s, e) /\ s + 1..e - 1 \cap ends = {}
  BY <1>3 DEF WellFormed
<1>5. s < e /\ s \in Nat /\ e \in Nat
  <2>1. s \in Nat /\ e \in Nat
    BY <1>1, <1>2
  <2> QED BY <1>4, <2>1, Ids DEF Cluster
<1>6. ~(l < s)
  <2> SUFFICES ASSUME l < s PROVE FALSE
    OBVIOUS
  <2>1. s # h
    BY <1>1
  <2>2. s \in T
    BY <2>1
  <2> QED BY <1>3, <1>5, <2>2
<1>7. ~(s < l)
  <2> SUFFICES ASSUME s < l PROVE FALSE
    OBVIOUS
  <2>1. l # h
    BY <1>1, <1>5
  <2>2. l \in s + 1..e - 1 /\ l \in ends
    BY <1>1, <1>3, <1>5, <2>1
  <2> QED BY <1>4, <2>2
<1>8. s = l
  BY <1>1, <1>5, <1>6, <1>7
<1>9. e <= x /\ l < e /\ e \in ends /\ \A y \in ends : l < y => e <= y
  BY <1>3
<1> QED BY <1>4, <1>8, <1>9

(* ... and is cut where it ends: a unit that can be told, from the end of  *)
(* the last Cluster, is the next one; one that is there can be told.       *)
LEMMA NextUnit ==
    ASSUME NEW b \in Seq(Byte), NEW p \in 0..Len(b), NEW l \in 0..p, NEW e \in l + 1..Len(b),
           Cluster(b, l, e)
    PROVE  /\ UnitEnd(Part(b, l, p)) # -1 => UnitEnd(Part(b, l, p)) = e - l
           /\ e <= p => UnitEnd(Part(b, l, p)) # -1
<1> DEFINE t == Part(b, l, p)
           u == Part(b, l, e)
<1>1. Len(b) \in Nat /\ e \in 0..Len(b) /\ l \in 0..e /\ e \in Nat /\ l \in Nat /\ p \in Nat
  OBVIOUS
<1>2. UnitEnd(u) = e - l
  BY <1>1, ClusterIsUnit
<1>3. t \in Seq(Byte) /\ Len(t) = p - l
  BY Parts
<1>4. CASE e <= p
  <2>1. e \in 0..p
    BY <1>1, <1>4
  <2>2. Prefix(u, t)
    BY <1>1, <2>1, PartsPrefix
  <2>3. UnitEnd(u) # -1
    BY <1>1, <1>2
  <2>4. UnitEnd(t) = UnitEnd(u)
    BY <2>2, <2>3, UnitEndPrefix
  <2> QED BY <1>2, <2>3, <2>4
<1>5. CASE p < e
  <2>1. p \in 0..e
    BY <1>1, <1>5
  <2>2. Prefix(t, u)
    BY <1>1, <2>1, PartsPrefix
  <2>3. UnitEnd(t) # -1 => UnitEnd(u) = UnitEnd(t) /\ UnitEnd(t) \in 1..Len(t)
    BY <1>3, <2>2, UnitEndPrefix, UnitEnds
  <2>4. UnitEnd(t) = -1
    <3> HIDE DEF t, u
    <3> QED BY <1>1, <1>2, <1>3, <1>5, <2>3
  <2>5. ~(e <= p)
    BY <1>1, <1>5
  <2> QED BY <2>4, <2>5
<1> QED BY <1>1, <1>4, <1>5

(***************************************************************************)
(* Every step of the reader keeps what was cut.                            *)
(***************************************************************************)
LEMMA Now ==
    ASSUME CutterInv
    PROVE  /\ stream.bytes \in Seq(Byte) /\ Len(stream.bytes) \in Nat /\ pos \in 0..Len(stream.bytes)
           /\ Len(items) \in Nat /\ End \in 0..pos /\ buf = Part(stream.bytes, End, pos)
           /\ Len(buf) = pos - End
           /\ \A i \in 0..Len(items) : Ends[i] \in 0..End
           /\ Ends[0] = IF segment = <<>> THEN 0 ELSE Len(segment[1])
           /\ segment = <<>> /\ ~ended => End = 0 /\ items = <<>>
<1>1. /\ stream.bytes \in Seq(Byte) /\ Len(stream.bytes) \in Nat /\ pos \in 0..Len(stream.bytes)
      /\ segment \in Segments /\ items \in Seq(Seq(Byte))
  BY CutterAssumption DEF CutterInv, CutterTypes
<1>2. /\ \A i \in 0..Len(items) : Ends[i] \in Nat
      /\ Len(items) \in Nat /\ Ends[0] = IF segment = <<>> THEN 0 ELSE Len(segment[1])
  BY <1>1, EndsAre DEF Ends
<1>3. /\ End \in 0..pos /\ \A i \in 0..Len(items) : Ends[i] \in 0..End
  <2>1. Len(items) \in 0..Len(items)
    BY <1>2
  <2>2. End \in Nat /\ End <= pos /\ \A i \in 0..Len(items) : Ends[i] <= End
    BY <1>2, <2>1 DEF End, CutterInv, Ordered
  <2> QED BY <1>1, <1>2, <2>2
<1>4. buf = Part(stream.bytes, End, pos)
  BY DEF CutterInv, NothingLost, Part
<1>5. Len(buf) = pos - End
  BY <1>1, <1>3, <1>4, Parts
<1>6. segment = <<>> /\ ~ended => End = 0 /\ items = <<>>
  <2> SUFFICES ASSUME segment = <<>>, ~ended PROVE End = 0 /\ items = <<>>
    OBVIOUS
  <2>1. items = <<>> /\ Len(items) = 0
    BY DEF CutterInv, ChunkingIrrelevant
  <2> QED BY <1>2, <2>1 DEF End
<1> QED BY <1>1, <1>2, <1>3, <1>4, <1>5, <1>6

LEMMA FirstInv == CutterInit => CutterInv
<1> SUFFICES ASSUME CutterInit PROVE CutterInv
  OBVIOUS
<1>1. CutterTypes
  <2>1. stream \in Streams /\ pos = 0 /\ buf = <<>> /\ segment = <<>> /\ items = <<>> /\ ended = FALSE
    BY DEF CutterInit
  <2>2. Len(stream.bytes) \in Nat
    BY <2>1, CutterAssumption
  <2>3. pos \in 0..Len(stream.bytes)
    BY <2>1, <2>2
  <2>5. segment \in Segments
    BY <2>1, Zenon DEF Segments
  <2>4. <<>> \in Seq(Byte) /\ <<>> \in Seq(Seq(Byte))
    OBVIOUS
  <2> QED BY <2>1, <2>3, <2>4, <2>5 DEF CutterTypes
<1>2. Len(items) = 0 /\ items = <<>> /\ segment = <<>> /\ Ends[0] = 0 /\ End = 0
  <2>1. segment \in Segments /\ items \in Seq(Seq(Byte)) /\ items = <<>> /\ segment = <<>>
    BY <1>1 DEF CutterInit, CutterTypes
  <2> QED BY <2>1, EndsAre DEF Ends, End
<1>3. buf = SubSeq(stream.bytes, End + 1, pos)
  <2>1. pos < End + 1 /\ End + 1 \in Int /\ pos \in Int /\ buf = <<>>
    BY <1>2 DEF CutterInit
  <2> QED BY <2>1, SubSeqEmpty
<1>4. Ordered /\ NothingLost /\ ChunkingIrrelevant /\ ClustersCut
  BY <1>2, <1>3 DEF CutterInit, Ordered, NothingLost, ChunkingIrrelevant, ClustersCut
<1> QED BY <1>1, <1>4 DEF CutterInv

LEMMA ReadKeeps == ASSUME CutterInv, NEW n \in 1..MaxChunk, ReadChunk(n) PROVE CutterInv'
<1> DEFINE b == stream.bytes
<1>1. /\ ~ended /\ ~Draining /\ pos + n <= Len(b) /\ pos' = pos + n
      /\ buf' = buf \o SubSeq(b, pos + 1, pos + n)
      /\ stream' = stream /\ segment' = segment /\ items' = items /\ ended' = ended
  BY DEF ReadChunk
<1>2. n \in Nat \ {0}
  OBVIOUS
<1>3. Ends' = Ends /\ End' = End
  BY <1>1 DEF Ends, End
<1>4. /\ b \in Seq(Byte) /\ pos \in 0..pos + n /\ pos + n \in 0..Len(b) /\ End \in 0..pos
      /\ buf = Part(b, End, pos) /\ Len(items) \in Nat
  <2>1. /\ b \in Seq(Byte) /\ Len(b) \in Nat /\ pos \in 0..Len(b) /\ End \in 0..pos
        /\ buf = Part(b, End, pos) /\ Len(items) \in Nat
    BY Now
  <2> QED BY <1>1, <1>2, <2>1
<1>5. buf' = Part(b, End, pos + n)
  BY <1>1, <1>4, PartsJoined DEF Part
<1>6. CutterTypes'
  <2>1. End \in 0..pos + n
    BY <1>2, <1>4
  <2>2. buf' \in Seq(Byte)
    BY <1>4, <1>5, <2>1, Parts
  <2> QED BY <1>1, <1>4, <2>2 DEF CutterInv, CutterTypes
<1>7. Ordered'
  BY <1>1, <1>3, <1>4, <1>2 DEF CutterInv, Ordered
<1>8. NothingLost'
  <2>1. buf' = SubSeq(stream'.bytes, End' + 1, pos')
    BY <1>1, <1>3, <1>5 DEF Part
  <2> QED BY <1>1, <1>3, <2>1 DEF CutterInv, NothingLost
<1>9. \A l \in 0..pos : Prefix(Part(b, l, pos), Part(b, l, pos + n))
  BY <1>4, PartsPrefix
<1>10. ChunkingIrrelevant'
  <2>1. ASSUME segment # <<>> PROVE Find(UpTo(b, pos + n), 0) = Ends[0]
    <3>1. Find(Part(b, 0, pos), 0) = Ends[0]
      BY <1>1, <2>1 DEF CutterInv, ChunkingIrrelevant, UpTo, Part
    <3>2. Ends[0] # -1
      BY <1>4, Now
    <3>3. 0 \in 0..pos
      BY <1>4
    <3> QED BY <1>9, <3>1, <3>2, <3>3, FindPrefix DEF UpTo, Part
  <2>2. ASSUME NEW i \in 1..Len(items)
        PROVE  UnitEnd(SubSeq(b, Ends[i - 1] + 1, pos + n)) = Ends[i] - Ends[i - 1]
    <3>1. UnitEnd(Part(b, Ends[i - 1], pos)) = Ends[i] - Ends[i - 1]
      BY <1>1 DEF CutterInv, ChunkingIrrelevant, Part
    <3>2. i - 1 \in 0..Len(items) /\ i \in 0..Len(items)
      BY <1>4
    <3>3. Ends[i - 1] \in 0..pos /\ Ends[i - 1] \in Nat /\ Ends[i] \in Nat
      BY <1>4, <3>2, Now
    <3>4. UnitEnd(Part(b, Ends[i - 1], pos)) # -1
      <4>1. Ends[i] = Ends[i - 1] + Len(items[i]) /\ Len(items[i]) \in Nat
        BY EndsAre DEF CutterInv, CutterTypes, Ends
      <4> QED BY <3>1, <3>3, <4>1
    <3> QED BY <1>9, <3>1, <3>3, <3>4, UnitEndPrefix DEF Part
  <2> QED BY <1>1, <1>3, <2>1, <2>2 DEF CutterInv, ChunkingIrrelevant
<1>11. ClustersCut'
  BY <1>1, <1>3 DEF CutterInv, ClustersCut
<1> QED BY <1>6, <1>7, <1>8, <1>10, <1>11 DEF CutterInv

LEMMA SegmentKeeps == ASSUME CutterInv, CutSegment PROVE CutterInv'
<1> DEFINE b == stream.bytes
           f == Find(buf, 0)
<1>1. /\ ~ended /\ segment = <<>> /\ f # -1
      /\ segment' = <<UpTo(buf, f)>> /\ buf' = From(buf, f)
      /\ stream' = stream /\ pos' = pos /\ items' = items /\ ended' = ended
  BY DEF CutSegment, Draining
<1>2. /\ b \in Seq(Byte) /\ Len(b) \in Nat /\ pos \in 0..Len(b) /\ End = 0 /\ items = <<>>
      /\ buf = Part(b, 0, pos) /\ Len(buf) = pos /\ buf \in Seq(Byte)
  <2>1. buf \in Seq(Byte) /\ Len(buf) = pos - End /\ End = 0 /\ pos \in 0..Len(b) /\ Len(b) \in Nat
    BY <1>1, Now DEF CutterInv, CutterTypes
  <2> QED BY <1>1, <2>1, Now
<1>3. f \in 0..pos /\ f + IdLen <= pos /\ IdAt(buf, f) /\ \A i \in 0..f - 1 : ~IdAt(buf, i)
  <2>1. f \in 0..Len(buf) - IdLen /\ IdAt(buf, f) /\ \A i \in 0..f - 1 : ~IdAt(buf, i)
    BY <1>1, <1>2, Found
  <2> HIDE DEF f
  <2> QED BY <1>2, <2>1, Ids
<1> HIDE DEF f
<1>4. UpTo(buf, f) = Part(b, 0, f) /\ From(buf, f) = Part(b, f, pos)
  <2>1. 0 \in 0..pos /\ f \in 0..pos - 0 /\ 0 + f = f
    BY <1>2, <1>3
  <2> QED BY <1>2, <2>1, PartsOfPart
<1>5. /\ Part(b, 0, f) \in Seq(Byte) /\ Len(Part(b, 0, f)) = f
      /\ Part(b, f, pos) \in Seq(Byte)
  <2>1. f \in 0..Len(b) /\ 0 \in 0..f /\ f - 0 = f
    BY <1>2, <1>3
  <2> QED BY <1>2, <1>3, <2>1, Parts
<1>6. segment' \in Segments /\ segment' # <<>> /\ segment'[1] = Part(b, 0, f)
  BY <1>1, <1>4, <1>5 DEF Segments
<1>7. Ends'[0] = f /\ End' = f /\ items' = <<>> /\ Len(items') = 0
  <2>1. items' = <<>> /\ Len(items') = 0 /\ items' \in Seq(Seq(Byte))
    BY <1>1, <1>2
  <2>2. EndsOf(segment', items')[0] = f
    BY <1>5, <1>6, <2>1, EndsAre
  <2> QED BY <2>1, <2>2 DEF Ends, End
<1>8. CutterTypes'
  BY <1>1, <1>4, <1>5, <1>6 DEF CutterInv, CutterTypes
<1>9. Ordered'
  <2>1. f <= pos /\ \A i \in 0..0 : i = 0
    BY <1>2, <1>3
  <2> QED BY <1>1, <1>3, <1>7, <2>1 DEF Ordered
<1>10. NothingLost'
  <2>1. segment'[1] = UpTo(b, f)
    BY <1>6 DEF UpTo, Part
  <2> QED BY <1>1, <1>4, <1>7, <2>1 DEF NothingLost, Part
<1>11. ChunkingIrrelevant'
  <2>1. Find(UpTo(b, pos), 0) = f
    BY <1>2 DEF f, UpTo, Part
  <2> QED BY <1>1, <1>6, <1>7, <2>1 DEF ChunkingIrrelevant
<1>12. ClustersCut'
  <2> SUFFICES ASSUME stream.ends # {}
               PROVE  /\ WellFormed(b, stream.ends, f)
                      /\ {e \in stream.ends : e <= f} = {}
    BY <1>1, <1>7 DEF ClustersCut
  <2>1. PICK h \in 0..Len(b) : WellFormed(b, stream.ends, h)
    BY CutterAssumption DEF CutterInv, CutterTypes
  <2>2. /\ Len(b) \in stream.ends /\ stream.ends \subseteq h + 1..Len(b)
        /\ \A i \in 0..h - 1 : ~IdAt(b, i)
    BY <2>1 DEF WellFormed
  <2>3. h \in Nat /\ h < Len(b)
    BY <1>2, <2>1, <2>2
  <2>4. IdAt(b, h)
    <3>1. \E e \in stream.ends : Cluster(b, h, e)
      BY <1>2, <2>1, <2>2, <2>3, NextCluster
    <3> QED BY <3>1 DEF Cluster
  <2>5. ASSUME NEW i \in Nat, i + IdLen <= pos PROVE IdAt(buf, i) <=> IdAt(b, i)
    <3>1. Part(b, 0, Len(b)) = b
      <4>1. Len(b) \in 0..Len(b) /\ 0 \in 0..Len(b) /\ \A k \in 1..Len(b) : 0 + k = k /\ Len(b) - 0 = Len(b)
        BY <1>2
      <4>2. /\ Part(b, 0, Len(b)) \in Seq(Byte) /\ Len(Part(b, 0, Len(b))) = Len(b) - 0
            /\ \A k \in 1..Len(b) - 0 : Part(b, 0, Len(b))[k] = b[0 + k]
        BY <1>2, <4>1, Parts
      <4>3. Len(b) - 0 = Len(b)
        BY <1>2
      <4> QED BY <1>2, <4>1, <4>2, <4>3, SeqEqual
    <3>2. Len(b) \in 0..Len(b) /\ 0 \in 0..pos
      BY <1>2
    <3>3. Prefix(buf, b)
      BY <1>2, <3>1, <3>2, PartsPrefix
    <3> QED BY <1>2, <2>5, <3>3, IdPrefix
  <2>6. ~(f < h)
    <3>1. f \in Nat /\ IdAt(b, f)
      BY <1>3, <2>5
    <3> QED BY <2>2, <2>3, <3>1
  <2>7. ~(h < f)
    <3> SUFFICES ASSUME h < f PROVE FALSE
      OBVIOUS
    <3>1. h + IdLen <= pos /\ h \in 0..f - 1
      BY <1>2, <1>3, <2>3, Ids
    <3> QED BY <1>3, <2>3, <2>4, <2>5, <3>1
  <2>8. h = f
    BY <1>3, <2>3, <2>6, <2>7
  <2> QED BY <1>2, <2>1, <2>2, <2>3, <2>8
<1> QED BY <1>8, <1>9, <1>10, <1>11, <1>12 DEF CutterInv

(* One more unit, the front u of the buffer, is cut off.                   *)
LEMMA OneMore ==
    ASSUME CutterInv, NEW u \in 0..Len(buf), items' = Append(items, UpTo(buf, u)),
           segment' = segment
    PROVE  /\ items' \in Seq(Seq(Byte)) /\ Len(items') = Len(items) + 1 /\ End' = End + u
           /\ \A i \in 1..Len(items) : items'[i] = items[i]
           /\ \A i \in 0..Len(items) : Ends'[i] = Ends[i]
           /\ items'[Len(items')] = Part(stream.bytes, End, End + u)
           /\ Ends'[Len(items')] = End + u /\ Ends'[Len(items)] = End
           /\ UpTo(buf, u) \in Seq(Byte) /\ From(buf, u) = Part(stream.bytes, End + u, pos)
           /\ From(buf, u) \in Seq(Byte) /\ End + u \in End..pos
<1> DEFINE b == stream.bytes
<1>1. /\ b \in Seq(Byte) /\ Len(b) \in Nat /\ pos \in 0..Len(b) /\ End \in 0..pos
      /\ buf = Part(b, End, pos) /\ Len(buf) = pos - End /\ Len(items) \in Nat
  BY Now
<1>2. u \in 0..pos - End /\ End + u \in 0..Len(b) /\ End + u \in End..pos /\ End + u \in 0..pos
      /\ End \in 0..End + u /\ (End + u) - End = u
  BY <1>1
<1>3. UpTo(buf, u) = Part(b, End, End + u) /\ From(buf, u) = Part(b, End + u, pos)
  BY <1>1, <1>2, PartsOfPart
<1>4. /\ UpTo(buf, u) \in Seq(Byte) /\ Len(UpTo(buf, u)) = u
      /\ From(buf, u) \in Seq(Byte)
  BY <1>1, <1>2, <1>3, Parts
<1>5. segment \in Segments /\ items \in Seq(Seq(Byte))
  BY DEF CutterInv, CutterTypes
<1>6. /\ items' \in Seq(Seq(Byte)) /\ Len(items') = Len(items) + 1 /\ items'[Len(items')] = UpTo(buf, u)
      /\ \A i \in 1..Len(items) : items'[i] = items[i]
      /\ EndsOf(segment, items')[Len(items')] = EndsOf(segment, items)[Len(items)] + Len(UpTo(buf, u))
      /\ \A i \in 0..Len(items) : EndsOf(segment, items')[i] = EndsOf(segment, items)[i]
  <2>1. \A new : new = Append(items, UpTo(buf, u)) =>
           /\ new \in Seq(Seq(Byte)) /\ Len(new) = Len(items) + 1 /\ new[Len(new)] = UpTo(buf, u)
           /\ \A i \in 1..Len(items) : new[i] = items[i]
           /\ EndsOf(segment, new)[Len(new)] = EndsOf(segment, items)[Len(items)] + Len(UpTo(buf, u))
           /\ \A i \in 0..Len(items) : EndsOf(segment, new)[i] = EndsOf(segment, items)[i]
    BY <1>4, <1>5, EndsAppend
  <2> QED BY <2>1, Zenon
<1>7. Len(items) \in 0..Len(items)
  BY <1>1
<1> QED BY <1>2, <1>3, <1>4, <1>6, <1>7 DEF Ends, End

(* ... and everything before it stays what it was.                         *)
LEMMA NothingLostOneMore ==
    ASSUME CutterInv, NEW u \in 0..Len(buf), items' = Append(items, UpTo(buf, u)),
           segment' = segment, stream' = stream, pos' = pos, buf' = From(buf, u)
    PROVE  NothingLost' /\ Ordered'
<1> DEFINE b == stream.bytes
           n == Len(items)
<1>1. /\ n \in Nat /\ Len(items') = n + 1 /\ End' = End + u
      /\ \A i \in 1..n : items'[i] = items[i]
      /\ \A i \in 0..n : Ends'[i] = Ends[i]
      /\ items'[n + 1] = Part(b, End, End + u)
      /\ Ends'[n + 1] = End + u /\ Ends'[n] = End
      /\ From(buf, u) = Part(b, End + u, pos) /\ End + u \in End..pos
  BY OneMore, Now
<1>2. /\ segment # <<>> => segment[1] = UpTo(b, Ends[0])
      /\ \A i \in 1..n : items[i] = SubSeq(b, Ends[i - 1] + 1, Ends[i])
  BY DEF CutterInv, NothingLost
<1>3. ASSUME NEW i \in 1..n + 1 PROVE items'[i] = SubSeq(b, Ends'[i - 1] + 1, Ends'[i])
  <2>1. CASE i = n + 1
    <3>1. i - 1 = n
      BY <1>1, <2>1
    <3> QED BY <1>1, <2>1, <3>1 DEF Part
  <2>2. CASE i # n + 1
    <3>1. i \in 1..n /\ i \in 0..n /\ i - 1 \in 0..n
      BY <1>1, <2>2
    <3> QED BY <1>1, <1>2, <3>1
  <2> QED BY <2>1, <2>2
<1>4. Ends'[0] = Ends[0]
  BY <1>1
<1>5. NothingLost'
  BY <1>1, <1>2, <1>3, <1>4 DEF NothingLost, Part
<1>6. ASSUME NEW i \in 0..n + 1 PROVE Ends'[i] <= End'
  <2>1. CASE i = n + 1
    <3>1. End \in Nat
      BY Now
    <3> QED BY <1>1, <2>1, <3>1
  <2>2. CASE i # n + 1
    <3>1. i \in 0..n
      BY <1>1, <2>2
    <3>2. Ends[i] \in 0..End /\ End \in Nat
      BY <3>1, Now
    <3> QED BY <1>1, <3>1, <3>2
  <2> QED BY <2>1, <2>2
<1>7. End' <= pos
  BY <1>1, Now
<1> QED BY <1>1, <1>5, <1>6, <1>7 DEF Ordered

LEMMA UnitKeeps == ASSUME CutterInv, CutUnit PROVE CutterInv'
<1> DEFINE b == stream.bytes
           u == UnitEnd(buf)
           n == Len(items)
<1>1. /\ ~ended /\ segment # <<>> /\ u # -1
      /\ items' = Append(items, UpTo(buf, u)) /\ buf' = From(buf, u)
      /\ stream' = stream /\ pos' = pos /\ segment' = segment /\ ended' = ended
  BY DEF CutUnit, Draining
<1>2. /\ b \in Seq(Byte) /\ Len(b) \in Nat /\ pos \in 0..Len(b) /\ End \in 0..pos
      /\ buf = Part(b, End, pos) /\ Len(buf) = pos - End /\ n \in Nat
  BY Now
<1>3. u \in 1..Len(buf) /\ u \in 0..Len(buf) /\ u = UnitEnd(Part(b, End, pos))
  <2>1. buf \in Seq(Byte)
    BY DEF CutterInv, CutterTypes
  <2>2. u \in 1..Len(buf)
    BY <1>1, <2>1, UnitEnds
  <2> QED BY <1>2, <2>2
<1> HIDE DEF u
<1>4. /\ items' \in Seq(Seq(Byte)) /\ Len(items') = n + 1 /\ End' = End + u
      /\ \A i \in 0..n : Ends'[i] = Ends[i]
      /\ Ends'[n + 1] = End + u /\ Ends'[n] = End
      /\ From(buf, u) \in Seq(Byte) /\ End + u \in End..pos
  BY <1>1, <1>3, OneMore
<1>5. CutterTypes'
  BY <1>1, <1>4 DEF CutterInv, CutterTypes
<1>6. NothingLost' /\ Ordered'
  BY <1>1, <1>3, NothingLostOneMore
<1>7. Ends'[0] = Ends[0]
  BY <1>2, <1>4
<1>8. ChunkingIrrelevant'
  <2>1. Find(UpTo(b, pos), 0) = Ends[0]
    BY <1>1 DEF CutterInv, ChunkingIrrelevant
  <2>2. ASSUME NEW i \in 1..n + 1
        PROVE  UnitEnd(SubSeq(b, Ends'[i - 1] + 1, pos)) = Ends'[i] - Ends'[i - 1]
    <3>1. CASE i = n + 1
      <4>1. i - 1 = n /\ (End + u) - End = u
        BY <1>2, <1>3, <3>1
      <4> QED BY <1>3, <1>4, <3>1, <4>1 DEF Part
    <3>2. CASE i # n + 1
      <4>1. i \in 1..n /\ i \in 0..n /\ i - 1 \in 0..n
        BY <1>2, <3>2
      <4>2. UnitEnd(SubSeq(b, Ends[i - 1] + 1, pos)) = Ends[i] - Ends[i - 1]
        BY <1>1, <4>1 DEF CutterInv, ChunkingIrrelevant
      <4> QED BY <1>4, <4>1, <4>2
    <3> QED BY <3>1, <3>2
  <2> QED BY <1>1, <1>4, <1>7, <2>1, <2>2 DEF ChunkingIrrelevant
<1>9. ClustersCut'
  <2> SUFFICES ASSUME stream.ends # {}
               PROVE  /\ WellFormed(b, stream.ends, Ends[0])
                      /\ End + u \in stream.ends
                      /\ {Ends'[i] : i \in 1..n + 1} = {e \in stream.ends : e <= End + u}
    BY <1>1, <1>4, <1>7 DEF ClustersCut
  <2>1. /\ WellFormed(b, stream.ends, Ends[0])
        /\ End \in stream.ends \cup {Ends[0]}
        /\ {Ends[i] : i \in 1..n} = {e \in stream.ends : e <= End}
    BY <1>1 DEF CutterInv, ClustersCut
  <2>2. Len(b) \in stream.ends /\ stream.ends \subseteq Ends[0] + 1..Len(b) /\ Ends[0] \in Nat
    <3>1. 0 \in 0..Len(items)
      BY <1>2
    <3>2. Ends[0] \in Nat
      BY <3>1, Now
    <3> QED BY <2>1, <3>2 DEF WellFormed
  <2>3. End < Len(b)
    BY <1>2, <1>3
  <2>4. PICK e \in stream.ends : End < e /\ Cluster(b, End, e) /\ \A y \in stream.ends : End < y => e <= y
    BY <1>2, <2>1, <2>2, <2>3, NextCluster
  <2>5. e \in End + 1..Len(b) /\ stream.ends \subseteq Nat /\ e \in Nat
    BY <1>2, <2>2, <2>4
  <2>6. u = e - End
    <3>1. UnitEnd(Part(b, End, pos)) # -1 => UnitEnd(Part(b, End, pos)) = e - End
      BY <1>2, <2>4, <2>5, NextUnit
    <3> QED BY <1>2, <1>3, <3>1
  <2>7. End + u = e
    BY <1>2, <1>3, <2>5, <2>6
  <2>8. {Ends'[i] : i \in 1..n + 1} = {Ends[i] : i \in 1..n} \cup {e}
    <3>1. 1..n + 1 = 1..n \cup {n + 1} /\ \A i \in 1..n : i \in 0..n
      BY <1>2
    <3>2. \A i \in 1..n : Ends'[i] = Ends[i]
      BY <1>4, <3>1
    <3>3. Ends'[n + 1] = e
      BY <1>4, <2>7
    <3> QED BY <3>1, <3>2, <3>3
  <2>9. {y \in stream.ends : y <= e} = {y \in stream.ends : y <= End} \cup {e}
    <3>1. ASSUME NEW y \in stream.ends PROVE y <= e <=> y <= End \/ y = e
      <4>1. y \in Nat /\ End \in Nat
        BY <1>2, <2>5
      <4>2. End < y => e <= y
        BY <2>4
      <4> QED BY <2>4, <2>5, <4>1, <4>2
    <3> QED BY <2>4, <3>1
  <2> QED BY <2>1, <2>4, <2>7, <2>8, <2>9
<1> QED BY <1>5, <1>6, <1>8, <1>9 DEF CutterInv

LEMMA EofKeeps == ASSUME CutterInv, ReachEof PROVE CutterInv'
<1>1. /\ ended' = TRUE /\ buf' = <<>>
      /\ stream' = stream /\ pos' = pos /\ segment' = segment
      /\ items' = IF buf = <<>> THEN items ELSE Append(items, buf)
  BY DEF ReachEof
<1>2. /\ Len(stream.bytes) \in Nat /\ pos \in 0..Len(stream.bytes) /\ End \in 0..pos
      /\ Len(buf) = pos - End /\ buf \in Seq(Byte)
  BY Now DEF CutterInv, CutterTypes
<1>3. ChunkingIrrelevant' /\ ClustersCut'
  BY <1>1 DEF ChunkingIrrelevant, ClustersCut
<1>4. <<>> \in Seq(Byte)
  OBVIOUS
<1>5. CASE buf = <<>>
  <2>1. items' = items /\ buf' = buf
    BY <1>1, <1>5
  <2>2. CutterTypes'
    BY <1>1, <2>1 DEF CutterInv, CutterTypes
  <2>3. Ordered' /\ NothingLost'
    BY <1>1, <2>1 DEF CutterInv, Ordered, NothingLost, End, Ends
  <2> QED BY <1>3, <2>2, <2>3 DEF CutterInv
<1>6. CASE buf # <<>>
  <2> DEFINE u == Len(buf)
  <2>1. u \in 0..Len(buf) /\ UpTo(buf, u) = buf /\ From(buf, u) = <<>>
    <3>1. u \in Nat /\ Len(buf) < u + 1 /\ u + 1 \in Int
      BY <1>2
    <3>2. SubSeq(buf, 1, Len(buf)) = buf
      BY <1>2, SubSeqFull
    <3>3. SubSeq(buf, u + 1, Len(buf)) = <<>>
      BY <3>1, SubSeqEmpty
    <3> QED BY <3>1, <3>2, <3>3 DEF UpTo, From
  <2>2. items' = Append(items, UpTo(buf, u)) /\ buf' = From(buf, u)
    BY <1>1, <1>6, <2>1
  <2>3. items' \in Seq(Seq(Byte))
    BY <1>1, <2>1, <2>2, OneMore
  <2>4. CutterTypes'
    BY <1>1, <1>4, <2>3 DEF CutterInv, CutterTypes
  <2>5. Ordered' /\ NothingLost'
    BY <1>1, <2>1, <2>2, NothingLostOneMore
  <2> QED BY <1>3, <2>4, <2>5 DEF CutterInv
<1> QED BY <1>5, <1>6

(* When the drain stops, no Cluster that is there in full is left.         *)
LEMMA NoneLeft == CutterInv => ClustersWhole
<1> SUFFICES ASSUME CutterInv, ~ended, ~Draining, stream.ends # {}
             PROVE  {Ends[i] : i \in 1..Len(items)} = {e \in stream.ends : e <= pos}
  BY DEF ClustersWhole
<1> DEFINE b == stream.bytes
<1>1. /\ b \in Seq(Byte) /\ Len(b) \in Nat /\ pos \in 0..Len(b) /\ End \in 0..pos
      /\ buf = Part(b, End, pos) /\ buf \in Seq(Byte) /\ Len(buf) = pos - End
  BY Now DEF CutterInv, CutterTypes
<1>2. CASE segment = <<>>
  <2>1. End = 0 /\ items = <<>> /\ Len(items) = 0 /\ Find(buf, 0) = -1
    BY <1>2, Now DEF Draining
  <2>2. PICK h \in 0..Len(b) : WellFormed(b, stream.ends, h)
    BY CutterAssumption DEF CutterInv, CutterTypes
  <2>3. ASSUME NEW x \in stream.ends, x <= pos PROVE FALSE
    <3>1. h \in Nat /\ h < x /\ x \in Nat /\ stream.ends \subseteq Nat
      BY <1>1, <2>2 DEF WellFormed
    <3>2. PICK e \in stream.ends : h < e /\ e <= x /\ Cluster(b, h, e)
      BY <1>1, <2>2, <3>1, NextCluster
    <3>3. e \in Nat /\ e <= pos /\ IdAt(b, h) /\ h + IdLen < e
      BY <1>1, <2>3, <3>1, <3>2 DEF Cluster
    <3>4. h + IdLen <= Len(buf) /\ Len(buf) = pos
      BY <1>1, <2>1, <3>1, <3>3, Ids
    <3>5. \A k \in 1..IdLen : buf[h + k] = b[h + k]
      <4>1. \A k \in 1..IdLen : h + k \in 1..pos - 0 /\ 0 + (h + k) = h + k
        BY <1>1, <3>1, <3>4, Ids
      <4>2. 0 \in 0..pos
        BY <1>1
      <4>3. \A k \in 1..pos - 0 : Part(b, 0, pos)[k] = b[0 + k]
        BY <1>1, <4>2, Parts
      <4>4. buf = Part(b, 0, pos) /\ pos - 0 = pos
        BY <1>1, <2>1
      <4> QED BY <4>1, <4>3, <4>4
    <3>6. IdAt(buf, h)
      BY <1>1, <3>1, <3>3, <3>4, <3>5, IdPoints
    <3>7. h \in 0..Len(buf) - IdLen
      BY <1>1, <3>1, <3>4, Ids
    <3> QED BY <1>1, <2>1, <3>6, <3>7, Found
  <2>4. {e \in stream.ends : e <= pos} = {}
    BY <2>3
  <2>5. 1..Len(items) = {}
    BY <2>1
  <2> QED BY <2>4, <2>5
<1>3. CASE segment # <<>>
  <2>1. /\ WellFormed(b, stream.ends, Ends[0]) /\ End \in stream.ends \cup {Ends[0]}
        /\ {Ends[i] : i \in 1..Len(items)} = {e \in stream.ends : e <= End}
    BY <1>3 DEF CutterInv, ClustersCut
  <2>2. Ends[0] \in Nat /\ stream.ends \subseteq Nat /\ \A x \in stream.ends : x <= Len(b)
    <3>1. 0 \in 0..Len(items)
      BY Now
    <3>2. Ends[0] \in Nat
      BY <3>1, Now
    <3>3. stream.ends \subseteq Ends[0] + 1..Len(b)
      BY <2>1 DEF WellFormed
    <3> QED BY <1>1, <3>2, <3>3
  <2>3. ASSUME NEW x \in stream.ends, x <= pos, ~(x <= End) PROVE FALSE
    <3>1. End < x /\ x \in Nat
      BY <1>1, <2>2, <2>3
    <3>2. PICK e \in stream.ends : End < e /\ e <= x /\ Cluster(b, End, e)
      BY <1>1, <2>1, <2>2, <3>1, NextCluster
    <3>3. e \in End + 1..Len(b) /\ e <= pos
      <4>1. e \in Nat /\ e <= Len(b)
        BY <2>2
      <4> QED BY <1>1, <2>3, <3>1, <3>2, <4>1
    <3>4. UnitEnd(Part(b, End, pos)) # -1
      BY <1>1, <3>2, <3>3, NextUnit
    <3> QED BY <1>1, <1>3, <3>4 DEF Draining
  <2>4. \A x \in stream.ends : x <= pos <=> x <= End
    <3> TAKE x \in stream.ends
    <3>1. x \in Nat
      BY <2>2
    <3> QED BY <1>1, <2>3, <3>1
  <2> QED BY <2>1, <2>4
<1> QED BY <1>2, <1>3

LEMMA CutterStays == CutterInv /\ UNCHANGED cutterVars => CutterInv'
BY DEF cutterVars, CutterInv, CutterTypes, Ordered, NothingLost, ChunkingIrrelevant, ClustersCut, Ends, End

LEMMA CutterKeeps == CutterInv /\ [CutterNext]_cutterVars => CutterInv'
BY ReadKeeps, SegmentKeeps, UnitKeeps, EofKeeps, CutterStays DEF CutterNext

(* _drain_webm and _read_loop: no byte that ffmpeg wrote is lost, repeated *)
(* or moved; each cut is where it would have been had everything been read *)
(* at once; of a well-formed stream exactly the Clusters received in full  *)
(* have been fanned out.                                                   *)
THEOREM ClustersCutExactly == CutterSpec => []CutsExactly
<1>1. CutterInv => CutsExactly
  BY NoneLeft DEF CutterInv, CutsExactly
<1> QED BY <1>1, FirstInv, CutterKeeps, PTL DEF CutterSpec

=============================================================================
