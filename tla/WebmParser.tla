----------------------------- MODULE WebmParser -----------------------------
(***************************************************************************)
(* _drain_webm: cutting what ffmpeg writes, read in arbitrary chunks, into *)
(* the init segment and whole Clusters.  Bytes are W bits wide instead of  *)
(* eight and the Cluster ID is a constant of any length; the variable-     *)
(* length integers are decoded by the same arithmetic.  Each round of the  *)
(* loop is a step.  What a drain returns is fanned out, in order, before   *)
(* the next read; items is all that was returned.                          *)
(***************************************************************************)
EXTENDS Integers, Sequences

CONSTANTS
    W,          \* bits in a byte
    ClusterID,  \* the bytes of _WEBM_CLUSTER_ID
    MaxChunk,   \* read1(2048)
    Streams     \* [bytes |-> what ffmpeg writes, ends |-> the positions where
                \* its Clusters end, {} for a stream that is not well formed]

VARIABLES
    stream,
    pos,        \* bytes read so far
    buf,
    segment,    \* _init_segment: <<>> for None, <<the bytes>> once captured
    items,      \* the units cut off, the tail flushed at the end included
    ended

cutterVars == <<stream, pos, buf, segment, items, ended>>

(* d[0], d[1], ... are digits; the numbers that the first one, two, ... of *)
(* them write in the given base.                                           *)
Values(base, d, n) == LET v[i \in 0..n] == IF i = 0 THEN d[0] ELSE v[i - 1] * base + d[i] IN v

Shifted(n) == Values(2, [i \in 0..n |-> IF i = 0 THEN 1 ELSE 0], n)[n]   \* 1 << n
Byte == 0..Shifted(W) - 1

IdLen == Len(ClusterID)
From(s, i) == SubSeq(s, i + 1, Len(s))      \* s[i:]
UpTo(s, i) == SubSeq(s, 1, i)               \* s[:i]
IdAt(s, i) == i + IdLen <= Len(s) /\ SubSeq(s, i + 1, i + IdLen) = ClusterID

(* s.find(ClusterID, start), -1 for none.                                  *)
Find(s, start) ==
    LET hits == {i \in start .. Len(s) - IdLen : IdAt(s, i)}
    IN IF hits = {} THEN -1 ELSE CHOOSE i \in hits : \A j \in hits : i <= j

(* _webm_vint_len: the first of the W bits from the top, 0 if none is set. *)
VintLen(b) ==
    LET set == {n \in 1..W : Shifted(W - n) <= b}
    IN IF set = {} THEN 0 ELSE CHOOSE n \in set : \A m \in set : n <= m

(* An n-byte integer: its digits, marker bit cleared, and its value; all   *)
(* ones: unknown.                                                          *)
Digits(s, n) == [i \in 0..n - 1 |-> IF i = 0 THEN s[IdLen + 1] % Shifted(W - n) ELSE s[IdLen + 1 + i]]
VintValue(s, n) == Values(Shifted(W), Digits(s, n), n - 1)[n - 1]
AllOnes(v, n) == v = Shifted((W - 1) * n) - 1

(* Where the unit at the front of s ends, -1 if that cannot be told yet.   *)
UnitEnd(s) ==
    IF Len(s) < IdLen + 1 THEN -1
    ELSE IF ~IdAt(s, 0) THEN Find(s, 1)
    ELSE LET n == VintLen(s[IdLen + 1])
         IN IF n = 0 THEN Find(s, IdLen)
            ELSE IF Len(s) < IdLen + n THEN -1
            ELSE IF AllOnes(VintValue(s, n), n) THEN Find(s, IdLen)
            ELSE IF Len(s) < IdLen + n + VintValue(s, n) THEN -1
            ELSE IdLen + n + VintValue(s, n)

CutterInit ==
    /\ stream \in Streams
    /\ pos = 0 /\ buf = <<>> /\ segment = <<>> /\ items = <<>> /\ ended = FALSE

(* The loop goes round: there is something to take off the buffer.         *)
Draining == IF segment = <<>> THEN Find(buf, 0) # -1 ELSE UnitEnd(buf) # -1

(* A chunk is read once the last one is drained.                           *)
ReadChunk(n) ==
    /\ ~ended /\ ~Draining /\ pos + n <= Len(stream.bytes)
    /\ pos' = pos + n
    /\ buf' = buf \o SubSeq(stream.bytes, pos + 1, pos + n)
    /\ UNCHANGED <<stream, segment, items, ended>>

(* The init segment is all that precedes the first Cluster, nothing if the *)
(* stream starts with one.                                                 *)
CutSegment ==
    /\ ~ended /\ Draining /\ segment = <<>>
    /\ segment' = <<UpTo(buf, Find(buf, 0))>>
    /\ buf' = From(buf, Find(buf, 0))
    /\ UNCHANGED <<stream, pos, items, ended>>

(* Mutant: units that are no Clusters are taken off silently.              *)
CutUnitSilently ==
    /\ ~ended /\ Draining /\ segment # <<>>
    /\ items' = IF IdAt(buf, 0) THEN Append(items, UpTo(buf, UnitEnd(buf))) ELSE items
    /\ buf' = From(buf, UnitEnd(buf))
    /\ UNCHANGED <<stream, pos, segment, ended>>

CutUnit ==
    /\ ~ended /\ Draining /\ segment # <<>>
    /\ items' = Append(items, UpTo(buf, UnitEnd(buf)))
    /\ buf' = From(buf, UnitEnd(buf))
    /\ UNCHANGED <<stream, pos, segment, ended>>

(* ffmpeg may stop anywhere: the partial tail is flushed, if there is one. *)
ReachEof ==
    /\ ~ended /\ ~Draining
    /\ ended' = TRUE
    /\ items' = IF buf = <<>> THEN items ELSE Append(items, buf)
    /\ buf' = <<>>
    /\ UNCHANGED <<stream, pos, segment>>

CutterNext == ReachEof \/ CutSegment \/ CutUnit \/ \E n \in 1..MaxChunk : ReadChunk(n)

CutterSpec == CutterInit /\ [][CutterNext]_cutterVars

(***************************************************************************)
(* Streams that are well formed.                                           *)
(***************************************************************************)

(* A Cluster of known size lies between s and e.                           *)
Cluster(b, s, e) ==
    /\ IdAt(b, s) /\ s + IdLen < e
    /\ LET n == VintLen(b[s + IdLen + 1])
           size == VintValue(From(b, s), n)
       IN n # 0 /\ s + IdLen + n <= e /\ e = s + IdLen + n + size /\ ~AllOnes(size, n)

(* A header of h bytes, in which no Cluster ID occurs, and Clusters to the *)
(* end, each from where the one before it ends.                            *)
WellFormed(b, ends, h) ==
    /\ Len(b) \in ends /\ ends \subseteq h + 1..Len(b)
    /\ \A i \in 0..h - 1 : ~IdAt(b, i)
    /\ \A e \in ends : \E s \in ends \cup {h} : Cluster(b, s, e) /\ s + 1..e - 1 \cap ends = {}

ASSUME CutterAssumption ==
    /\ W \in Nat \ {0}
    /\ ClusterID \in Seq(Byte) /\ ClusterID # <<>>
    /\ \A st \in Streams :
          /\ st.bytes \in Seq(Byte)
          /\ st.ends # {} => \E h \in 0..Len(st.bytes) : WellFormed(st.bytes, st.ends, h)

(***************************************************************************)
(* Properties.                                                             *)
(***************************************************************************)

(* Where the init segment and the units end, counted from the beginning.   *)
Lens(seg, its) == [i \in 0..Len(its) |-> IF i > 0 THEN Len(its[i])
                                          ELSE IF seg = <<>> THEN 0 ELSE Len(seg[1])]
EndsOf(seg, its) == Values(1, Lens(seg, its), Len(its))
Ends == EndsOf(segment, items)
End == Ends[Len(items)]

(* No byte is lost, repeated or moved, whatever ffmpeg wrote.              *)
NothingLost ==
    /\ segment # <<>> => segment[1] = UpTo(stream.bytes, Ends[0])
    /\ \A i \in 1..Len(items) : items[i] = SubSeq(stream.bytes, Ends[i - 1] + 1, Ends[i])
    /\ buf = SubSeq(stream.bytes, End + 1, pos)

(* Where the reads fell makes no difference: each cut is the one that all  *)
(* that was read so far has there, had it been read at once, and between   *)
(* two drains nothing is left to cut.                                      *)
ChunkingIrrelevant ==
    ~ended =>
       /\ segment # <<>> => Find(UpTo(stream.bytes, pos), 0) = Ends[0]
       /\ \A i \in 1..Len(items) :
             UnitEnd(SubSeq(stream.bytes, Ends[i - 1] + 1, pos)) = Ends[i] - Ends[i - 1]
       /\ segment = <<>> => items = <<>>

(* Of a well-formed stream, exactly the Clusters received in full have     *)
(* been fanned out, each on its own (the docstring of _drain_webm).        *)
ClustersWhole ==
    ~ended /\ ~Draining /\ stream.ends # {} =>
       {Ends[i] : i \in 1..Len(items)} = {e \in stream.ends : e <= pos}

(* The three: what browsers are sent is the stream, cut at its Clusters.   *)
CutsExactly == NothingLost /\ ChunkingIrrelevant /\ ClustersWhole

=============================================================================
