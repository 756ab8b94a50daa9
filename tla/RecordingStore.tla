--------------------------- MODULE RecordingStore ---------------------------
(***************************************************************************)
(* The recordings on disk and their rows in the database: the caps that a  *)
(* start checks, the row a recording leaves when it ends, the deletion by  *)
(* a request, and the janitor's sweep by age and by caps.                  *)
(*                                                                         *)
(* Each thread keeps one SQLite connection (get_db), so a DELETE without   *)
(* its commit keeps the write lock of the file with that thread: tx is the *)
(* set of rows the janitor has deleted and not committed.                  *)
(***************************************************************************)
EXTENDS Naturals, Sequences, FiniteSets, FiniteSetsExt

CONSTANTS Users, Cap, UserCap,  \* global_cap_gb and per_user_cap_gb
          Sizes,                \* what a recording may come to
          MaxRows, MaxRestarts, MaxStuck  \* bounds

VARIABLES rows,     \* id -> [status, user, size, old]; ids grow with time
          disk,     \* the ids whose file is on disk
          live,     \* the ids a Recorder is writing (_active_recordings)
          del,      \* a deletion in progress: [id, left], left the steps to come
          jan,      \* the janitor: [pc, plan]
          tx,       \* rows it has deleted and not committed
          stuck,    \* the ids whose file could not be removed when it was tried
          restarts

storeVars == <<rows, disk, live, del, jan, tx, stuck, restarts>>

Ids == 1..MaxRows
NoRow == [status |-> "none"]
Gone == [status |-> "gone"]      \* ids are not used again (AUTOINCREMENT)
NoDelete == [left |-> <<>>]
Asleep == [pc |-> "sleep", plan |-> {}]

StoreInit == /\ rows = [i \in Ids |-> NoRow] /\ disk = {} /\ live = {}
             /\ del = NoDelete /\ jan = Asleep /\ tx = {} /\ stuck = {}
             /\ restarts = 0

There(i) == rows[i] \notin {NoRow, Gone}
Finished == {i \in Ids : rows[i].status = "finished"}
Bytes(S) == MapThenSumSet(LAMBDA i : rows[i].size, S)
OfUser(S, u) == {i \in S : rows[i].user = u}

\* os.unlink, when there is a file: that it fails is only logged
Unlink(i) == \/ disk' = disk \ {i} /\ stuck' = stuck \ {i}
             \/ /\ i \in disk /\ Cardinality(stuck \cup {i}) <= MaxStuck
                /\ stuck' = stuck \cup {i} /\ disk' = disk

\* another thread's write goes through only when the janitor holds no lock
Unlocked == tx = {}

----------------------------------------------------------------------------
(* Requests: api_recording_start, _finalize, rename, delete.               *)

Start(u) == \E id \in Ids :
    /\ rows[id] = NoRow /\ \A j \in Ids : j < id => rows[j] # NoRow
    /\ Unlocked /\ Bytes(Finished) < Cap /\ Bytes(OfUser(Finished, u)) < UserCap
    /\ rows' = [rows EXCEPT ![id] = [status |-> "recording", user |-> u, size |-> 0, old |-> FALSE]]
    /\ live' = live \cup {id} /\ disk' = disk \cup {id}
    /\ UNCHANGED <<del, jan, tx, stuck, restarts>>

\* the pipeline does not start: the row says so, and the file stays away
StartFails(i) ==
    /\ Unlocked /\ i \in live /\ rows[i].status = "recording"
    /\ rows' = [rows EXCEPT ![i].status = "error"]
    /\ live' = live \ {i} /\ disk' = disk \ {i}
    /\ UNCHANGED <<del, jan, tx, stuck, restarts>>

FinalizeRow(i, n) ==
    /\ Unlocked /\ i \in live
    /\ rows' = [rows EXCEPT ![i].status = "finished", ![i].size = n]
    /\ live' = live \ {i}
    /\ UNCHANGED <<disk, del, jan, tx, stuck, restarts>>

\* the update waits ten seconds for the lock and gives up: only logged
FinalizeLocked(i) ==
    /\ ~Unlocked /\ i \in live /\ live' = live \ {i}
    /\ UNCHANGED <<rows, disk, del, jan, tx, stuck, restarts>>

Old(i) == /\ There(i) /\ ~rows[i].old /\ \A j \in Ids : j < i /\ There(j) => rows[j].old
          /\ rows' = [rows EXCEPT ![i].old = TRUE]
          /\ UNCHANGED <<disk, live, del, jan, tx, stuck, restarts>>

\* Mutant: the row first, then the file
RowThenFile == <<"row", "file">>
\* api_recordings_delete: the file goes first
DeleteSteps == <<"file", "row">>

Delete(i) == /\ del = NoDelete /\ rows[i].status \in {"finished", "error"}
             /\ del' = [id |-> i, left |-> DeleteSteps]
             /\ UNCHANGED <<rows, disk, live, jan, tx, stuck, restarts>>
DeleteStep ==
    /\ del # NoDelete
    /\ LET i == del.id  rest == Tail(del.left)
       IN /\ \/ Head(del.left) = "file" /\ Unlink(i) /\ rows' = rows
             \/ Head(del.left) = "row" /\ Unlocked
                /\ rows' = [rows EXCEPT ![i] = Gone] /\ UNCHANGED <<disk, stuck>>
          /\ del' = IF rest = <<>> THEN NoDelete ELSE [del EXCEPT !.left = rest]
    /\ UNCHANGED <<live, jan, tx, restarts>>
\* the row cannot be deleted while the janitor has the lock: the request fails
DeleteLocked == /\ del # NoDelete /\ Head(del.left) = "row" /\ ~Unlocked /\ del' = NoDelete
                /\ UNCHANGED <<rows, disk, live, jan, tx, stuck, restarts>>

----------------------------------------------------------------------------
(* _recording_janitor_loop.                                                *)

Oldest(S) == CHOOSE i \in S : \A j \in S : i <= j

\* Mutant: stops one recording early
ByCapShort(S, cap) ==
    LET keep[T \in SUBSET S] == IF Cardinality(T) <= 1 \/ Bytes(T \ {Oldest(T)}) <= cap THEN T
                                ELSE keep[T \ {Oldest(T)}]
    IN S \ keep[S]
\* select_purge_by_cap: the oldest first, until the rest fits
ByCap(S, cap) ==
    LET keep[T \in SUBSET S] == IF Bytes(T) <= cap THEN T ELSE keep[T \ {Oldest(T)}]
    IN S \ keep[S]

ByAge(S) == {i \in S : rows[i].old}
ByUserCap(S) == UNION {ByCap(OfUser(S, u), UserCap) : u \in Users}

Plan(S) == LET a == ByAge(S)
               c == ByCap(S \ a, Cap)
           IN a \cup c \cup ByUserCap(S \ (a \cup c))

JanSelect == /\ jan = Asleep
             /\ LET p == Plan(Finished \ tx) IN p # {} /\ jan' = [pc |-> "sweep", plan |-> p]
             /\ UNCHANGED <<rows, disk, live, del, tx, stuck, restarts>>

JanDelete(i) == /\ jan.pc = "sweep" /\ i \in jan.plan /\ There(i)
                /\ Unlink(i) /\ tx' = tx \cup {i}
                /\ jan' = [jan EXCEPT !.plan = @ \ {i}]
                /\ UNCHANGED <<rows, live, del, restarts>>

\* the row is gone: fetchone() is None, and the exception skips the commit
JanRaises(i) == /\ jan.pc = "sweep" /\ i \in jan.plan /\ ~There(i)
                /\ jan' = Asleep
                /\ UNCHANGED <<rows, disk, live, del, tx, stuck, restarts>>

JanCommit == /\ jan.pc = "sweep" /\ jan.plan = {}
             /\ rows' = [i \in Ids |-> IF i \in tx THEN Gone ELSE rows[i]] /\ tx' = {}
             /\ jan' = Asleep
             /\ UNCHANGED <<disk, live, del, stuck, restarts>>

Janitor == JanSelect \/ (\E i \in Ids : JanDelete(i) \/ JanRaises(i)) \/ JanCommit

\* a crash rolls the transaction back; nothing looks at the rows it leaves
Restart == /\ restarts < MaxRestarts /\ restarts' = restarts + 1
           /\ live' = {} /\ del' = NoDelete /\ jan' = Asleep /\ tx' = {}
           /\ UNCHANGED <<rows, disk, stuck>>

StoreNext == \/ \E u \in Users : Start(u)
             \/ \E i \in Ids : StartFails(i) \/ FinalizeLocked(i) \/ Old(i) \/ Delete(i)
             \/ \E i \in Ids, n \in Sizes : FinalizeRow(i, n)
             \/ DeleteStep \/ DeleteLocked \/ Janitor \/ Restart

StoreFairness == WF_storeVars(JanSelect) /\ WF_storeVars(JanCommit)
            /\ WF_storeVars(\E i \in Ids : JanDelete(i) \/ JanRaises(i))
StoreSpec == StoreInit /\ [][StoreNext]_storeVars /\ StoreFairness

----------------------------------------------------------------------------
Row == [status : {"recording", "finished", "error"}, user : Users,
        size : Sizes \cup {0}, old : BOOLEAN]
StoreTypeOK == /\ rows \in [Ids -> Row \cup {NoRow, Gone}]
               /\ disk \subseteq Ids /\ live \subseteq Ids /\ tx \subseteq Ids /\ stuck \subseteq Ids
               /\ jan \in [pc : {"sleep", "sweep"}, plan : SUBSET Ids]
               /\ del \in {NoDelete} \cup [id : Ids, left : {<<"file", "row">>, <<"row">>}]

\* No file stays on disk once its row is gone, whatever crashes or raises in
\* the middle of a deletion or a sweep: nothing would ever look for it.  Only
\* a file whose removal failed does.
NoOrphanFile == \A i \in disk \ stuck : There(i)

\* The finished recordings on disk over the global or a user's cap are swept
\* until the rest fits, though a sweep may raise half way.  A file that could
\* not be removed counts no more when its row is deleted, or about to be.
OnDisk == (Finished \cap disk) \ tx
Fits == /\ Bytes(OnDisk) <= Cap
        /\ \A u \in Users : Bytes(OfUser(OnDisk, u)) <= UserCap
CapIsRestored == ~Fits ~> Fits

\* get_db: a writer queues behind another thread's transaction and waits it
\* out, so every transaction ends.
LockIsReleased == ~Unlocked ~> Unlocked
=============================================================================
