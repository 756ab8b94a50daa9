--------------------------- MODULE ServicesProofs ---------------------------
(***************************************************************************)
(* Proofs about the consumers of a broadcast's audio and what they leave   *)
(* behind: the jitter buffer for every frame size, cap and pattern of      *)
(* reads; a recording's pipeline for every size of pipe and every set of   *)
(* faults; the store of recordings for every number of users, rows and     *)
(* restarts; the stream relay for every set of targets; the chat relays    *)
(* for every number of connections.                                        *)
(***************************************************************************)
EXTENDS JitterBuffer, Recorder, RecordingStore, StreamRelay, ChatRelay, TLAPS

-----------------------------------------------------------------------------
(***************************************************************************)
(* Recorder.  stop() is run once, by the route or by the watchdog, and its *)
(* progress orders everything else: what is closed, and which process and  *)
(* which thread has ended.  As long as nothing died and no wait timed out, *)
(* each stage ends only when the one before it is over and its pipe empty. *)
(***************************************************************************)
AfterCloseIn == {"waitDecode", "joinPump", "closeOut", "waitEncode", "finalize", "done"}
AfterDecode == AfterCloseIn \ {"waitDecode"}
AfterPump == AfterDecode \ {"joinPump"}
AfterCloseOut == AfterPump \ {"closeOut"}
AfterEncode == AfterCloseOut \ {"waitEncode"}

StopOrder ==
    /\ stopper = "nobody" <=> step = "none"
    /\ ~dinOpen <=> step \in AfterCloseIn
    /\ step \in AfterDecode => decode = "exit"
    /\ ~einOpen <=> step \in AfterCloseOut
    /\ step \in AfterEncode => encode = "exit"
    /\ row = "finished" <=> step = "done"
    /\ finals = IF step = "done" THEN 1 ELSE 0

Faultless == faulted \subseteq {"firstline"}

FlushOrder == Faultless =>
    /\ decode = "exit" => din = 0 /\ ~dinOpen
    /\ pump = "exit" => dout = 0 /\ decode = "exit"
    /\ step \in AfterPump => pump = "exit"
    /\ encode = "exit" => ein = 0 /\ ~einOpen

RouteOrder ==
    /\ route = "stop" => ~attached
    /\ route = "gone" /\ "firstline" \notin faulted => ~attached /\ stopper # "nobody"

RecorderInv == RecorderTypeOK /\ StopOrder /\ FlushOrder /\ RouteOrder

LEMMA InitRecorderInv == RecorderInit => RecorderInv
BY PipeAssumption
   DEF RecorderInit, RecorderInv, RecorderTypeOK, StopOrder, FlushOrder, RouteOrder,
       AfterCloseIn, AfterDecode, AfterPump, AfterCloseOut, AfterEncode

LEMMA NextRecorderInv == RecorderInv /\ [RecorderNext]_recorderVars => RecorderInv'
<1> SUFFICES ASSUME RecorderInv, [RecorderNext]_recorderVars PROVE RecorderInv'
    OBVIOUS
<1> USE PipeAssumption
    DEF RecorderInv, RecorderTypeOK, StopOrder, FlushOrder, RouteOrder, Faultless,
        AfterCloseIn, AfterDecode, AfterPump, AfterCloseOut, AfterEncode,
        stopping, pipes, ends
<1>1. CASE FirstLine \/ GetChunk
    BY <1>1 DEF FirstLine, GetChunk, machinery
<1>19. CASE CheckStopped
    BY <1>19 DEF CheckStopped, machinery
<1>20. CASE RemoveClient
    BY <1>20, ZenonT(60) DEF RemoveClient, machinery
<1>17. CASE GoneAtFirstLine
    BY <1>17 DEF GoneAtFirstLine, RecorderFault
<1>2. CASE Fed
    BY <1>2 DEF Fed, machinery
<1>3. CASE RouteStops \/ RouteEnds
    BY <1>3 DEF RouteStops, RouteEnds, machinery
<1>4. CASE MaxDuration
    BY <1>4 DEF MaxDuration, others
<1>18. CASE WatchdogEnds
    BY <1>18 DEF WatchdogEnds, others
<1>5. CASE CloseDecodeIn
    <2>1. /\ step = "closeIn" /\ step' = "waitDecode" /\ dinOpen' = FALSE
          /\ UNCHANGED <<route, attached, watchdog, stopper, decode, encode, pump, din, dout,
                         ein, einOpen, row, finals, faulted>>
        BY <1>5 DEF CloseDecodeIn, GoOn
    <2>2. RecorderTypeOK'
        BY <2>1, ZenonT(60)
    <2>4. StopOrder'
        BY <2>1, ZenonT(60)
    <2>3. FlushOrder' /\ RouteOrder'
        BY <2>1
    <2> QED BY <2>2, <2>3, <2>4
<1>6. CASE WaitDecode
    BY <1>6 DEF WaitDecode, GoOn, EndsOrTimesOut, RecorderFault
<1>7. CASE JoinPump
    BY <1>7 DEF JoinPump, GoOn, EndsOrTimesOut, RecorderFault
<1>8. CASE CloseEncodeIn
    BY <1>8, ZenonT(60) DEF CloseEncodeIn, GoOn
<1>9. CASE WaitEncode
    BY <1>9 DEF WaitEncode, GoOn, EndsOrTimesOut, RecorderFault
<1>10. CASE Finalize
    BY <1>10 DEF Finalize, GoOn
<1>11. CASE Decode \/ DecodeEnds
    BY <1>11 DEF Decode, DecodeEnds, threads
<1>12. CASE PumpReads
    BY <1>12 DEF PumpReads, threads
<1>13. CASE PumpWrites
    BY <1>13 DEF PumpWrites, threads
<1>14. CASE Encode \/ EncodeEnds
    BY <1>14 DEF Encode, EncodeEnds, threads
<1>15. CASE DecodeDies \/ EncodeDies
    BY <1>15 DEF DecodeDies, EncodeDies, RecorderFault
<1>16. CASE UNCHANGED recorderVars
    BY <1>16 DEF recorderVars
<1> HIDE DEF RecorderInv
<1> QED
    BY <1>1, <1>2, <1>3, <1>4, <1>5, <1>6, <1>7, <1>8, <1>9, <1>10, <1>11, <1>12,
       <1>13, <1>14, <1>15, <1>16, <1>17, <1>18, <1>19,
       <1>20
       DEF RecorderNext, Route, StopRecorder, Processes

LEMMA RecorderInvariance == RecorderSpec => []RecorderInv
BY InitRecorderInv, NextRecorderInv, PTL DEF RecorderSpec

(* Types of a recording's state.                                           *)
THEOREM RecorderTypes == RecorderSpec => []RecorderTypeOK
BY RecorderInvariance, PTL DEF RecorderInv

(* A recording is flushed through both processes before its row says       *)
(* "finished", finalized once, and detached from its node when the         *)
(* response is over, whoever stops it and whatever dies meanwhile.         *)
THEOREM RecordingStopsCleanly == RecorderSpec => []StopIsClean
<1>1. RecorderInv => StopIsClean
    BY DEF RecorderInv, RecorderTypeOK, StopOrder, FlushOrder, RouteOrder, Faultless,
           AfterCloseIn, AfterDecode, AfterPump, AfterCloseOut, AfterEncode,
           StopIsClean, FlushedBeforeFinal, FinalizedOnce, EndOfResponseDetaches
<1> QED BY <1>1, RecorderInvariance, PTL

-----------------------------------------------------------------------------
(***************************************************************************)
(* RecordingStore.  A file belongs to its row until a deletion or a sweep  *)
(* has taken it from the disk: only then does the row go.  What a sweep    *)
(* plans or has deleted is a finished recording, though its row may be     *)
(* gone by then; what is being written is not.                             *)
(***************************************************************************)
StatusOf(i, S) == rows[i].status \in S

DeletionOrder ==
    del # NoDelete =>
        /\ StatusOf(del.id, {"finished", "error", "gone"})
        /\ del.left = <<"row">> => del.id \notin disk \ stuck

SweepOrder ==
    /\ \A i \in jan.plan : StatusOf(i, {"finished", "gone"})
    /\ \A i \in tx : StatusOf(i, {"finished", "gone"}) /\ i \notin disk \ stuck

StoreInv ==
    /\ StoreTypeOK
    /\ \A i \in live : StatusOf(i, {"recording"})
    /\ DeletionOrder /\ SweepOrder /\ NoOrphanFile

(* A sweep plans recordings that are there and finished.                   *)
LEMMA PlanIsFinished == \A S : Plan(S) \subseteq S
<1>1. \A S, cap : ByCap(S, cap) \subseteq S
    BY DEF ByCap
<1>2. \A S, u : ByCap(OfUser(S, u), UserCap) \subseteq S
    BY <1>1 DEF OfUser
<1>3. \A S : ByUserCap(S) \subseteq S
    BY <1>2 DEF ByUserCap
<1> QED BY <1>1, <1>3 DEF Plan, ByAge

LEMMA InitStoreInv == StoreInit => StoreInv
BY DEF StoreInit, StoreInv, StoreTypeOK, StatusOf, DeletionOrder, SweepOrder,
       NoOrphanFile, Asleep, NoDelete, NoRow, Row, Ids

LEMMA NextStoreInv == StoreInv /\ [StoreNext]_storeVars => StoreInv'
<1> SUFFICES ASSUME StoreInv, [StoreNext]_storeVars PROVE StoreInv'
    OBVIOUS
<1> USE DEF StoreInv, StoreTypeOK, StatusOf, DeletionOrder, SweepOrder, NoOrphanFile,
            Row, There, NoRow, Gone, NoDelete, Asleep
<1>1. ASSUME NEW u \in Users, Start(u) PROVE StoreInv'
    BY <1>1 DEF Start
<1>2. ASSUME NEW i \in Ids, StartFails(i) PROVE StoreInv'
    BY <1>2 DEF StartFails
<1>3. ASSUME NEW i \in Ids, NEW n \in Sizes, FinalizeRow(i, n) PROVE StoreInv'
    <2>1. rows[i] \in Row
        BY <1>3 DEF FinalizeRow
    <2>2. PICK r \in Row : r.status = "finished" /\ rows' = [rows EXCEPT ![i] = r]
        <3> DEFINE r == [rows[i] EXCEPT !.status = "finished", !.size = n]
        <3>1. r \in Row /\ r.status = "finished" BY <2>1
        <3>2. rows' = [rows EXCEPT ![i] = r] BY <1>3, ZenonT(60) DEF FinalizeRow
        <3> QED BY <3>1, <3>2
    <2>3. /\ rows' \in [Ids -> Row \cup {NoRow, Gone}] /\ rows'[i].status = "finished"
          /\ \A j \in Ids \ {i} : rows'[j] = rows[j]
        BY <2>2
    <2>4. i \in live /\ live' = live \ {i}
        BY <1>3 DEF FinalizeRow
    <2>6. There(i) /\ There(i)'
        BY <2>1, <2>2, <2>3
    <2>5. DeletionOrder' /\ SweepOrder' /\ NoOrphanFile'
        BY <1>3, <2>3, <2>4, <2>6 DEF FinalizeRow
    <2> QED BY <1>3, <2>3, <2>4, <2>5 DEF FinalizeRow
<1>4. ASSUME NEW i \in Ids, FinalizeLocked(i) PROVE StoreInv'
    BY <1>4 DEF FinalizeLocked
<1>5. ASSUME NEW i \in Ids, Old(i) PROVE StoreInv'
    <2>1. rows[i] \in Row
        BY <1>5 DEF Old
    <2>2. PICK r \in Row : r.status = rows[i].status /\ rows' = [rows EXCEPT ![i] = r]
        <3> DEFINE r == [rows[i] EXCEPT !.old = TRUE]
        <3>1. r \in Row /\ r.status = rows[i].status BY <2>1
        <3>2. rows' = [rows EXCEPT ![i] = r] BY <1>5 DEF Old
        <3> QED BY <3>1, <3>2
    <2>3. /\ rows' \in [Ids -> Row \cup {NoRow, Gone}] /\ There(i) /\ There(i)'
          /\ \A j \in Ids : rows'[j].status = rows[j].status
          /\ \A j \in Ids \ {i} : rows'[j] = rows[j]
        BY <2>1, <2>2
    <2>4. UNCHANGED <<disk, live, del, jan, tx, stuck>>
        BY <1>5 DEF Old
    <2>5. DeletionOrder' /\ SweepOrder' /\ NoOrphanFile'
        BY <2>3, <2>4
    <2> QED BY <2>3, <2>4, <2>5
<1>6. ASSUME NEW i \in Ids, Delete(i) PROVE StoreInv'
    BY <1>6 DEF Delete, DeleteSteps
<1>7. ASSUME DeleteStep PROVE StoreInv'
    <2>1. del \in [id : Ids, left : {<<"file", "row">>, <<"row">>}]
        BY <1>7 DEF DeleteStep
    <2>2. /\ Head(<<"file", "row">>) = "file" /\ Tail(<<"file", "row">>) = <<"row">>
          /\ Head(<<"row">>) = "row" /\ Tail(<<"row">>) = <<>>
        OBVIOUS
    <2>3. CASE del.left = <<"file", "row">>
        <3>1. /\ Unlink(del.id) /\ rows' = rows
              /\ del' = [del EXCEPT !.left = <<"row">>]
              /\ UNCHANGED <<live, jan, tx>>
            BY <1>7, <2>2, <2>3 DEF DeleteStep
        <3>2. del.id \in Ids /\ del'.id = del.id
            BY <2>1, <3>1
        <3>3. /\ disk' \subseteq Ids /\ stuck' \subseteq Ids
              /\ disk' \ stuck' \subseteq disk \ stuck /\ del.id \notin disk' \ stuck'
            BY <3>1, <3>2 DEF Unlink
        <3> QED BY <2>1, <3>1, <3>2, <3>3, SMTT(20)
    <2>4. CASE del.left = <<"row">>
        <3>1. /\ disk' = disk /\ stuck' = stuck /\ tx = {} /\ rows' = [rows EXCEPT ![del.id] = Gone]
              /\ del' = NoDelete /\ UNCHANGED <<live, jan, tx>>
            BY <1>7, <2>2, <2>4 DEF DeleteStep, Unlocked
        <3> QED BY <2>1, <2>4, <3>1, SMTT(20)
    <2> QED BY <2>1, <2>3, <2>4
<1>8. ASSUME DeleteLocked PROVE StoreInv'
    BY <1>8 DEF DeleteLocked
<1>9. ASSUME JanSelect PROVE StoreInv'
    BY <1>9, PlanIsFinished DEF JanSelect, Finished
<1>10. ASSUME NEW i \in Ids, JanDelete(i) PROVE StoreInv'
    <2>1. /\ disk' \subseteq Ids /\ stuck' \subseteq Ids
          /\ disk' \ stuck' \subseteq disk \ stuck /\ i \notin disk' \ stuck'
        BY <1>10 DEF JanDelete, Unlink
    <2> QED BY <1>10, <2>1 DEF JanDelete
<1>11. ASSUME NEW i \in Ids, JanRaises(i) PROVE StoreInv'
    BY <1>11 DEF JanRaises
<1>12. ASSUME JanCommit PROVE StoreInv'
    BY <1>12 DEF JanCommit
<1>13. ASSUME Restart PROVE StoreInv'
    BY <1>13 DEF Restart
<1>14. ASSUME UNCHANGED storeVars PROVE StoreInv'
    BY <1>14 DEF storeVars
<1> HIDE DEF StoreInv
<1> QED
    BY <1>1, <1>2, <1>3, <1>4, <1>5, <1>6, <1>7, <1>8, <1>9, <1>10, <1>11, <1>12,
       <1>13, <1>14
       DEF StoreNext, Janitor

LEMMA StoreInvariance == StoreSpec => []StoreInv
BY InitStoreInv, NextStoreInv, PTL DEF StoreSpec

(* Types of the store's state.                                             *)
THEOREM StoreTypes == StoreSpec => []StoreTypeOK
BY StoreInvariance, PTL DEF StoreInv

(* Whatever crashes or raises in the middle of a deletion or a sweep, no   *)
(* file stays on disk whose row is gone, but one whose removal failed.     *)
THEOREM FilesHaveRows == StoreSpec => []NoOrphanFile
BY StoreInvariance, PTL DEF StoreInv

-----------------------------------------------------------------------------
(***************************************************************************)
(* StreamRelay.  The loop adds a queue when it attaches and takes it back  *)
(* on the one way out of a session; a session that could not be built is   *)
(* the exception, and is counted.                                          *)
(***************************************************************************)
RelayInv ==
    /\ RelayTypeOK
    /\ listed \in Nat /\ leaked \in Nat
    /\ loop \in {"idle", "attached"} => todo = {} /\ relayPump = "none"
    /\ OneClient

LEMMA InitRelayInv == RelayInit => RelayInv
BY DEF RelayInit, RelayInv, RelayTypeOK, OneClient, NoSession, Loops

LEMMA NextRelayInv == RelayInv /\ [RelayNext]_relayVars => RelayInv'
<1> SUFFICES ASSUME RelayInv, [RelayNext]_relayVars PROVE RelayInv'
    OBVIOUS
<1> USE DEF RelayInv, RelayTypeOK, OneClient, Loops, session, relay, queues
<1>1. CASE Attach \/ Build
    BY <1>1 DEF Attach, Build
<1>2. CASE BuildFails
    BY <1>2 DEF BuildFails, RelayFault
<1>3. CASE Take \/ NoChunk \/ Ended
    BY <1>3 DEF Take, NoChunk, Ended
<1>4. CASE Feed
    BY <1>4 DEF Feed
<1>5. CASE Check \/ Unhealthy \/ Changed
    BY <1>5 DEF Check, Unhealthy, Changed
<1>6. CASE Detach
    BY <1>6 DEF Detach, Detached
<1>7. CASE Joined \/ Close
    BY <1>7 DEF Joined, Close
<1>8. CASE RelayPumpReads \/ RelayPumpEnds
    BY <1>8 DEF RelayPumpReads, RelayPumpEnds
<1>9. ASSUME NEW t \in Targets, RelayPumpWrites(t) PROVE RelayInv'
    BY <1>9 DEF RelayPumpWrites
<1>10. CASE SourceEnds \/ DecoderExits \/ DecoderEnds
    BY <1>10 DEF SourceEnds, DecoderExits, DecoderEnds, RelayFault
<1>11. ASSUME NEW t \in Targets, EncoderStuck(t) \/ EncoderCrashes(t) PROVE RelayInv'
    BY <1>11 DEF EncoderStuck, EncoderCrashes, RelayFault
<1>12. ASSUME NEW t \in Targets, EncoderGivesUp(t) \/ EncoderReads(t) PROVE RelayInv'
    BY <1>12 DEF EncoderGivesUp, EncoderReads
<1>13. CASE Save
    BY <1>13 DEF Save
<1>14. CASE UNCHANGED relayVars
    BY <1>14 DEF relayVars
<1> HIDE DEF RelayInv
<1> QED
    BY <1>1, <1>2, <1>3, <1>4, <1>5, <1>6, <1>7, <1>8, <1>9, <1>10, <1>11, <1>12,
       <1>13, <1>14
       DEF RelayNext, Looping, Pumping, Network, RelayProcesses

LEMMA RelayInvariance == RelaySpec => []RelayInv
BY InitRelayInv, NextRelayInv, PTL DEF RelaySpec

(* Types of the stream relay's state.                                      *)
THEOREM RelayTypes == RelaySpec => []RelayTypeOK
BY RelayInvariance, PTL DEF RelayInv

(* The broadcast lists one queue of the relay while a session is up and    *)
(* none otherwise, but for the queues of sessions that could not be built. *)
THEOREM RelayHasOneClient == RelaySpec => []OneClient
BY RelayInvariance, PTL DEF RelayInv

-----------------------------------------------------------------------------
(***************************************************************************)
(* ChatRelay.  Only the connection at hand can be open, from its           *)
(* registration until the loop closes it, and only it can be offered.      *)
(***************************************************************************)
ConnectionAtHand ==
    /\ \A c \in Clients : client[c].sock = "open" =>
          c = cur /\ ircLoop \in {"join", "read", "raised", "returned"}
    /\ ref # 0 => ref = cur /\ ircLoop \in {"read", "returned"}
    /\ ircLoop \notin {"config", "sleep"} => cur \in Clients

ChatInv == ChatTypeOK /\ ConnectionAtHand

(* What is queued for a sender stays a sequence of lines and sentinels,    *)
(* and a closed connection is a connection.                                *)
LEMMA QueueOps ==
    ASSUME NEW q \in Seq({Quit, Line})
    PROVE  /\ \A e \in {Quit, Line} : Append(q, e) \in Seq({Quit, Line})
           /\ q # <<>> => Tail(q) \in Seq({Quit, Line})
OBVIOUS

LEMMA ClosedConnection ==
    ASSUME NEW c \in Connection
    PROVE  Closed(c) \in Connection /\ Closed(c).sock # "open"
<1>1. Append(c.queue, Quit) \in Seq({Quit, Line})
    BY QueueOps DEF Connection
<1> QED BY <1>1 DEF Connection, Closed

LEMMA InitChatInv == ChatInit => ChatInv
BY QueueAssumption
   DEF ChatInit, ChatInv, ChatTypeOK, ConnectionAtHand, Connection, Unmade, Clients

LEMMA NextChatInv == ChatInv /\ [ChatNext]_chatVars => ChatInv'
<1> SUFFICES ASSUME ChatInv, [ChatNext]_chatVars PROVE ChatInv'
    OBVIOUS
<1> USE QueueAssumption DEF ChatInv, ChatTypeOK, ConnectionAtHand, Clients, chat
<1>1. CASE Config \/ Disabled \/ Wakes
    BY <1>1 DEF Config, Disabled, Wakes
<1>2. CASE Registers
    <2>1. cur \in Clients /\ client[cur] \in Connection
        BY <1>2 DEF Registers
    <2>2. [client[cur] EXCEPT !.sock = "open", !.sender = "get"] \in Connection
        BY <2>1 DEF Connection
    <2>3. /\ client' \in [Clients -> Connection]
          /\ \A c \in Clients \ {cur} : client'[c] = client[c]
        BY <1>2, <2>1, <2>2 DEF Registers
    <2> QED BY <1>2, <2>1, <2>3 DEF Registers
<1>3. CASE ConnectFails
    <2>1. PICK s \in {"none", "open"} : client' = [client EXCEPT ![cur].sock = s]
        BY <1>3 DEF ConnectFails
    <2>4. cur \in Clients /\ client[cur] \in Connection
        BY <1>3 DEF ConnectFails
    <2>2. [client[cur] EXCEPT !.sock = s] \in Connection
        BY <2>4 DEF Connection
    <2>3. /\ cur \in Clients /\ client' \in [Clients -> Connection]
          /\ \A c \in Clients \ {cur} : client'[c] = client[c]
        BY <2>1, <2>2, <2>4
    <2> QED BY <1>3, <2>3 DEF ConnectFails
<1>4. CASE Joins \/ JoinFails \/ ReadEnds
    BY <1>4 DEF Joins, JoinFails, ReadEnds
<1>5. CASE Raised
    <2>1. cur \in Clients /\ client' = [client EXCEPT ![cur] = Closed(@)]
        BY <1>5 DEF Raised, CloseAfterRaise
    <2>2. /\ client' \in [Clients -> Connection] /\ client'[cur].sock # "open"
          /\ \A c \in Clients \ {cur} : client'[c] = client[c]
        BY <2>1, ClosedConnection
    <2> QED BY <1>5, <2>1, <2>2 DEF Raised
<1>6. CASE Returned
    <2>1. cur \in Clients /\ client' = [client EXCEPT ![cur] = Closed(@)]
        BY <1>6 DEF Returned, CloseAfterRead
    <2>2. /\ client' \in [Clients -> Connection] /\ client'[cur].sock # "open"
          /\ \A c \in Clients \ {cur} : client'[c] = client[c]
        BY <2>1, ClosedConnection
    <2> QED BY <1>6, <2>1, <2>2 DEF Returned
<1>7. ASSUME NEW c \in Clients, SenderTakes(c) PROVE ChatInv'
    <2> DEFINE next == IF Head(client[c].queue) = Quit THEN "done" ELSE "send"
               new == [client[c] EXCEPT !.queue = Tail(@), !.sender = next]
    <2>1. client[c] \in Connection /\ Tail(client[c].queue) \in Seq({Quit, Line})
        BY <1>7, QueueOps DEF SenderTakes, Connection
    <2>2. new \in Connection /\ new.sock = client[c].sock
        BY <2>1 DEF Connection
    <2>3. client' = [client EXCEPT ![c] = new]
        BY <1>7 DEF SenderTakes
    <2> HIDE DEF new
    <2>4. /\ client' \in [Clients -> Connection]
          /\ \A d \in Clients : client'[d].sock = client[d].sock
        BY <2>2, <2>3
    <2> QED BY <1>7, <2>4 DEF SenderTakes
<1>8. ASSUME NEW c \in Clients, SenderSends(c) PROVE ChatInv'
    <2>1. PICK new \in Connection : /\ client' = [client EXCEPT ![c] = new]
                                   /\ new.sock = client[c].sock
        <3> DEFINE sent == [client[c] EXCEPT !.sender = IF client[c].dead THEN "done" ELSE "get"]
                   lost == [client[c] EXCEPT !.sender = "done", !.dead = TRUE]
        <3>1. /\ sent \in Connection /\ sent.sock = client[c].sock
              /\ lost \in Connection /\ lost.sock = client[c].sock
            BY DEF Connection
        <3>2. client' = [client EXCEPT ![c] = sent] \/ client' = [client EXCEPT ![c] = lost]
            BY <1>8 DEF SenderSends
        <3> QED BY <3>1, <3>2
    <2> QED BY <1>8, <2>1 DEF SenderSends
<1>9. CASE Post
    BY <1>9 DEF Post, Offered
<1>14. CASE DiscordWorks
    BY <1>14 DEF DiscordWorks
<1>10. CASE WorkerTakes
    BY <1>10 DEF WorkerTakes
<1>11. CASE WorkerSends
    <2>1. worker \in Clients /\ client' = [client EXCEPT ![worker].queue = Append(@, Line)]
        BY <1>11 DEF WorkerSends
    <2> DEFINE new == [client[worker] EXCEPT !.queue = Append(@, Line)]
    <2>4. client[worker] \in Connection /\ Append(client[worker].queue, Line) \in Seq({Quit, Line})
        BY <2>1, QueueOps DEF Connection
    <2>2. new \in Connection /\ new.sock = client[worker].sock
        BY <2>4 DEF Connection
    <2>3. client' = [client EXCEPT ![worker] = new]
        BY <2>1
    <2>5. /\ client' \in [Clients -> Connection]
          /\ \A c \in Clients : client'[c].sock = client[c].sock
        BY <2>1, <2>2, <2>3
    <2> HIDE DEF new
    <2> QED BY <1>11, <2>5 DEF WorkerSends
<1>12. CASE SaveConfig
    BY <1>12 DEF SaveConfig
<1>13. CASE UNCHANGED chatVars
    BY <1>13 DEF chatVars
<1> HIDE DEF ChatInv
<1> QED
    BY <1>1, <1>2, <1>3, <1>4, <1>5, <1>6, <1>7, <1>8, <1>9, <1>10, <1>11, <1>12,
       <1>13, <1>14
       DEF ChatNext, Loop, Sender

LEMMA ChatInvariance == ChatSpec => []ChatInv
BY InitChatInv, NextChatInv, PTL DEF ChatSpec

(* Types of the chat relays' state.                                        *)
THEOREM ChatTypes == ChatSpec => []ChatTypeOK
BY ChatInvariance, PTL DEF ChatInv

(* Between two connections no socket is open and no message can be handed  *)
(* to the last one, however connecting, joining or reading ended.          *)
THEOREM NoConnectionLeft == ChatSpec => []NothingLeftOpen
<1>1. ChatInv => NothingLeftOpen
    BY DEF ChatInv, ConnectionAtHand, NothingLeftOpen
<1> QED BY <1>1, ChatInvariance, PTL

-----------------------------------------------------------------------------
(***************************************************************************)
(* JitterBuffer.  What was received, where the buffer starts and where a   *)
(* frame was cut are whole samples.                                        *)
(***************************************************************************)
Even(n) == n % SampleBytes = 0

(* After a frame of audio the buffer starts where that frame ended.        *)
PlayoutInv ==
    /\ TypeOK
    /\ LatencyBounded
    /\ Even(received) /\ Even(head) /\ Even(out.from)
    /\ wasReal = out.real
    /\ wasReal => head = end

USE FrameAssumption, ReadsAssumption

(* Whole samples stay whole samples when added or subtracted.              *)
LEMMA EvenSums == \A a, b \in Nat : Even(a) /\ Even(b) => Even(a + b) /\ (b <= a => Even(a - b))
BY DEF Even, SampleBytes

(* What the drop leaves fits the cap and starts on a sample.               *)
LEMMA KeepFacts ==
    ASSUME NEW h \in Nat, NEW r \in Nat, h <= r, Even(h), Even(r)
    PROVE  /\ Keep(h, r) \in h .. r
           /\ r - Keep(h, r) <= MaxBufBytes
           /\ Even(Keep(h, r))
           /\ Keep(h, r) # h => r - Keep(h, r) = MaxBufBytes
<1>1. Even(MaxBufBytes)
  BY SamplesAssumption DEF Even
<1>2. CASE r - h > MaxBufBytes
  <2>1. MaxBufBytes <= r /\ Keep(h, r) = r - MaxBufBytes
    BY <1>2 DEF Keep
  <2>2. Even(r - MaxBufBytes)
    BY <1>1, <2>1, EvenSums
  <2> QED BY <1>2, <2>1, <2>2
<1>3. CASE ~(r - h > MaxBufBytes)
  BY <1>3 DEF Keep
<1> QED BY <1>2, <1>3

LEMMA InitPlayoutInv == Init => PlayoutInv
<1>1. Even(0)
  BY DEF Even, SampleBytes
<1>2. MaxBufBytes \in Nat /\ FrameBytes \in Nat
  OBVIOUS
<1> SUFFICES ASSUME Init PROVE PlayoutInv
  OBVIOUS
<1>3. out \in [real : BOOLEAN, from : Nat, faded : BOOLEAN]
  BY DEF Init
<1>4. TypeOK
  BY <1>3 DEF Init, TypeOK
<1>5. LatencyBounded
  BY <1>2 DEF Init, LatencyBounded
<1>6. wasReal = out.real /\ wasReal = FALSE /\ out.from = 0
  BY DEF Init
<1> QED BY <1>1, <1>4, <1>5, <1>6 DEF PlayoutInv, Init

(* One slot keeps the invariant, and fades at splices and nowhere else.    *)
LEMMA EmitStep ==
    ASSUME PlayoutInv, NEW n \in Reads, Emit(received + n), running' \in BOOLEAN
    PROVE  PlayoutInv' /\ (out'.faded <=> ~Continues)
<1> DEFINE r == received + n
           from == Keep(head, r)
           real == r - from >= FrameBytes
<1>1. r \in Nat /\ head \in Nat /\ head <= r /\ Even(head) /\ Even(r)
  BY SamplesAssumption, EvenSums DEF PlayoutInv, TypeOK, LatencyBounded, Even
<1>2. /\ from \in head .. r /\ r - from <= MaxBufBytes /\ Even(from)
      /\ from # head => r - from = MaxBufBytes
  BY <1>1, KeepFacts
<1>3. /\ received' = r
      /\ head' = IF real THEN from + FrameBytes ELSE from
      /\ end' = IF real THEN from + FrameBytes ELSE end
      /\ wasReal' = real
      /\ out' = [real |-> real, from |-> from, faded |-> from # head \/ real # wasReal]
  BY DEF Emit
<1> HIDE DEF r, from
<1>4. Even(head')
  <2>1. Even(FrameBytes)
    BY SamplesAssumption DEF Even
  <2>2. from \in Nat /\ Even(from + FrameBytes)
    BY <1>1, <1>2, <2>1, EvenSums
  <2> QED BY <1>2, <1>3, <2>2
<1>5. PlayoutInv'
  BY <1>1, <1>2, <1>3, <1>4 DEF PlayoutInv, TypeOK, LatencyBounded
<1>6. from # head => real
  BY <1>1, <1>2
<1>7. out'.faded <=> ~Continues
  BY <1>1, <1>2, <1>3, <1>6 DEF Continues, PlayoutInv, TypeOK
<1> QED BY <1>5, <1>7

LEMMA NextPlayoutInv ==
    ASSUME PlayoutInv, [Next]_vars
    PROVE  PlayoutInv'
<1>1. ASSUME NEW n \in Reads, Slot(n) \/ LastSlot(n) PROVE PlayoutInv'
  BY <1>1, EmitStep DEF Slot, LastSlot, PlayoutInv, TypeOK
<1>2. CASE Stop
  BY <1>2 DEF Stop, PlayoutInv, TypeOK, LatencyBounded
<1>3. CASE UNCHANGED vars
  BY <1>3 DEF vars, PlayoutInv, TypeOK, LatencyBounded
<1> QED BY <1>1, <1>2, <1>3 DEF Next

(* Types of the jitter buffer's state.                                     *)
THEOREM PlayoutTypes == Spec => []TypeOK
BY InitPlayoutInv, NextPlayoutInv, PTL DEF Spec, PlayoutInv

(* The backlog stays within MAX_BUF_BYTES, in whatever lumps audio comes.  *)
THEOREM Latency == Spec => []LatencyBounded
BY InitPlayoutInv, NextPlayoutInv, PTL DEF Spec, PlayoutInv

(* Frame boundaries fall on sample boundaries.                             *)
THEOREM Aligned == Spec => []SampleAligned
<1>1. PlayoutInv => SampleAligned
  BY DEF PlayoutInv, SampleAligned, Even
<1> QED BY <1>1, InitPlayoutInv, NextPlayoutInv, PTL DEF Spec

(* A frame is faded exactly where it does not continue its predecessor.    *)
THEOREM Faded == Spec => FadedAtSplices
<1>1. ASSUME PlayoutInv, [Next]_vars
      PROVE  [received' # received \/ out' # out => (out'.faded <=> ~Continues)]_vars
  <2>1. ASSUME NEW n \in Reads, Slot(n) \/ LastSlot(n) PROVE out'.faded <=> ~Continues
    BY <1>1, <2>1, EmitStep DEF Slot, LastSlot, PlayoutInv, TypeOK
  <2>2. CASE Stop \/ UNCHANGED vars
    BY <2>2 DEF Stop, vars
  <2> QED BY <1>1, <2>1, <2>2 DEF Next
<1> QED BY <1>1, InitPlayoutInv, NextPlayoutInv, PTL DEF Spec, FadedAtSplices

(* What the run checks of the playout.                                     *)
THEOREM PlaysOut == Spec => Playout
BY Latency, Aligned, Faded, PTL DEF Playout
=============================================================================
