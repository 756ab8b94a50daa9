------------------------ MODULE AudioBroadcastProofs ------------------------
(***************************************************************************)
(* Proofs about AudioBroadcast for every set of nodes, consumers, reapers  *)
(* and broadcast identities, and for every setting of the failure switches.*)
(***************************************************************************)
EXTENDS AudioBroadcast, TLAPS


(***************************************************************************)
(* The inductive invariant.  Only a starter holds _audio_lock from one     *)
(* step to the next, so everything a starter decided stays true until it   *)
(* lets go: that its node has no reusable broadcast, and that nobody else  *)
(* has seen the broadcast it is building.                                  *)
(***************************************************************************)
StarterPCs == {"monitor", "started", "mark"}
TeardownPCs == {"unregister", "sentinel", "clear", "processes", "capture"}

LockHolder ==
    /\ \A c \in Consumers : pc[c] \in {"locked", "monitor", "started"} => lock = c
    /\ lock # None => /\ lock \in Consumers
                      /\ pc[lock] \in {"locked", "monitor", "started", "mark", "unregister"}

StarterAlone ==
    \A c \in Consumers : lock = c /\ pc[c] \in StarterPCs =>
        /\ want[c] \in Nodes /\ bnode[mine[c]] = want[c] /\ ~Reusable(want[c])
        /\ mine[c] \in Gens \ dead /\ clients[mine[c]] = {}
        /\ \A n \in Nodes : active[n] # mine[c]
        /\ \A t \in Threads : t # c => mine[t] # mine[c]
        /\ \A r \in Reapers : mine[c] \notin todo[r]

OnlyCreated ==
    /\ \A t \in Threads : mine[t] # None => bnode[mine[t]] # None
    /\ \A n \in Nodes : active[n] # None => bnode[active[n]] = n
    /\ \A r \in Reapers : \A g \in todo[r] : bnode[g] # None
    /\ \A g \in Gens : clients[g] # {} \/ g \in dead => bnode[g] # None

OneTeardown ==
    /\ \A t \in Threads : pc[t] \in TeardownPCs => mine[t] \in dead
    /\ \A t, u \in Threads :
          pc[t] \in TeardownPCs /\ pc[u] \in TeardownPCs /\ mine[t] = mine[u] => t = u

(* ListedOrTold, from the moment the queue is added; only the stress test  *)
(* keeps a reference without one.                                          *)
Told ==
    /\ \A c \in Consumers : pc[c] = "handle" => c \in Stressors
    /\ \A c \in Consumers \ Stressors : pc[c] \in {"setup", "listening"} =>
          \/ c \in eof
          \/ /\ c \in clients[mine[c]]
             /\ mine[c] \in dead => \E t \in Threads :
                   mine[t] = mine[c] /\ pc[t] \in {"unregister", "sentinel"}

IInv == /\ TypeOK /\ LockHolder /\ StarterAlone /\ OnlyCreated /\ OneTeardown
        /\ NoOrphanBroadcast /\ LiveHasFifo /\ Told

USE ConsumersAssumption, PidAssumption
    DEF Threads, ShutdownPCs, HoldingPCs, ConsumerPCs, ReaperPCs,
        registry, objects, outside, locals, asterisk, At, Goto

(* The type invariant is inductive.                                        *)
LEMMA TypeInit == Init => TypeOK
BY DEF Init, TypeOK

LEMMA TypeStep == TypeOK /\ [Next]_vars => TypeOK'
<1> SUFFICES ASSUME TypeOK, [Next]_vars PROVE TypeOK'
    OBVIOUS
<1> USE DEF TypeOK
<1>1. ASSUME NEW c \in Consumers, NEW n \in Nodes, Request(c, n) PROVE TypeOK'
    BY <1>1 DEF Request
<1>2. ASSUME NEW c \in Consumers, JoinExisting(c) PROVE TypeOK'
    BY <1>2 DEF JoinExisting, Attach, AddClient, Reusable
<1>3. ASSUME NEW c \in Consumers, StartFails(c) PROVE TypeOK'
    BY <1>3 DEF StartFails
<1>4. ASSUME NEW c \in Consumers, NEW g \in Gens, CreateWithTap(c, g) PROVE TypeOK'
    BY <1>4 DEF CreateWithTap, CreateObject, FifoPath
<1>5. ASSUME NEW c \in Consumers, NEW g \in Gens, CreateForMonitor(c, g) PROVE TypeOK'
    BY <1>5 DEF CreateForMonitor, CreateObject, FifoPath
<1>6. ASSUME NEW c \in Consumers, NEW b \in BOOLEAN, StartMixMonitor(c, b) PROVE TypeOK'
    BY <1>6 DEF StartMixMonitor
<1>7. ASSUME NEW c \in Consumers, NEW b \in BOOLEAN, MixMonitorFails(c, b) PROVE TypeOK'
    BY <1>7 DEF MixMonitorFails
<1>8. ASSUME NEW c \in Consumers, Register(c) PROVE TypeOK'
    BY <1>8 DEF Register, Attach, AddClient
<1>9. ASSUME NEW c \in Consumers, StressJoin(c) PROVE TypeOK'
    BY <1>9 DEF StressJoin, AddClient
<1>10. ASSUME NEW c \in Consumers, SetupDone(c) PROVE TypeOK'
    BY <1>10 DEF SetupDone
<1>11. ASSUME NEW c \in Consumers, SetupRaises(c) PROVE TypeOK'
    BY <1>11 DEF SetupRaises
<1>12. ASSUME NEW c \in Consumers, SetupFails(c) PROVE TypeOK'
    BY <1>12 DEF SetupFails, RemoveClient
<1>13. ASSUME NEW c \in Consumers, TakeEof(c) PROVE TypeOK'
    BY <1>13 DEF TakeEof, RemoveClient
<1>14. ASSUME NEW c \in Consumers, Disconnect(c) PROVE TypeOK'
    BY <1>14 DEF Disconnect, RemoveClient
<1>15. ASSUME NEW r \in Reapers, SamplePid(r) PROVE TypeOK'
    BY <1>15 DEF SamplePid
<1>16. ASSUME NEW r \in Reapers, SettingsChanged(r) PROVE TypeOK'
    BY <1>16 DEF SettingsChanged
<1>17. ASSUME NEW r \in Reapers, Snapshot(r) PROVE TypeOK'
    BY <1>17 DEF Snapshot
<1>18. ASSUME NEW r \in Reapers, NEW g \in Gens, ReapNext(r, g) PROVE TypeOK'
    BY <1>18 DEF ReapNext
<1>19. ASSUME NEW r \in Reapers, ReapDone(r) PROVE TypeOK'
    BY <1>19 DEF ReapDone
<1>20. ASSUME NEW t \in Threads, MarkDead(t) PROVE TypeOK'
    BY <1>20 DEF MarkDead
<1>21. ASSUME NEW t \in Threads, AlreadyDead(t) PROVE TypeOK'
    BY <1>21 DEF AlreadyDead, Return, Resume
<1>22. ASSUME NEW t \in Threads, Unregister(t) PROVE TypeOK'
    BY <1>22 DEF Unregister
<1>23. ASSUME NEW t \in Threads, FanoutSentinel(t) PROVE TypeOK'
    BY <1>23 DEF FanoutSentinel
<1>24. ASSUME NEW t \in Threads, ClearClients(t) PROVE TypeOK'
    BY <1>24 DEF ClearClients
<1>25. ASSUME NEW t \in Threads, StopProcesses(t) PROVE TypeOK'
    BY <1>25 DEF StopProcesses
<1>26. ASSUME NEW t \in Threads, StopCapture(t) PROVE TypeOK'
    BY <1>26 DEF StopCapture, Return, Resume
<1>27. ASSUME NEW g \in Gens, EncoderExits(g) PROVE TypeOK'
    BY <1>27 DEF EncoderExits
<1>28. ASSUME NEW g \in Gens, ReaderEnds(g) PROVE TypeOK'
    BY <1>28 DEF ReaderEnds
<1>29. ASSUME AsteriskStops PROVE TypeOK'
    BY <1>29 DEF AsteriskStops
<1>30. ASSUME AsteriskStarts PROVE TypeOK'
    BY <1>30 DEF AsteriskStarts
<1>31. ASSUME UNCHANGED vars PROVE TypeOK'
    BY <1>31 DEF vars
<1> HIDE DEF TypeOK
<1> QED
    BY <1>1, <1>2, <1>3, <1>4, <1>5, <1>6, <1>7, <1>8, <1>9, <1>10, <1>11, <1>12,
       <1>13, <1>14, <1>15, <1>16, <1>17, <1>18, <1>19, <1>20, <1>21, <1>22, <1>23,
       <1>24, <1>25, <1>26, <1>27, <1>28, <1>29, <1>30, <1>31
       DEF Next, Start, Consume, Reap, Shutdown

(* Every variable keeps its type, threads are only at points of their own  *)
(* code, and a thread that works on a broadcast has one in hand.           *)
THEOREM TypeCorrect == Spec => []TypeOK
BY TypeInit, TypeStep, PTL DEF Spec

(* _audio_lock is held from one step to the next only by a starter, from   *)
(* Request to Register, StartFails or the shutdown of a failed start.      *)
LEMMA LockHolderStep == IInv /\ TypeOK' /\ [Next]_vars => LockHolder'
<1> SUFFICES ASSUME IInv, TypeOK', [Next]_vars PROVE LockHolder'
    OBVIOUS
<1> USE DEF IInv, TypeOK, LockHolder, StarterAlone, OnlyCreated, OneTeardown,
            NoOrphanBroadcast, LiveHasFifo, Told
<1>1. ASSUME NEW c \in Consumers, NEW n \in Nodes, Request(c, n) PROVE LockHolder'
    BY <1>1 DEF Request
<1>2. ASSUME NEW c \in Consumers, JoinExisting(c) PROVE LockHolder'
    BY <1>2 DEF JoinExisting, Attach, AddClient, Reusable
<1>3. ASSUME NEW c \in Consumers, StartFails(c) PROVE LockHolder'
    BY <1>3 DEF StartFails
<1>4. ASSUME NEW c \in Consumers, NEW g \in Gens, CreateWithTap(c,
             g) \/ CreateForMonitor(c, g)
      PROVE  LockHolder'
    BY <1>4 DEF CreateWithTap, CreateForMonitor, CreateObject
<1>5. ASSUME NEW c \in Consumers, NEW b \in BOOLEAN, StartMixMonitor(c,
             b) \/ MixMonitorFails(c, b)
      PROVE  LockHolder'
    BY <1>5 DEF StartMixMonitor, MixMonitorFails
<1>6. ASSUME NEW c \in Consumers, Register(c) PROVE LockHolder'
    BY <1>6 DEF Register, Attach, AddClient
<1>7. ASSUME NEW c \in Consumers, StressJoin(c) PROVE LockHolder'
    BY <1>7 DEF StressJoin, AddClient
<1>8. ASSUME NEW c \in Consumers, SetupDone(c) \/ SetupRaises(c) PROVE LockHolder'
    BY <1>8 DEF SetupDone, SetupRaises
<1>9. ASSUME NEW c \in Consumers, SetupFails(c) \/ TakeEof(c) \/ Disconnect(c)
      PROVE  LockHolder'
    BY <1>9 DEF SetupFails, TakeEof, Disconnect, RemoveClient
<1>10. ASSUME NEW r \in Reapers, SamplePid(r) \/ SettingsChanged(r) PROVE LockHolder'
    BY <1>10 DEF SamplePid, SettingsChanged
<1>11. ASSUME NEW r \in Reapers, Snapshot(r) PROVE LockHolder'
    BY <1>11 DEF Snapshot
<1>12. ASSUME NEW r \in Reapers, NEW g \in Gens, ReapNext(r, g) PROVE LockHolder'
    BY <1>12 DEF ReapNext
<1>13. ASSUME NEW r \in Reapers, ReapDone(r) PROVE LockHolder'
    BY <1>13 DEF ReapDone
<1>14. ASSUME NEW t \in Threads, MarkDead(t) PROVE LockHolder'
    BY <1>14 DEF MarkDead
<1>15. ASSUME NEW t \in Threads, AlreadyDead(t) \/ StopCapture(t) PROVE LockHolder'
    BY <1>15 DEF AlreadyDead, StopCapture, Return, Resume
<1>16. ASSUME NEW t \in Threads, Unregister(t) PROVE LockHolder'
    BY <1>16 DEF Unregister
<1>17. ASSUME NEW t \in Threads, FanoutSentinel(t) PROVE LockHolder'
    BY <1>17 DEF FanoutSentinel
<1>18. ASSUME NEW t \in Threads, ClearClients(t) PROVE LockHolder'
    BY <1>18 DEF ClearClients
<1>19. ASSUME NEW t \in Threads, StopProcesses(t) PROVE LockHolder'
    BY <1>19 DEF StopProcesses
<1>20. ASSUME NEW g \in Gens, EncoderExits(g) \/ ReaderEnds(g) PROVE LockHolder'
    BY <1>20 DEF EncoderExits, ReaderEnds
<1>21. ASSUME AsteriskStops \/ AsteriskStarts \/ UNCHANGED vars PROVE LockHolder'
    BY <1>21 DEF AsteriskStops, AsteriskStarts, vars
<1> HIDE DEF IInv, TypeOK, LockHolder
<1> QED
    BY <1>1, <1>2, <1>3, <1>4, <1>5, <1>6, <1>7, <1>8, <1>9, <1>10, <1>11, <1>12,
       <1>13, <1>14, <1>15, <1>16, <1>17, <1>18, <1>19, <1>20, <1>21
       DEF Next, Start, Consume, Reap, Shutdown

(* What a starter found out and built under the lock stays true and        *)
(* unseen: this is where every step of every other thread is examined.     *)
LEMMA StarterAloneStep == IInv /\ TypeOK' /\ [Next]_vars => StarterAlone'
<1> SUFFICES ASSUME IInv, TypeOK', [Next]_vars PROVE StarterAlone'
    OBVIOUS
<1> USE DEF IInv, TypeOK, LockHolder, StarterAlone, OnlyCreated, OneTeardown,
            NoOrphanBroadcast, LiveHasFifo, Told, StarterPCs, Reusable
<1>1. ASSUME NEW c \in Consumers, NEW n \in Nodes, Request(c, n) PROVE StarterAlone'
    BY <1>1 DEF Request
<1>2. ASSUME NEW c \in Consumers, JoinExisting(c) PROVE StarterAlone'
    BY <1>2 DEF JoinExisting, Attach, AddClient, Reusable
<1>3. ASSUME NEW c \in Consumers, StartFails(c) PROVE StarterAlone'
    BY <1>3 DEF StartFails
<1>4. ASSUME NEW c \in Consumers, NEW g \in Gens, CreateWithTap(c,
             g) \/ CreateForMonitor(c, g)
      PROVE  StarterAlone'
    BY <1>4 DEF CreateWithTap, CreateForMonitor, CreateObject
<1>5. ASSUME NEW c \in Consumers, NEW b \in BOOLEAN, StartMixMonitor(c,
             b) \/ MixMonitorFails(c, b)
      PROVE  StarterAlone'
    BY <1>5 DEF StartMixMonitor, MixMonitorFails
<1>6. ASSUME NEW c \in Consumers, Register(c) PROVE StarterAlone'
    BY <1>6 DEF Register, Attach, AddClient
<1>7. ASSUME NEW c \in Consumers, StressJoin(c) PROVE StarterAlone'
    BY <1>7 DEF StressJoin, AddClient
<1>8. ASSUME NEW c \in Consumers, SetupDone(c) \/ SetupRaises(c) PROVE StarterAlone'
    BY <1>8 DEF SetupDone, SetupRaises
<1>9. ASSUME NEW c \in Consumers, SetupFails(c) \/ TakeEof(c) \/ Disconnect(c)
      PROVE  StarterAlone'
    BY <1>9 DEF SetupFails, TakeEof, Disconnect, RemoveClient
<1>10. ASSUME NEW r \in Reapers, SamplePid(r) \/ SettingsChanged(r) PROVE StarterAlone'
    BY <1>10 DEF SamplePid, SettingsChanged
<1>11. ASSUME NEW r \in Reapers, Snapshot(r) PROVE StarterAlone'
    BY <1>11 DEF Snapshot
<1>12. ASSUME NEW r \in Reapers, NEW g \in Gens, ReapNext(r, g) PROVE StarterAlone'
    BY <1>12 DEF ReapNext
<1>13. ASSUME NEW r \in Reapers, ReapDone(r) PROVE StarterAlone'
    BY <1>13 DEF ReapDone
<1>14. ASSUME NEW t \in Threads, MarkDead(t) PROVE StarterAlone'
    BY <1>14 DEF MarkDead
<1>15. ASSUME NEW t \in Threads, AlreadyDead(t) \/ StopCapture(t) PROVE StarterAlone'
    BY <1>15 DEF AlreadyDead, StopCapture, Return, Resume
<1>16. ASSUME NEW t \in Threads, Unregister(t) PROVE StarterAlone'
    BY <1>16 DEF Unregister
<1>17. ASSUME NEW t \in Threads, FanoutSentinel(t) PROVE StarterAlone'
    BY <1>17 DEF FanoutSentinel
<1>18. ASSUME NEW t \in Threads, ClearClients(t) PROVE StarterAlone'
    BY <1>18 DEF ClearClients
<1>19. ASSUME NEW t \in Threads, StopProcesses(t) PROVE StarterAlone'
    BY <1>19 DEF StopProcesses
<1>20. ASSUME NEW g \in Gens, EncoderExits(g) \/ ReaderEnds(g) PROVE StarterAlone'
    BY <1>20 DEF EncoderExits, ReaderEnds
<1>21. ASSUME AsteriskStops \/ AsteriskStarts \/ UNCHANGED vars PROVE StarterAlone'
    BY <1>21 DEF AsteriskStops, AsteriskStarts, vars
<1> HIDE DEF IInv, TypeOK, StarterAlone
<1> QED
    BY <1>1, <1>2, <1>3, <1>4, <1>5, <1>6, <1>7, <1>8, <1>9, <1>10, <1>11, <1>12,
       <1>13, <1>14, <1>15, <1>16, <1>17, <1>18, <1>19, <1>20, <1>21
       DEF Next, Start, Consume, Reap, Shutdown

(* Handles, registry entries and snapshots only name created broadcasts,    *)
(* and a broadcast is registered under its own node.                       *)
LEMMA OnlyCreatedStep == IInv /\ TypeOK' /\ [Next]_vars => OnlyCreated'
<1> SUFFICES ASSUME IInv, TypeOK', [Next]_vars PROVE OnlyCreated'
    OBVIOUS
<1> USE DEF IInv, TypeOK, LockHolder, StarterAlone, OnlyCreated, OneTeardown,
            NoOrphanBroadcast, LiveHasFifo, Told
<1>1. ASSUME NEW c \in Consumers, NEW n \in Nodes, Request(c, n) PROVE OnlyCreated'
    BY <1>1 DEF Request
<1>2. ASSUME NEW c \in Consumers, JoinExisting(c) PROVE OnlyCreated'
    BY SMTT(30), <1>2 DEF JoinExisting, Attach, AddClient, Reusable
<1>3. ASSUME NEW c \in Consumers, StartFails(c) PROVE OnlyCreated'
    BY <1>3 DEF StartFails
<1>4. ASSUME NEW c \in Consumers, NEW g \in Gens, CreateWithTap(c,
             g) \/ CreateForMonitor(c, g)
      PROVE  OnlyCreated'
    BY SMTT(30), <1>4 DEF CreateWithTap, CreateForMonitor, CreateObject
<1>5. ASSUME NEW c \in Consumers, NEW b \in BOOLEAN, StartMixMonitor(c,
             b) \/ MixMonitorFails(c, b)
      PROVE  OnlyCreated'
    BY <1>5 DEF StartMixMonitor, MixMonitorFails
<1>6. ASSUME NEW c \in Consumers, Register(c) PROVE OnlyCreated'
    <2>1. lock = c /\ mine[c] \in Gens /\ bnode[mine[c]] = want[c] /\ want[c] \in Nodes
        BY <1>6 DEF Register, StarterPCs
    <2>2. /\ bnode' = bnode /\ dead' = dead /\ todo' = todo
          /\ \A t \in Threads : mine'[t] = mine[t]
          /\ \A n \in Nodes : active'[n] = IF n = want[c] THEN mine[c] ELSE active[n]
          /\ \A g \in Gens : g # mine[c] => clients'[g] = clients[g]
        BY <1>6 DEF Register, Attach, AddClient
    <2> QED BY ONLY OnlyCreated, ConsumersAssumption, <2>1, <2>2 DEF OnlyCreated
<1>7. ASSUME NEW c \in Consumers, StressJoin(c) PROVE OnlyCreated'
    BY <1>7 DEF StressJoin, AddClient
<1>8. ASSUME NEW c \in Consumers, SetupDone(c) \/ SetupRaises(c) PROVE OnlyCreated'
    BY <1>8 DEF SetupDone, SetupRaises
<1>9. ASSUME NEW c \in Consumers, SetupFails(c) \/ TakeEof(c) \/ Disconnect(c)
      PROVE  OnlyCreated'
    <2>1. /\ active' = active /\ bnode' = bnode /\ dead' = dead /\ todo' = todo
          /\ \A t \in Threads : mine'[t] \in {mine[t], None}
          /\ \A g \in Gens : clients'[g] \subseteq clients[g]
        BY SMTT(30), <1>9 DEF SetupFails, TakeEof, Disconnect, RemoveClient
    <2> QED BY ONLY OnlyCreated, <2>1 DEF OnlyCreated
<1>10. ASSUME NEW r \in Reapers, SamplePid(r) \/ SettingsChanged(r) PROVE OnlyCreated'
    BY <1>10 DEF SamplePid, SettingsChanged
<1>11. ASSUME NEW r \in Reapers, Snapshot(r) PROVE OnlyCreated'
    BY <1>11 DEF Snapshot
<1>12. ASSUME NEW r \in Reapers, NEW g \in Gens, ReapNext(r, g) PROVE OnlyCreated'
    BY <1>12 DEF ReapNext
<1>13. ASSUME NEW r \in Reapers, ReapDone(r) PROVE OnlyCreated'
    BY <1>13 DEF ReapDone
<1>14. ASSUME NEW t \in Threads, MarkDead(t) PROVE OnlyCreated'
    BY <1>14 DEF MarkDead
<1>15. ASSUME NEW t \in Threads, AlreadyDead(t) \/ StopCapture(t) PROVE OnlyCreated'
    BY SMTT(30), <1>15 DEF AlreadyDead, StopCapture, Return, Resume
<1>16. ASSUME NEW t \in Threads, Unregister(t) PROVE OnlyCreated'
    BY <1>16 DEF Unregister
<1>17. ASSUME NEW t \in Threads, FanoutSentinel(t) PROVE OnlyCreated'
    BY <1>17 DEF FanoutSentinel
<1>18. ASSUME NEW t \in Threads, ClearClients(t) PROVE OnlyCreated'
    BY <1>18 DEF ClearClients
<1>19. ASSUME NEW t \in Threads, StopProcesses(t) PROVE OnlyCreated'
    BY <1>19 DEF StopProcesses
<1>20. ASSUME NEW g \in Gens, EncoderExits(g) \/ ReaderEnds(g) PROVE OnlyCreated'
    BY <1>20 DEF EncoderExits, ReaderEnds
<1>21. ASSUME AsteriskStops \/ AsteriskStarts \/ UNCHANGED vars PROVE OnlyCreated'
    BY <1>21 DEF AsteriskStops, AsteriskStarts, vars
<1> HIDE DEF IInv, TypeOK, OnlyCreated
<1> QED
    BY <1>1, <1>2, <1>3, <1>4, <1>5, <1>6, <1>7, <1>8, <1>9, <1>10, <1>11, <1>12,
       <1>13, <1>14, <1>15, <1>16, <1>17, <1>18, <1>19, <1>20, <1>21
       DEF Next, Start, Consume, Reap, Shutdown

(* Behind MarkDead a broadcast is dead and has a single thread at work.    *)
LEMMA OneTeardownStep == IInv /\ TypeOK' /\ [Next]_vars => OneTeardown'
<1> SUFFICES ASSUME IInv, TypeOK', [Next]_vars PROVE OneTeardown'
    OBVIOUS
<1> USE DEF IInv, TypeOK, LockHolder, StarterAlone, OnlyCreated, OneTeardown,
            NoOrphanBroadcast, LiveHasFifo, Told, TeardownPCs
<1>1. ASSUME NEW c \in Consumers, NEW n \in Nodes, Request(c, n) PROVE OneTeardown'
    BY <1>1 DEF Request
<1>2. ASSUME NEW c \in Consumers, JoinExisting(c) PROVE OneTeardown'
    BY <1>2 DEF JoinExisting, Attach, AddClient, Reusable
<1>3. ASSUME NEW c \in Consumers, StartFails(c) PROVE OneTeardown'
    BY <1>3 DEF StartFails
<1>4. ASSUME NEW c \in Consumers, NEW g \in Gens, CreateWithTap(c,
             g) \/ CreateForMonitor(c, g)
      PROVE  OneTeardown'
    <2>1. /\ pc[c] = "locked" /\ pc'[c] \in {"started", "monitor"} /\ dead' = dead
          /\ \A t \in Threads : t # c => pc'[t] = pc[t] /\ mine'[t] = mine[t]
        BY <1>4 DEF CreateWithTap, CreateForMonitor, CreateObject
    <2> QED BY ONLY OneTeardown, <2>1 DEF OneTeardown, TeardownPCs
<1>5. ASSUME NEW c \in Consumers, NEW b \in BOOLEAN, StartMixMonitor(c,
             b) \/ MixMonitorFails(c, b)
      PROVE  OneTeardown'
    BY <1>5 DEF StartMixMonitor, MixMonitorFails
<1>6. ASSUME NEW c \in Consumers, Register(c) PROVE OneTeardown'
    BY <1>6 DEF Register, Attach, AddClient
<1>7. ASSUME NEW c \in Consumers, StressJoin(c) PROVE OneTeardown'
    BY <1>7 DEF StressJoin, AddClient
<1>8. ASSUME NEW c \in Consumers, SetupDone(c) \/ SetupRaises(c) PROVE OneTeardown'
    BY <1>8 DEF SetupDone, SetupRaises
<1>9. ASSUME NEW c \in Consumers, SetupFails(c) \/ TakeEof(c) \/ Disconnect(c)
      PROVE  OneTeardown'
    <2>1. /\ pc[c] \in {"setup", "listening"} /\ pc'[c] \in {"mark", "idle"} /\ dead' = dead
          /\ \A t \in Threads : t # c => pc'[t] = pc[t] /\ mine'[t] = mine[t]
        BY <1>9 DEF SetupFails, TakeEof, Disconnect, RemoveClient
    <2> QED BY ONLY OneTeardown, <2>1 DEF OneTeardown, TeardownPCs
<1>10. ASSUME NEW r \in Reapers, SamplePid(r) \/ SettingsChanged(r) PROVE OneTeardown'
    BY SMTT(30), <1>10 DEF SamplePid, SettingsChanged
<1>11. ASSUME NEW r \in Reapers, Snapshot(r) PROVE OneTeardown'
    BY <1>11 DEF Snapshot
<1>12. ASSUME NEW r \in Reapers, NEW g \in Gens, ReapNext(r, g) PROVE OneTeardown'
    BY <1>12 DEF ReapNext
<1>13. ASSUME NEW r \in Reapers, ReapDone(r) PROVE OneTeardown'
    BY <1>13 DEF ReapDone
<1>14. ASSUME NEW t \in Threads, MarkDead(t) PROVE OneTeardown'
    BY <1>14 DEF MarkDead
<1>15. ASSUME NEW t \in Threads, AlreadyDead(t) \/ StopCapture(t) PROVE OneTeardown'
    <2>1. /\ pc[t] \in {"mark", "capture"} /\ pc'[t] \in {"reap", "idle"} /\ dead' = dead
          /\ \A u \in Threads : u # t => pc'[u] = pc[u] /\ mine'[u] = mine[u]
        BY <1>15 DEF AlreadyDead, StopCapture, Return, Resume
    <2> QED BY ONLY OneTeardown, <2>1 DEF OneTeardown, TeardownPCs
<1>16. ASSUME NEW t \in Threads, Unregister(t) PROVE OneTeardown'
    BY <1>16 DEF Unregister
<1>17. ASSUME NEW t \in Threads, FanoutSentinel(t) PROVE OneTeardown'
    BY <1>17 DEF FanoutSentinel
<1>18. ASSUME NEW t \in Threads, ClearClients(t) PROVE OneTeardown'
    BY <1>18 DEF ClearClients
<1>19. ASSUME NEW t \in Threads, StopProcesses(t) PROVE OneTeardown'
    BY <1>19 DEF StopProcesses
<1>20. ASSUME NEW g \in Gens, EncoderExits(g) \/ ReaderEnds(g) PROVE OneTeardown'
    BY <1>20 DEF EncoderExits, ReaderEnds
<1>21. ASSUME AsteriskStops \/ AsteriskStarts \/ UNCHANGED vars PROVE OneTeardown'
    BY <1>21 DEF AsteriskStops, AsteriskStarts, vars
<1> HIDE DEF IInv, TypeOK, OneTeardown
<1> QED
    BY <1>1, <1>2, <1>3, <1>4, <1>5, <1>6, <1>7, <1>8, <1>9, <1>10, <1>11, <1>12,
       <1>13, <1>14, <1>15, <1>16, <1>17, <1>18, <1>19, <1>20, <1>21
       DEF Next, Start, Consume, Reap, Shutdown

(* The registry loses no live broadcast: Register overwrites only a dead   *)
(* one, Unregister removes only itself.                                    *)
LEMMA NoOrphanBroadcastStep == IInv /\ TypeOK' /\ [Next]_vars => NoOrphanBroadcast'
<1> SUFFICES ASSUME IInv, TypeOK', [Next]_vars PROVE NoOrphanBroadcast'
    OBVIOUS
<1> USE DEF IInv, TypeOK, LockHolder, StarterAlone, OnlyCreated, OneTeardown,
            NoOrphanBroadcast, LiveHasFifo, Told, Live, Created, StarterPCs,
            TeardownPCs, Reusable
<1>1. ASSUME NEW c \in Consumers, NEW n \in Nodes, Request(c, n)
      PROVE  NoOrphanBroadcast'
    BY <1>1 DEF Request
<1>2. ASSUME NEW c \in Consumers, JoinExisting(c) PROVE NoOrphanBroadcast'
    BY <1>2 DEF JoinExisting, Attach, AddClient, Reusable
<1>3. ASSUME NEW c \in Consumers, StartFails(c) PROVE NoOrphanBroadcast'
    BY <1>3 DEF StartFails
<1>4. ASSUME NEW c \in Consumers, NEW g \in Gens, CreateWithTap(c,
             g) \/ CreateForMonitor(c, g)
      PROVE  NoOrphanBroadcast'
    BY <1>4 DEF CreateWithTap, CreateForMonitor, CreateObject
<1>5. ASSUME NEW c \in Consumers, NEW b \in BOOLEAN, StartMixMonitor(c,
             b) \/ MixMonitorFails(c, b)
      PROVE  NoOrphanBroadcast'
    BY <1>5 DEF StartMixMonitor, MixMonitorFails
<1>6. ASSUME NEW c \in Consumers, Register(c) PROVE NoOrphanBroadcast'
    BY <1>6 DEF Register, Attach, AddClient
<1>7. ASSUME NEW c \in Consumers, StressJoin(c) PROVE NoOrphanBroadcast'
    BY <1>7 DEF StressJoin, AddClient
<1>8. ASSUME NEW c \in Consumers, SetupDone(c) \/ SetupRaises(c)
      PROVE  NoOrphanBroadcast'
    BY <1>8 DEF SetupDone, SetupRaises
<1>9. ASSUME NEW c \in Consumers, SetupFails(c) \/ TakeEof(c) \/ Disconnect(c)
      PROVE  NoOrphanBroadcast'
    BY <1>9 DEF SetupFails, TakeEof, Disconnect, RemoveClient
<1>10. ASSUME NEW r \in Reapers, SamplePid(r) \/ SettingsChanged(r)
       PROVE  NoOrphanBroadcast'
    BY <1>10 DEF SamplePid, SettingsChanged
<1>11. ASSUME NEW r \in Reapers, Snapshot(r) PROVE NoOrphanBroadcast'
    BY <1>11 DEF Snapshot
<1>12. ASSUME NEW r \in Reapers, NEW g \in Gens, ReapNext(r, g) PROVE NoOrphanBroadcast'
    BY <1>12 DEF ReapNext
<1>13. ASSUME NEW r \in Reapers, ReapDone(r) PROVE NoOrphanBroadcast'
    BY <1>13 DEF ReapDone
<1>14. ASSUME NEW t \in Threads, MarkDead(t) PROVE NoOrphanBroadcast'
    BY <1>14 DEF MarkDead
<1>15. ASSUME NEW t \in Threads, AlreadyDead(t) \/ StopCapture(t)
       PROVE  NoOrphanBroadcast'
    BY <1>15 DEF AlreadyDead, StopCapture, Return, Resume
<1>16. ASSUME NEW t \in Threads, Unregister(t) PROVE NoOrphanBroadcast'
    BY <1>16 DEF Unregister
<1>17. ASSUME NEW t \in Threads, FanoutSentinel(t) PROVE NoOrphanBroadcast'
    BY <1>17 DEF FanoutSentinel
<1>18. ASSUME NEW t \in Threads, ClearClients(t) PROVE NoOrphanBroadcast'
    BY <1>18 DEF ClearClients
<1>19. ASSUME NEW t \in Threads, StopProcesses(t) PROVE NoOrphanBroadcast'
    BY <1>19 DEF StopProcesses
<1>20. ASSUME NEW g \in Gens, EncoderExits(g) \/ ReaderEnds(g) PROVE NoOrphanBroadcast'
    BY <1>20 DEF EncoderExits, ReaderEnds
<1>21. ASSUME AsteriskStops \/ AsteriskStarts \/ UNCHANGED vars PROVE NoOrphanBroadcast'
    BY <1>21 DEF AsteriskStops, AsteriskStarts, vars
<1> HIDE DEF IInv, TypeOK, NoOrphanBroadcast
<1> QED
    BY <1>1, <1>2, <1>3, <1>4, <1>5, <1>6, <1>7, <1>8, <1>9, <1>10, <1>11, <1>12,
       <1>13, <1>14, <1>15, <1>16, <1>17, <1>18, <1>19, <1>20, <1>21
       DEF Next, Start, Consume, Reap, Shutdown

(* Only the path of a dead broadcast is unlinked.                          *)
LEMMA LiveHasFifoStep == IInv /\ TypeOK' /\ [Next]_vars => LiveHasFifo'
<1> SUFFICES ASSUME IInv, TypeOK', [Next]_vars PROVE LiveHasFifo'
    OBVIOUS
<1> USE DEF IInv, TypeOK, LockHolder, StarterAlone, OnlyCreated, OneTeardown,
            NoOrphanBroadcast, LiveHasFifo, Told, Live, Created, TeardownPCs, FifoPath
<1>1. ASSUME NEW c \in Consumers, NEW n \in Nodes, Request(c, n) PROVE LiveHasFifo'
    BY <1>1 DEF Request
<1>2. ASSUME NEW c \in Consumers, JoinExisting(c) PROVE LiveHasFifo'
    BY <1>2 DEF JoinExisting, Attach, AddClient, Reusable
<1>3. ASSUME NEW c \in Consumers, StartFails(c) PROVE LiveHasFifo'
    BY <1>3 DEF StartFails
<1>4. ASSUME NEW c \in Consumers, NEW g \in Gens, CreateWithTap(c,
             g) \/ CreateForMonitor(c, g)
      PROVE  LiveHasFifo'
    BY <1>4 DEF CreateWithTap, CreateForMonitor, CreateObject
<1>5. ASSUME NEW c \in Consumers, NEW b \in BOOLEAN, StartMixMonitor(c,
             b) \/ MixMonitorFails(c, b)
      PROVE  LiveHasFifo'
    BY <1>5 DEF StartMixMonitor, MixMonitorFails
<1>6. ASSUME NEW c \in Consumers, Register(c) PROVE LiveHasFifo'
    BY <1>6 DEF Register, Attach, AddClient
<1>7. ASSUME NEW c \in Consumers, StressJoin(c) PROVE LiveHasFifo'
    BY <1>7 DEF StressJoin, AddClient
<1>8. ASSUME NEW c \in Consumers, SetupDone(c) \/ SetupRaises(c) PROVE LiveHasFifo'
    BY <1>8 DEF SetupDone, SetupRaises
<1>9. ASSUME NEW c \in Consumers, SetupFails(c) \/ TakeEof(c) \/ Disconnect(c)
      PROVE  LiveHasFifo'
    BY <1>9 DEF SetupFails, TakeEof, Disconnect, RemoveClient
<1>10. ASSUME NEW r \in Reapers, SamplePid(r) \/ SettingsChanged(r) PROVE LiveHasFifo'
    BY <1>10 DEF SamplePid, SettingsChanged
<1>11. ASSUME NEW r \in Reapers, Snapshot(r) PROVE LiveHasFifo'
    BY <1>11 DEF Snapshot
<1>12. ASSUME NEW r \in Reapers, NEW g \in Gens, ReapNext(r, g) PROVE LiveHasFifo'
    BY <1>12 DEF ReapNext
<1>13. ASSUME NEW r \in Reapers, ReapDone(r) PROVE LiveHasFifo'
    BY <1>13 DEF ReapDone
<1>14. ASSUME NEW t \in Threads, MarkDead(t) PROVE LiveHasFifo'
    BY <1>14 DEF MarkDead
<1>15. ASSUME NEW t \in Threads, AlreadyDead(t) \/ StopCapture(t) PROVE LiveHasFifo'
    BY <1>15 DEF AlreadyDead, StopCapture, Return, Resume
<1>16. ASSUME NEW t \in Threads, Unregister(t) PROVE LiveHasFifo'
    BY <1>16 DEF Unregister
<1>17. ASSUME NEW t \in Threads, FanoutSentinel(t) PROVE LiveHasFifo'
    BY <1>17 DEF FanoutSentinel
<1>18. ASSUME NEW t \in Threads, ClearClients(t) PROVE LiveHasFifo'
    BY <1>18 DEF ClearClients
<1>19. ASSUME NEW t \in Threads, StopProcesses(t) PROVE LiveHasFifo'
    BY <1>19 DEF StopProcesses
<1>20. ASSUME NEW g \in Gens, EncoderExits(g) \/ ReaderEnds(g) PROVE LiveHasFifo'
    BY <1>20 DEF EncoderExits, ReaderEnds
<1>21. ASSUME AsteriskStops \/ AsteriskStarts \/ UNCHANGED vars PROVE LiveHasFifo'
    BY <1>21 DEF AsteriskStops, AsteriskStarts, vars
<1> HIDE DEF IInv, TypeOK, LiveHasFifo
<1> QED
    BY <1>1, <1>2, <1>3, <1>4, <1>5, <1>6, <1>7, <1>8, <1>9, <1>10, <1>11, <1>12,
       <1>13, <1>14, <1>15, <1>16, <1>17, <1>18, <1>19, <1>20, <1>21
       DEF Next, Start, Consume, Reap, Shutdown

(* No queue leaves a fan-out list without the sentinel, and none is added  *)
(* once the sentinel went out.                                             *)
LEMMA ToldStep == IInv /\ TypeOK' /\ [Next]_vars => Told'
<1> SUFFICES ASSUME IInv, TypeOK', [Next]_vars PROVE Told'
    OBVIOUS
<1> USE DEF IInv, TypeOK, LockHolder, StarterAlone, OnlyCreated, OneTeardown,
            NoOrphanBroadcast, LiveHasFifo, Told, TeardownPCs, StarterPCs
<1>1. ASSUME NEW c \in Consumers, NEW n \in Nodes, Request(c, n) PROVE Told'
    BY <1>1 DEF Request
<1>2. ASSUME NEW c \in Consumers, JoinExisting(c) PROVE Told'
    <2> DEFINE g == active[want[c]]
    <2>1. /\ g \in Gens \ dead /\ dead' = dead
          /\ pc[c] = "locked" /\ pc'[c] \in {"handle", "setup", "listening"}
          /\ mine'[c] = g
          /\ \A d \in Threads : d # c => pc'[d] = pc[d] /\ mine'[d] = mine[d]
        BY <1>2 DEF JoinExisting, Attach, Reusable
    <2>2. ASSUME c \notin Stressors
          PROVE  c \in clients'[g] /\ pc'[c] # "handle"
        <3>1. pc' = [pc EXCEPT ![c] = IF c \in Recorders THEN "setup" ELSE "listening"]
            BY <1>2, <2>2 DEF JoinExisting, Attach
        <3>2. clients' = [clients EXCEPT ![g] = @ \cup {c}]
            BY <1>2, <2>2 DEF JoinExisting, Attach, AddClient
        <3> QED BY <3>1, <3>2, <2>1
    <2>3. /\ eof \ {c} \subseteq eof'
          /\ \A h \in Gens : clients[h] \subseteq clients'[h]
        BY SMTT(30), <1>2, <2>1 DEF JoinExisting, Attach, AddClient
    <2>4. \A d \in Consumers : pc[d] \in {"setup", "listening"} => mine[d] \in Gens
        OBVIOUS
    <2> HIDE DEF g
    <2>5. ASSUME NEW d \in Consumers \ Stressors, d # c, pc'[d] \in {"setup", "listening"}
          PROVE  \/ d \in eof'
                 \/ /\ d \in clients'[mine'[d]]
                    /\ mine'[d] \in dead' => \E t \in Threads :
                          mine'[t] = mine'[d] /\ pc'[t] \in {"unregister", "sentinel"}
        BY ONLY Told, <2>5, <2>1, <2>3, <2>4 DEF Told, Threads
    <2> QED BY ONLY Told, <2>1, <2>2, <2>5 DEF Told, Threads
<1>3. ASSUME NEW c \in Consumers, StartFails(c) PROVE Told'
    BY <1>3 DEF StartFails
<1>4. ASSUME NEW c \in Consumers, NEW g \in Gens, CreateWithTap(c,
             g) \/ CreateForMonitor(c, g)
      PROVE  Told'
    BY SMTT(30), <1>4 DEF CreateWithTap, CreateForMonitor, CreateObject
<1>5. ASSUME NEW c \in Consumers, NEW b \in BOOLEAN, StartMixMonitor(c,
             b) \/ MixMonitorFails(c, b)
      PROVE  Told'
    BY <1>5 DEF StartMixMonitor, MixMonitorFails
<1>6. ASSUME NEW c \in Consumers, Register(c) PROVE Told'
    BY SMTT(30), <1>6 DEF Register, Attach, AddClient
<1>7. ASSUME NEW c \in Consumers, StressJoin(c) PROVE Told'
    <2>1. /\ dead' = dead /\ mine' = mine /\ pc[c] = "handle"
          /\ \A d \in Threads : d # c => pc'[d] = pc[d]
          /\ \A d \in Consumers : d # c => (d \in eof => d \in eof')
          /\ \A h \in Gens : clients[h] \subseteq clients'[h]
        BY <1>7 DEF StressJoin, AddClient
    <2>2. \A d \in Consumers : pc[d] \in {"setup", "listening"} => mine[d] \in Gens
        OBVIOUS
    <2>3. pc'[c] = "listening" BY <1>7 DEF StressJoin
    <2> QED BY ONLY Told, ConsumersAssumption, c \in Consumers, <2>1, <2>2, <2>3 DEF Told, Threads
<1>8. ASSUME NEW c \in Consumers, SetupDone(c) \/ SetupRaises(c) PROVE Told'
    BY <1>8 DEF SetupDone, SetupRaises
<1>9. ASSUME NEW c \in Consumers, SetupFails(c) \/ TakeEof(c) \/ Disconnect(c)
      PROVE  Told'
    <2>1. /\ dead' = dead /\ pc[c] \in {"setup", "listening"} /\ pc'[c] \in {"mark", "idle"}
          /\ \A d \in Threads : d # c => pc'[d] = pc[d] /\ mine'[d] = mine[d]
        BY <1>9 DEF SetupFails, TakeEof, Disconnect, RemoveClient
    <2>2. eof' = eof \ {c} /\ clients' = [clients EXCEPT ![mine[c]] = @ \ {c}]
        BY <1>9 DEF SetupFails, TakeEof, Disconnect, RemoveClient
    <2>3. \A h \in Gens : clients[h] \ {c} \subseteq clients'[h]
        BY <2>2
    <2>4. \A d \in Consumers : pc[d] \in {"setup", "listening"} => mine[d] \in Gens
        OBVIOUS
    <2>5. ASSUME NEW d \in Consumers \ Stressors, d # c, pc'[d] \in {"setup", "listening"}
          PROVE  \/ d \in eof'
                 \/ /\ d \in clients'[mine'[d]]
                    /\ mine'[d] \in dead' => \E t \in Threads :
                          mine'[t] = mine'[d] /\ pc'[t] \in {"unregister", "sentinel"}
        BY ONLY Told, <2>5, <2>1, <2>2, <2>3, <2>4 DEF Told, Threads
    <2> QED BY ONLY Told, <2>1, <2>5 DEF Told, Threads
<1>10. ASSUME NEW r \in Reapers, SamplePid(r) \/ SettingsChanged(r) PROVE Told'
    BY <1>10 DEF SamplePid, SettingsChanged
<1>11. ASSUME NEW r \in Reapers, Snapshot(r) PROVE Told'
    BY <1>11 DEF Snapshot
<1>12. ASSUME NEW r \in Reapers, NEW g \in Gens, ReapNext(r, g) PROVE Told'
    BY <1>12 DEF ReapNext
<1>13. ASSUME NEW r \in Reapers, ReapDone(r) PROVE Told'
    BY <1>13 DEF ReapDone
<1>14. ASSUME NEW t \in Threads, MarkDead(t) PROVE Told'
    BY <1>14 DEF MarkDead
<1>15. ASSUME NEW t \in Threads, AlreadyDead(t) \/ StopCapture(t) PROVE Told'
    <2>1. /\ dead' = dead /\ eof' = eof /\ clients' = clients
          /\ pc[t] \in {"mark", "capture"} /\ pc'[t] \in {"reap", "idle"}
          /\ \A d \in Threads : d # t => pc'[d] = pc[d] /\ mine'[d] = mine[d]
        BY <1>15 DEF AlreadyDead, StopCapture, Return, Resume
    <2> QED BY ONLY Told, ConsumersAssumption, <2>1 DEF Told, Threads
<1>16. ASSUME NEW t \in Threads, Unregister(t) PROVE Told'
    BY <1>16 DEF Unregister
<1>17. ASSUME NEW t \in Threads, FanoutSentinel(t) PROVE Told'
    BY <1>17 DEF FanoutSentinel
<1>18. ASSUME NEW t \in Threads, ClearClients(t) PROVE Told'
    BY <1>18 DEF ClearClients
<1>19. ASSUME NEW t \in Threads, StopProcesses(t) PROVE Told'
    BY <1>19 DEF StopProcesses
<1>20. ASSUME NEW g \in Gens, EncoderExits(g) \/ ReaderEnds(g) PROVE Told'
    BY <1>20 DEF EncoderExits, ReaderEnds
<1>21. ASSUME AsteriskStops \/ AsteriskStarts \/ UNCHANGED vars PROVE Told'
    BY <1>21 DEF AsteriskStops, AsteriskStarts, vars
<1> HIDE DEF IInv, TypeOK, Told
<1> QED
    BY <1>1, <1>2, <1>3, <1>4, <1>5, <1>6, <1>7, <1>8, <1>9, <1>10, <1>11, <1>12,
       <1>13, <1>14, <1>15, <1>16, <1>17, <1>18, <1>19, <1>20, <1>21
       DEF Next, Start, Consume, Reap, Shutdown

LEMMA InvInit == Init => IInv
BY TypeInit
   DEF Init, IInv, TypeOK, LockHolder, StarterAlone, OnlyCreated, OneTeardown,
               NoOrphanBroadcast, LiveHasFifo, Told, Live, Created, StarterPCs,
               TeardownPCs, Reusable

LEMMA InvStep == IInv /\ [Next]_vars => IInv'
<1>1. IInv /\ [Next]_vars => TypeOK'
    BY TypeStep DEF IInv
<1> QED
    BY <1>1, LockHolderStep, StarterAloneStep, OnlyCreatedStep, OneTeardownStep,
       NoOrphanBroadcastStep, LiveHasFifoStep, ToldStep
       DEF IInv

LEMMA Invariance == Spec => []IInv
BY InvInit, InvStep, PTL DEF Spec

(* No live broadcast is ever out of reach: it is the registered one of its *)
(* node, or its starter still holds _audio_lock.                           *)
THEOREM NoOrphan == Spec => []NoOrphanBroadcast
<1>1. IInv => NoOrphanBroadcast BY DEF IInv
<1> QED BY <1>1, Invariance, PTL

(* A node has at most one live broadcast, hence one capture of its channel *)
(* and one encoder, however many requests race to start it.                *)
THEOREM AtMostOneLive == Spec => []OneLivePerNode
<1>1. IInv => OneLivePerNode
    <2> SUFFICES ASSUME IInv, NEW g \in Gens, NEW h \in Gens,
                        Live(g), Live(h), bnode[g] = bnode[h]
                 PROVE  g = h
        BY DEF OneLivePerNode
    <2> DEFINE Held(x) == \E c \in Consumers :
                              lock = c /\ mine[c] = x /\ pc[c] \in StarterPCs
    <2>1. \A x \in Gens : Live(x) => active[bnode[x]] = x \/ Held(x)
        BY DEF IInv, NoOrphanBroadcast, StarterPCs
    <2>2. ~(Held(g) /\ active[bnode[h]] = h) /\ ~(Held(h) /\ active[bnode[g]] = g)
        BY DEF IInv, StarterAlone, Reusable, Live, Created, TypeOK
    <2>3. Held(g) /\ Held(h) => g = h
        OBVIOUS
    <2> QED BY <2>1, <2>2, <2>3
<1> QED BY <1>1, Invariance, PTL

(* However teardowns and joins interleave, a consumer that joined under    *)
(* the lock is told, or will be by the thread that tears its broadcast     *)
(* down.                                                                   *)
THEOREM NobodyDropped == Spec => []ListedOrTold
<1>1. IInv => ListedOrTold BY DEF IInv, Told, ListedOrTold
<1> QED BY <1>1, Invariance, PTL

(* No teardown unlinks the FIFO of a live broadcast.                       *)
THEOREM FifosAreSafe == Spec => []LiveHasFifo
<1>1. IInv => LiveHasFifo BY DEF IInv
<1> QED BY <1>1, Invariance, PTL

(* What the run checks of the registry: one live broadcast per node, the   *)
(* one that requests reach.                                                *)
THEOREM OneReachable == Spec => []OneReachablePerNode
BY NoOrphan, AtMostOneLive, PTL DEF OneReachablePerNode

(***************************************************************************)
(* What a teardown may stop.  A stop request names one capture, unless the *)
(* broadcast that is torn down never learned its MixMonitor's id; so while *)
(* no such broadcast was torn down, every live broadcast that was attached *)
(* to the Asterisk that runs now is still captured by it, but for the one  *)
(* whose starter is about to give it up.                                   *)
(***************************************************************************)
AllNamed == \A g \in dead : mode[g] # "mixmonitor"

GivingUp(g) == \E c \in Consumers : lock = c /\ mine[c] = g /\ pc[c] = "mark"

LiveIsCaptured ==
    AllNamed => \A g \in Gens :
        (Live(g) /\ astUp /\ born[g] = pid) => g \in capturing \/ GivingUp(g)

(* A capture is attached to the Asterisk of its moment.                    *)
BornInThePast ==
    \A g \in Gens : born[g] <= pid /\ (bnode[g] = None => born[g] = 0)

(* Asterisk's pid only grows, so a new Asterisk has no capture yet.        *)
LEMMA BornInThePastStep ==
    IInv /\ TypeOK' /\ BornInThePast /\ [Next]_vars => BornInThePast'
<1> SUFFICES ASSUME IInv, TypeOK', BornInThePast, [Next]_vars
             PROVE  BornInThePast'
    OBVIOUS
<1> USE DEF IInv, TypeOK, BornInThePast
<1>1. ASSUME NEW c \in Consumers, NEW n \in Nodes, Request(c, n)
       PROVE  BornInThePast'
    BY <1>1 DEF Request
<1>2. ASSUME NEW c \in Consumers, JoinExisting(c) PROVE BornInThePast'
    BY <1>2 DEF JoinExisting, Attach, AddClient, Reusable
<1>3. ASSUME NEW c \in Consumers, StartFails(c) PROVE BornInThePast'
    BY <1>3 DEF StartFails
<1>4. ASSUME NEW c \in Consumers, NEW g \in Gens, CreateWithTap(c, g) \/ CreateForMonitor(c, g)
       PROVE  BornInThePast'
    BY <1>4 DEF CreateWithTap, CreateForMonitor, CreateObject
<1>5. ASSUME NEW c \in Consumers, NEW b \in BOOLEAN, StartMixMonitor(c, b) \/ MixMonitorFails(c, b)
       PROVE  BornInThePast'
    BY <1>5 DEF StartMixMonitor, MixMonitorFails, OnlyCreated
<1>6. ASSUME NEW c \in Consumers, Register(c) PROVE BornInThePast'
    BY <1>6 DEF Register, Attach, AddClient
<1>7. ASSUME NEW c \in Consumers, StressJoin(c) PROVE BornInThePast'
    BY <1>7 DEF StressJoin, AddClient
<1>8. ASSUME NEW c \in Consumers, SetupDone(c) \/ SetupRaises(c)
       PROVE  BornInThePast'
    BY <1>8 DEF SetupDone, SetupRaises
<1>9. ASSUME NEW c \in Consumers, SetupFails(c) \/ TakeEof(c) \/ Disconnect(c)
       PROVE  BornInThePast'
    BY <1>9 DEF SetupFails, TakeEof, Disconnect, RemoveClient
<1>10. ASSUME NEW r \in Reapers, SamplePid(r) \/ SettingsChanged(r)
       PROVE  BornInThePast'
    BY <1>10 DEF SamplePid, SettingsChanged
<1>11. ASSUME NEW r \in Reapers, Snapshot(r) PROVE BornInThePast'
    BY <1>11 DEF Snapshot
<1>12. ASSUME NEW r \in Reapers, NEW g \in Gens, ReapNext(r, g) PROVE BornInThePast'
    BY <1>12 DEF ReapNext
<1>13. ASSUME NEW r \in Reapers, ReapDone(r) PROVE BornInThePast'
    BY <1>13 DEF ReapDone
<1>14. ASSUME NEW t \in Threads, MarkDead(t) PROVE BornInThePast'
    BY <1>14 DEF MarkDead
<1>15. ASSUME NEW t \in Threads, AlreadyDead(t) PROVE BornInThePast'
    BY <1>15 DEF AlreadyDead, Return, Resume
<1>16. ASSUME NEW t \in Threads, Unregister(t) PROVE BornInThePast'
    BY <1>16 DEF Unregister
<1>17. ASSUME NEW t \in Threads, FanoutSentinel(t) \/ ClearClients(t) \/ StopProcesses(t)
       PROVE  BornInThePast'
    BY <1>17 DEF FanoutSentinel, ClearClients, StopProcesses
<1>18. ASSUME NEW t \in Threads, StopCapture(t) PROVE BornInThePast'
    BY <1>18 DEF StopCapture, StopTargets, Return, Resume
<1>19. ASSUME NEW g \in Gens, EncoderExits(g) \/ ReaderEnds(g) PROVE BornInThePast'
    BY <1>19 DEF EncoderExits, ReaderEnds
<1>20. ASSUME AsteriskStops \/ AsteriskStarts \/ UNCHANGED vars PROVE BornInThePast'
    BY <1>20 DEF AsteriskStops, AsteriskStarts, vars
<1> HIDE DEF IInv, TypeOK, BornInThePast
<1> QED
    BY <1>1, <1>2, <1>3, <1>4, <1>5, <1>6, <1>7, <1>8, <1>9, <1>10, <1>11, <1>12,
       <1>13, <1>14, <1>15, <1>16, <1>17, <1>18, <1>19, <1>20
       DEF Next, Start, Consume, Reap, Shutdown

(* A step of thread t that leaves the captures alone; if t was giving a    *)
(* broadcast up, that one is dead now.                                     *)
LEMMA CapturesUntouched ==
    ASSUME TypeOK, LiveIsCaptured, NEW t \in Threads,
           UNCHANGED <<bnode, mode, capturing, born, pid, astUp>>,
           dead \subseteq dead',
           (pc[t] = "mark" /\ lock = t) => mine[t] \in dead',
           \A d \in Threads \ {t} :
               pc'[d] = pc[d] /\ mine'[d] = mine[d] /\ (lock = d => lock' = d)
    PROVE  LiveIsCaptured'
<1> SUFFICES ASSUME AllNamed', NEW g \in Gens, Live(g)', astUp, born[g] = pid
             PROVE  g \in capturing \/ GivingUp(g)'
    BY DEF LiveIsCaptured
<1>1. AllNamed /\ Live(g) BY DEF AllNamed, Live, Created
<1>2. g \in capturing \/ GivingUp(g) BY <1>1 DEF LiveIsCaptured
<1>3. ASSUME NEW c \in Consumers, lock = c, mine[c] = g, pc[c] = "mark"
      PROVE  lock' = c /\ mine'[c] = g /\ pc'[c] = "mark"
    <2>1. g \notin dead' BY DEF Live
    <2>2. c \in Threads \ {t} BY <1>3, <2>1
    <2> QED BY <1>3, <2>2
<1> QED BY <1>2, <1>3 DEF GivingUp

(* No step but the end of Asterisk stops the capture of a live broadcast.  *)
LEMMA LiveIsCapturedStep ==
    IInv /\ TypeOK' /\ BornInThePast /\ LiveIsCaptured /\ [Next]_vars => LiveIsCaptured'
<1> SUFFICES ASSUME IInv, TypeOK', BornInThePast, LiveIsCaptured, [Next]_vars
             PROVE  LiveIsCaptured'
    OBVIOUS
<1> USE DEF IInv
<1>1. ASSUME NEW c \in Consumers, NEW n \in Nodes, Request(c, n)
      PROVE  LiveIsCaptured'
    BY <1>1, CapturesUntouched, c \in Threads DEF Request, TypeOK
<1>2. ASSUME NEW c \in Consumers, JoinExisting(c) PROVE LiveIsCaptured'
    BY <1>2, CapturesUntouched, c \in Threads DEF JoinExisting, Attach, AddClient, TypeOK, LockHolder
<1>3. ASSUME NEW c \in Consumers, StartFails(c) PROVE LiveIsCaptured'
    BY <1>3, CapturesUntouched, c \in Threads DEF StartFails, TypeOK, LockHolder
<1>4. ASSUME NEW c \in Consumers, NEW g \in Gens, CreateWithTap(c, g) \/ CreateForMonitor(c, g)
      PROVE  LiveIsCaptured'
    <2>1. /\ lock = c /\ pc[c] = "locked" /\ bnode[g] = None /\ g \notin dead
          /\ UNCHANGED <<lock, dead, pid, astUp>>
        BY <1>4 DEF CreateWithTap, CreateForMonitor, CreateObject, LockHolder, OnlyCreated
    <2>2. \A h \in Gens \ {g} : bnode'[h] = bnode[h] /\ mode'[h] = mode[h] /\ born'[h] = born[h]
        BY <1>4 DEF CreateWithTap, CreateForMonitor, CreateObject, TypeOK
    <2>3. capturing \subseteq capturing' /\ (born'[g] = pid => g \in capturing')
        BY <1>4 DEF CreateWithTap, CreateForMonitor, CreateObject, TypeOK, BornInThePast
    <2>4. \A h \in Gens : ~GivingUp(h)
        BY <2>1 DEF GivingUp
    <2> QED BY <2>1, <2>2, <2>3, <2>4 DEF LiveIsCaptured, AllNamed, Live, Created, TypeOK
<1>5. ASSUME NEW c \in Consumers, NEW b \in BOOLEAN, StartMixMonitor(c, b) \/ MixMonitorFails(c, b)
      PROVE  LiveIsCaptured'
    <2>1. /\ lock = c /\ pc[c] = "monitor" /\ mine[c] \in Gens \ dead
          /\ UNCHANGED <<lock, bnode, dead, mine, pid, astUp>>
        BY <1>5 DEF StartMixMonitor, MixMonitorFails, LockHolder, StarterAlone, StarterPCs
    <2>2. \A h \in Gens \ {mine[c]} : mode'[h] = mode[h] /\ born'[h] = born[h]
        BY <1>5, <2>1 DEF StartMixMonitor, MixMonitorFails, TypeOK
    <2>3. capturing \subseteq capturing' /\ (mine[c] \in capturing' \/ pc'[c] = "mark")
        BY <1>5 DEF StartMixMonitor, MixMonitorFails, TypeOK
    <2>4. \A h \in Gens : ~GivingUp(h)
        BY <2>1 DEF GivingUp
    <2>5. mine[c] \in capturing' \/ GivingUp(mine[c])'
        BY <2>1, <2>3 DEF GivingUp
    <2>6. AllNamed' => AllNamed
        BY <2>1, <2>2 DEF AllNamed, TypeOK
    <2>7. \A h \in Gens : Live(h)' => Live(h)
        BY <2>1 DEF Live, Created
    <2> QED BY <2>1, <2>2, <2>3, <2>4, <2>5, <2>6, <2>7 DEF LiveIsCaptured
<1>6. ASSUME NEW c \in Consumers, Register(c) PROVE LiveIsCaptured'
    BY <1>6, CapturesUntouched, c \in Threads DEF Register, Attach, AddClient, TypeOK, LockHolder
<1>7. ASSUME NEW c \in Consumers, StressJoin(c) PROVE LiveIsCaptured'
    BY <1>7, CapturesUntouched, c \in Threads DEF StressJoin, AddClient, TypeOK
<1>8. ASSUME NEW c \in Consumers, SetupDone(c) \/ SetupRaises(c)
      PROVE  LiveIsCaptured'
    BY <1>8, CapturesUntouched, c \in Threads DEF SetupDone, SetupRaises, TypeOK
<1>9. ASSUME NEW c \in Consumers, SetupFails(c) \/ TakeEof(c) \/ Disconnect(c)
      PROVE  LiveIsCaptured'
    BY <1>9, CapturesUntouched, c \in Threads
       DEF SetupFails, TakeEof, Disconnect, RemoveClient, TypeOK
<1>10. ASSUME NEW r \in Reapers, SamplePid(r) \/ SettingsChanged(r)
      PROVE  LiveIsCaptured'
    BY <1>10, CapturesUntouched, r \in Threads DEF SamplePid, SettingsChanged, TypeOK
<1>11. ASSUME NEW r \in Reapers, Snapshot(r) \/ ReapDone(r) PROVE LiveIsCaptured'
    BY <1>11, CapturesUntouched, r \in Threads DEF Snapshot, ReapDone, TypeOK
<1>12. ASSUME NEW r \in Reapers, NEW g \in Gens, ReapNext(r, g)
      PROVE  LiveIsCaptured'
    BY <1>12, CapturesUntouched, r \in Threads DEF ReapNext, TypeOK
<1>13. ASSUME NEW t \in Threads, MarkDead(t) PROVE LiveIsCaptured'
    BY <1>13, CapturesUntouched DEF MarkDead, TypeOK
<1>14. ASSUME NEW t \in Threads, AlreadyDead(t) PROVE LiveIsCaptured'
    BY <1>14, CapturesUntouched DEF AlreadyDead, Return, TypeOK, StarterAlone, StarterPCs
<1>15. ASSUME NEW t \in Threads, Unregister(t) PROVE LiveIsCaptured'
    BY <1>15, CapturesUntouched DEF Unregister, TypeOK
<1>16. ASSUME NEW t \in Threads, FanoutSentinel(t) \/ ClearClients(t) \/ StopProcesses(t)
      PROVE  LiveIsCaptured'
    BY <1>16, CapturesUntouched DEF FanoutSentinel, ClearClients, StopProcesses, TypeOK
<1>17. ASSUME NEW t \in Threads, StopCapture(t) PROVE LiveIsCaptured'
    <2>1. /\ pc[t] = "capture" /\ mine[t] \in dead
          /\ UNCHANGED <<dead, bnode, mode, born, pid, astUp>>
        BY <1>17 DEF StopCapture, OneTeardown, TeardownPCs
    <2>2. \A d \in Threads \ {t} : pc'[d] = pc[d] /\ mine'[d] = mine[d] /\ (lock = d => lock' = d)
        BY <1>17 DEF StopCapture, Return, TypeOK
    <2>3. AllNamed => capturing \ {mine[t]} \subseteq capturing'
        BY <1>17, <2>1 DEF StopCapture, StopTargets, AllNamed
    <2>4. \A h \in Gens : GivingUp(h) => GivingUp(h)'
        BY <2>1, <2>2 DEF GivingUp
    <2> QED BY <2>1, <2>3, <2>4 DEF LiveIsCaptured, AllNamed, Live, Created
<1>18. ASSUME NEW g \in Gens, EncoderExits(g) \/ ReaderEnds(g) PROVE LiveIsCaptured'
    <2>1. UNCHANGED <<lock, pc, mine, bnode, dead, mode, capturing, born, pid, astUp>>
        BY <1>18 DEF EncoderExits, ReaderEnds
    <2> QED BY <2>1 DEF LiveIsCaptured, AllNamed, GivingUp, Live, Created
<1>19. ASSUME AsteriskStops \/ AsteriskStarts PROVE LiveIsCaptured'
    BY <1>19 DEF AsteriskStops, AsteriskStarts, LiveIsCaptured, BornInThePast, TypeOK
<1>20. ASSUME UNCHANGED vars PROVE LiveIsCaptured'
    BY <1>20 DEF vars, LiveIsCaptured, AllNamed, GivingUp, Live, Created
<1> QED
    BY <1>1, <1>2, <1>3, <1>4, <1>5, <1>6, <1>7, <1>8, <1>9, <1>10, <1>11, <1>12,
       <1>13, <1>14, <1>15, <1>16, <1>17, <1>18, <1>19, <1>20
       DEF Next, Start, Consume, Reap, Shutdown

(* However many teardowns race with starts, the capture of a registered,   *)
(* live broadcast is stopped by none of them, unless a MixMonitor without  *)
(* an id had to be stopped by its channel.                                 *)
THEOREM CapturesAreSafe == Spec => []RegisteredIsCaptured
<1>1. Init => BornInThePast /\ LiveIsCaptured
    BY DEF Init, BornInThePast, LiveIsCaptured, Live, Created
<1>2. /\ IInv /\ BornInThePast /\ LiveIsCaptured
      /\ IInv' /\ [Next]_vars
      => BornInThePast' /\ LiveIsCaptured'
    BY BornInThePastStep, LiveIsCapturedStep DEF IInv
<1>3. IInv /\ LiveIsCaptured => RegisteredIsCaptured
    BY DEF IInv, TypeOK, StarterAlone, OnlyCreated, StarterPCs, LiveIsCaptured,
           AllNamed, GivingUp, Live, Created, RegisteredIsCaptured
<1> QED BY <1>1, <1>2, <1>3, Invariance, PTL DEF Spec
=============================================================================
