------------------------------ MODULE AmiPool -------------------------------
(***************************************************************************)
(* The one persistent session with Asterisk's manager interface            *)
(* (AMIClient, _ami_ensure_connected, _ami_invalidate, ami_send_command)   *)
(* and the threads that share it under _ami_pool_lock: web requests, which *)
(* try a second time on a fresh connection, and the poller, which does not *)
(* and which goes on to its next command when one that ends an idle link   *)
(* fails.                                                                  *)
(*                                                                         *)
(* AMI replies carry no number here: whoever reads takes the oldest unread *)
(* reply of the connection.  Commands are numbered only in this model, to  *)
(* tell whose reply that was.                                              *)
(***************************************************************************)
EXTENDS Naturals, FiniteSets

CONSTANTS Callers,   \* threads calling ami_send_command
          Poller,    \* the polling thread
          Free,      \* value of lock when nobody holds it
          Calls,     \* bound: calls made by all threads
          PerCall    \* commands of one call (the poller asks two per node)

ASSUME AmiAssumption == /\ Poller \notin Callers /\ Free \notin Callers \union {Poller}
                        /\ PerCall \in Nat \ {0} /\ Calls \in Nat

Threads == Callers \union {Poller}

VARIABLES pc,        \* each thread's place
          attempt,   \* 1, or 2 on the fresh connection
          left,      \* commands the call has still to send
          asked,     \* number of the command the thread waits for
          lock,      \* _ami_pool_lock
          client,    \* whether _ami_client is set
          sent,      \* commands sent so far
          pending,   \* commands Asterisk has on this connection, unanswered
          unread,    \* replies on this connection, unread
          calls,     \* calls left
          skipped    \* ghost: replies the poller stopped waiting for on this connection

session == <<client, sent, pending, unread, skipped>>
vars == <<pc, attempt, left, asked, lock, client, sent, pending, unread, calls, skipped>>

Init == /\ pc = [t \in Threads |-> "idle"] /\ attempt = [t \in Threads |-> 1]
        /\ left = [t \in Threads |-> 0] /\ asked = [t \in Threads |-> 0]
        /\ lock = Free /\ client = FALSE
        /\ sent = 0 /\ pending = {} /\ unread = {} /\ skipped = 0
        /\ calls = Calls

Goto(t, p) == pc' = [pc EXCEPT ![t] = p]

Call(t) == /\ pc[t] = "idle" /\ calls > 0
           /\ calls' = calls - 1 /\ Goto(t, "wait")
           /\ UNCHANGED <<attempt, left, asked, lock, session>>

Acquire(t) == /\ pc[t] = "wait" /\ lock = Free
              /\ lock' = t /\ Goto(t, "ensure")
              /\ attempt' = [attempt EXCEPT ![t] = 1]
              /\ left' = [left EXCEPT ![t] = PerCall]
              /\ UNCHANGED <<asked, session, calls>>

\* a session that is there is used; a new one logs in first
Ensure(t) == /\ pc[t] = "ensure" /\ Goto(t, "send")
             /\ client' = TRUE
             /\ IF client THEN UNCHANGED <<pending, unread, skipped>>
                ELSE pending' = {} /\ unread' = {} /\ skipped' = 0
             /\ UNCHANGED <<attempt, left, asked, lock, sent, calls>>

Send(t) == /\ pc[t] = "send" /\ Goto(t, "recv")
           /\ sent' = sent + 1 /\ asked' = [asked EXCEPT ![t] = sent + 1]
           /\ pending' = pending \union {sent + 1}
           /\ left' = [left EXCEPT ![t] = @ - 1]
           /\ UNCHANGED <<attempt, lock, client, unread, calls, skipped>>

\* Asterisk (external) answers what it was sent, in order, when it can
Answer == \E c \in pending :
             /\ \A d \in pending : c <= d
             /\ pending' = pending \ {c} /\ unread' = unread \union {c}
             /\ UNCHANGED <<pc, attempt, left, asked, lock, client, sent, calls, skipped>>

\* the next of the call's commands, or out of the lock after the last
GoOn(t, n) == IF n > 0 THEN Goto(t, "send") /\ UNCHANGED lock
              ELSE Goto(t, "idle") /\ lock' = Free

\* What arrived first is read: one reply, or more when they came together.
Recv(t) == /\ pc[t] = "recv"
           /\ \E c \in unread : unread' = {d \in unread : d > c}
           /\ GoOn(t, left[t])
           /\ UNCHANGED <<attempt, left, asked, client, sent, pending, calls, skipped>>

\* Mutant: the broken session is kept
InvalidateNot == UNCHANGED <<client, pending, unread, skipped>>
Invalidate == client' = FALSE /\ pending' = {} /\ unread' = {} /\ skipped' = 0

\* Mutant: the second failure raises without the lock's with-block
GiveUpLocked(t) == Goto(t, "idle") /\ UNCHANGED <<attempt, left, lock>>
GiveUp(t) == Goto(t, "idle") /\ lock' = Free /\ UNCHANGED <<attempt, left>>

TryAgain(t) == /\ Goto(t, "ensure")
               /\ attempt' = [attempt EXCEPT ![t] = 2]
               /\ left' = [left EXCEPT ![t] = PerCall]
               /\ UNCHANGED lock

\* The connect or login fails, the send raises, Asterisk closes the
\* connection, or no complete reply came by the deadline.
Broken(t) == /\ pc[t] \in {"ensure", "send", "recv"}
             /\ (pc[t] = "ensure" => ~client)
             /\ Invalidate
             /\ IF t \in Callers /\ attempt[t] = 1 THEN TryAgain(t) ELSE GiveUp(t)
             /\ UNCHANGED <<asked, sent, calls>>

\* A command of the poller that ends an idle link fails or gets no reply in
\* time: that is logged, and the poller goes on, on the same connection.  Which
\* of its commands are such is left open.
GoesOnAnyway(t) ==
    /\ t = Poller
    /\ \/ /\ pc[t] = "send" /\ left' = [left EXCEPT ![t] = @ - 1]
          /\ GoOn(t, left[t] - 1) /\ UNCHANGED skipped
       \/ /\ pc[t] = "recv" /\ skipped' = skipped + 1
          /\ GoOn(t, left[t]) /\ UNCHANGED left
    /\ UNCHANGED <<attempt, asked, client, sent, pending, unread, calls>>

Step(t) == Ensure(t) \/ Send(t) \/ Recv(t) \/ Broken(t) \/ GoesOnAnyway(t)

Next == Answer \/ \E t \in Threads : Call(t) \/ Acquire(t) \/ Step(t)

\* A thread inside the lock goes on: _recv_until has a deadline.  So does one at
\* the lock once it stays free.
Fairness == \A t \in Threads : WF_vars(Step(t)) /\ WF_vars(Acquire(t))

Spec == Init /\ [][Next]_vars /\ Fairness

----------------------------------------------------------------------------
Places == {"idle", "wait", "ensure", "send", "recv"}

TypeOK == /\ pc \in [Threads -> Places] /\ attempt \in [Threads -> {1, 2}]
          /\ left \in [Threads -> Nat] /\ asked \in [Threads -> Nat]
          /\ lock \in Threads \union {Free} /\ client \in BOOLEAN
          /\ sent \in Nat /\ pending \subseteq Nat /\ unread \subseteq Nat
          /\ calls \in Nat /\ skipped \in Nat

\* A reply a thread can read now answers the command it asked last, never one
\* that another thread, or itself before a timeout, gave up on
\* (_recv_until: "every response off by one from then on, with nothing ever
\* noticing").  The exception is the poller's idle disconnect, whose timeout
\* leaves the connection in use: replies are then late by as many commands as
\* there were such timeouts on this connection, and by no more.
AnswersMatch == \A t \in Threads : pc[t] = "recv" => unread \subseteq (asked[t] - skipped) .. asked[t]

\* Every call comes back, whatever breaks: no path leaves the pool locked.
CallsReturn == \A t \in Threads : pc[t] = "wait" ~> pc[t] = "idle"
=============================================================================
