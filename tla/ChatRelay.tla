----------------------------- MODULE ChatRelay ------------------------------
(***************************************************************************)
(* The relay of the kiosk's chat to IRC (irc_relay.py) and to Discord: the *)
(* post that stores a message and offers it to two bounded queues, the     *)
(* workers that drain them, and _irc_relay_loop, which connects an         *)
(* IRCClient, reads until the connection ends and backs off.  Each client  *)
(* has a queue and a sender thread of its own.                             *)
(***************************************************************************)
EXTENDS Naturals, Sequences

CONSTANTS MaxQueue,    \* maxsize of the two queues
          MaxClients, MaxPosts  \* bounds: connections, messages posted

ASSUME QueueAssumption == MaxQueue \in Nat /\ MaxClients \in Nat

VARIABLES enabled,  \* the configuration is complete and switched on
          ircLoop,     \* where _irc_relay_loop is
          cur,      \* number of the client at hand; clients 1..cur were made
          ref,      \* _irc_relay_client_ref, 0 for None
          client,   \* client -> [sock, dead, queue, sender]
          irc, discord,  \* lengths of _irc_relay_queue and _discord_relay_queue
          worker,   \* the client the send worker has picked for a message
          posts     \* messages posted

chatVars == <<enabled, ircLoop, cur, ref, client, irc, discord, worker, posts>>

Clients == 1..MaxClients
Quit == 0   \* the shutdown sentinel in a client's queue
Line == 1   \* any other entry
Unmade == [sock |-> "none", dead |-> FALSE, queue |-> <<>>, sender |-> "none"]

ChatInit == /\ enabled \in BOOLEAN /\ ircLoop = "config"
            /\ cur = 0 /\ ref = 0 /\ client = [c \in Clients |-> Unmade]
            /\ irc = 0 /\ discord = 0 /\ worker = 0 /\ posts = 0

chat == <<irc, discord, worker, posts>>

----------------------------------------------------------------------------
(* _irc_relay_loop and IRCClient.connect, identify, join, read_loop, close.*)

Config == /\ ircLoop = "config" /\ enabled /\ cur < MaxClients
          /\ ircLoop' = "connect" /\ cur' = cur + 1
          /\ UNCHANGED <<enabled, ref, client, chat>>
Disabled == /\ ircLoop = "config" /\ ~enabled /\ ircLoop' = "sleep"
            /\ UNCHANGED <<enabled, cur, ref, client, chat>>

\* NICK and USER are answered; the sender thread starts
Registers == /\ ircLoop = "connect" /\ ircLoop' = "join"
             /\ client' = [client EXCEPT ![cur] = [@ EXCEPT !.sock = "open", !.sender = "get"]]
             /\ UNCHANGED <<enabled, cur, ref, chat>>
\* refused, or rejected when the socket is open already
ConnectFails == /\ ircLoop = "connect" /\ ircLoop' = "raised"
                /\ \E s \in {"none", "open"} : client' = [client EXCEPT ![cur].sock = s]
                /\ UNCHANGED <<enabled, cur, ref, chat>>
Joins == /\ ircLoop = "join" /\ ircLoop' = "read" /\ ref' = cur
         /\ UNCHANGED <<enabled, cur, client, chat>>
JoinFails == /\ ircLoop = "join" /\ ircLoop' = "raised"
             /\ UNCHANGED <<enabled, cur, ref, client, chat>>
\* closed by the server, an ERROR, the idle timeout, a send that failed
ReadEnds == /\ ircLoop = "read" /\ ircLoop' = "returned"
            /\ UNCHANGED <<enabled, cur, ref, client, chat>>

\* Mutant: a connection that failed is dropped, not closed
Dropped(c) == c
\* Mutant: no sentinel for a sender that waits for a line
ClosedQuietly(c) == [c EXCEPT !.dead = TRUE, !.sock = IF @ = "open" THEN "closed" ELSE @]
\* IRCClient.close: dead, the sentinel behind what is queued, the socket
Closed(c) == [c EXCEPT !.dead = TRUE, !.queue = Append(@, Quit),
                       !.sock = IF @ = "open" THEN "closed" ELSE @]
CloseAfterRead(c) == Closed(c)
CloseAfterRaise(c) == Closed(c)

Raised == /\ ircLoop = "raised" /\ ircLoop' = "sleep" /\ ref' = 0
          /\ client' = [client EXCEPT ![cur] = CloseAfterRaise(@)]
          /\ UNCHANGED <<enabled, cur, chat>>
\* after a moment, or the backoff of a connection that did not last
Returned == /\ ircLoop = "returned" /\ ircLoop' = "sleep" /\ ref' = 0
            /\ client' = [client EXCEPT ![cur] = CloseAfterRead(@)]
            /\ UNCHANGED <<enabled, cur, chat>>
Wakes == /\ ircLoop = "sleep" /\ ircLoop' = "config"
         /\ UNCHANGED <<enabled, cur, ref, client, chat>>

Loop == \/ Config \/ Disabled \/ Registers \/ ConnectFails \/ Joins \/ JoinFails
        \/ ReadEnds \/ Raised \/ Returned \/ Wakes

----------------------------------------------------------------------------
(* The sender thread of a client: _sender_loop.                            *)

SenderTakes(c) == /\ client[c].sender = "get" /\ client[c].queue # <<>>
                  /\ client' = [client EXCEPT ![c].queue = Tail(@),
                         ![c].sender = IF Head(client[c].queue) = Quit THEN "done" ELSE "send"]
                  /\ UNCHANGED <<enabled, ircLoop, cur, ref, chat>>
\* the line goes out, or the socket is gone and the client is dead
SenderSends(c) ==
    /\ client[c].sender = "send"
    /\ \/ client[c].sock = "open"
          /\ client' = [client EXCEPT ![c].sender = IF client[c].dead THEN "done" ELSE "get"]
       \/ client' = [client EXCEPT ![c].sender = "done", ![c].dead = TRUE]
    /\ UNCHANGED <<enabled, ircLoop, cur, ref, chat>>
Sender(c) == SenderTakes(c) \/ SenderSends(c)

----------------------------------------------------------------------------
(* api_chat_messages_post and the two workers.                             *)

\* a full queue drops the newest message
Offered(n) == IF n < MaxQueue THEN n + 1 ELSE n
Post == /\ posts < MaxPosts /\ posts' = posts + 1
        /\ discord' = Offered(discord) /\ irc' = Offered(irc)
        /\ UNCHANGED <<enabled, ircLoop, cur, ref, client, worker>>
\* posted to the webhook, refused or switched off: all one to the queue
DiscordWorks == /\ discord > 0 /\ discord' = discord - 1
                /\ UNCHANGED <<enabled, ircLoop, cur, ref, client, irc, worker, posts>>
\* not connected: dropped; otherwise the client as it is now
WorkerTakes == /\ worker = 0 /\ irc > 0 /\ irc' = irc - 1
               /\ IF ref = 0 \/ client[ref].dead
                  THEN worker' = 0 ELSE worker' = ref
               /\ UNCHANGED <<enabled, ircLoop, cur, ref, client, discord, posts>>
WorkerSends == /\ worker # 0 /\ worker' = 0
               /\ client' = [client EXCEPT ![worker].queue = Append(@, Line)]
               /\ UNCHANGED <<enabled, ircLoop, cur, ref, irc, discord, posts>>
\* api_irc_relay_config_save: read at the next connection
SaveConfig == /\ enabled' = ~enabled
              /\ UNCHANGED <<ircLoop, cur, ref, client, chat>>

ChatNext == \/ Loop \/ Post \/ DiscordWorks \/ WorkerTakes \/ WorkerSends \/ SaveConfig
            \/ \E c \in Clients : Sender(c)

ChatFairness == /\ WF_chatVars(Loop) /\ WF_chatVars(WorkerTakes) /\ WF_chatVars(WorkerSends)
                /\ \A c \in Clients : WF_chatVars(Sender(c))
ChatSpec == ChatInit /\ [][ChatNext]_chatVars /\ ChatFairness

----------------------------------------------------------------------------
Connection == [sock : {"none", "open", "closed"}, dead : BOOLEAN,
               queue : Seq({Quit, Line}), sender : {"none", "get", "send", "done"}]
ChatTypeOK ==
    /\ ircLoop \in {"config", "connect", "join", "read", "raised", "returned", "sleep"}
    /\ cur \in 0..MaxClients /\ ref \in {0, cur} /\ worker \in 0..cur
    /\ irc \in 0..MaxQueue /\ discord \in 0..MaxQueue
    /\ client \in [Clients -> Connection]

\* Between two connections nothing of the last one is left: its socket is
\* closed and no message can be handed to it as if it were alive.
NothingLeftOpen == ircLoop = "sleep" => /\ ref = 0
                                        /\ \A c \in Clients : client[c].sock # "open"

\* The sender thread of a connection that ended ends too, also when it was
\* waiting for a line, and a message handed over late does not keep it.
SendersEnd == \A c \in Clients : client[c].dead /\ client[c].sender # "none"
                                 ~> client[c].sender = "done"
=============================================================================
