----------------------------- MODULE LossyFeed ------------------------------
(***************************************************************************)
(* What the fan-out of a broadcast promises a client: the items published  *)
(* since it joined, in order and none twice; and every one of them, as     *)
(* long as it never had Cap of them waiting.                               *)
(***************************************************************************)
EXTENDS Integers

CONSTANTS Clients, Cap

VARIABLES
    head,       \* number of the last item published, -1 before the first
    offered,    \* per client, the last item it was offered
    at,         \* per client, the last item it took
    lagged      \* clients that once had Cap items waiting

feed == <<head, offered, at, lagged>>

Init ==
    /\ head = -1
    /\ offered = [c \in Clients |-> -1]
    /\ at = [c \in Clients |-> -1]
    /\ lagged = {}

(* Clients that are up to date may be offered the item as it comes out.    *)
Publish == \E now \in SUBSET {c \in Clients : offered[c] = head} :
    /\ head' = head + 1
    /\ offered' = [c \in Clients |-> IF c \in now THEN head + 1 ELSE offered[c]]
    /\ UNCHANGED <<at, lagged>>

(* A client starts with the item just published, or with the next one.     *)
Join(c) == \E before \in {head - 1, head} :
    /\ at' = [at EXCEPT ![c] = before]
    /\ offered' = [offered EXCEPT ![c] = head]
    /\ UNCHANGED <<head, lagged>>

Offer(c) ==
    /\ offered[c] < head
    /\ offered' = [offered EXCEPT ![c] = @ + 1]
    /\ UNCHANGED <<head, at, lagged>>

Lag(c) ==
    /\ offered[c] - at[c] >= Cap
    /\ lagged' = lagged \cup {c}
    /\ UNCHANGED <<head, offered, at>>

Take(c) ==
    /\ at[c] < offered[c]
    /\ \E k \in at[c] + 1 .. offered[c] :
          /\ c \notin lagged => k = at[c] + 1
          /\ at' = [at EXCEPT ![c] = k]
    /\ UNCHANGED <<head, offered, lagged>>

Next == Publish \/ \E c \in Clients : Join(c) \/ Offer(c) \/ Lag(c) \/ Take(c)

Spec == Init /\ [][Next]_feed
=============================================================================
