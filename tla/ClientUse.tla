------------------------------ MODULE ClientUse ------------------------------
(***************************************************************************)
(* What the client half promises, without ENet, retries and statements:    *)
(* clients are made one after the other, one thread at a time is inside a  *)
(* client, and whether the client is linked to its peer only changes by    *)
(* the hand of that thread and never between its check and its sending.  A *)
(* client that a later one has replaced is torn down by a thread that is   *)
(* alone inside, and then goes for good, at a moment of its own: a thread  *)
(* may enter in between and lose the client, but never enters one that has *)
(* gone.  UdpClient implements this.                                       *)
(***************************************************************************)
EXTENDS Naturals

CONSTANTS
    Threads,   \* the threads that call
    Clients,   \* the clients, numbered as they are made
    Nobody     \* no thread

VARIABLES
    latest,    \* the client that calls are directed to
    inside,    \* which thread is inside each client
    linked,    \* the clients that are connected to their peer
    sending,   \* the clients on which a thread is about to send
    dying,     \* the clients that are torn down and have not gone yet
    gone       \* the clients that were freed

vars == <<latest, inside, linked, sending, dying, gone>>

Init ==
    /\ latest = 0
    /\ inside = [c \in Clients |-> Nobody]
    /\ linked = {} /\ sending = {} /\ dying = {} /\ gone = {}

Replace ==
    /\ latest + 1 \in Clients
    /\ latest' = latest + 1
    /\ UNCHANGED <<inside, linked, sending, dying, gone>>

Enter(t, c) ==
    /\ c <= latest /\ c \notin gone /\ inside[c] = Nobody
    /\ inside' = [inside EXCEPT ![c] = t]
    /\ UNCHANGED <<latest, linked, sending, dying, gone>>

\* The thread finds the peer disconnected.
Unlink(t, c) ==
    /\ inside[c] = t /\ c \notin sending
    /\ linked' = linked \ {c}
    /\ UNCHANGED <<latest, inside, sending, dying, gone>>

\* The client was linked before or is now, so the thread may send.
Link(t, c) ==
    /\ inside[c] = t /\ c \notin gone
    /\ linked' = linked \cup {c}
    /\ sending' = sending \cup {c}
    /\ UNCHANGED <<latest, inside, dying, gone>>

\* The thread has sent, or gives up, perhaps since it finds the peer disconnected.
Leave(t, c) ==
    /\ inside[c] = t
    /\ inside' = [inside EXCEPT ![c] = Nobody]
    /\ \/ UNCHANGED linked
       \/ c \notin sending /\ linked' = linked \ {c}
    /\ sending' = sending \ {c}
    /\ UNCHANGED <<latest, dying, gone>>

\* Only a client that was replaced is torn down, once, by the thread inside it, which
\* leaves it.
Destroy(t, c) ==
    /\ inside[c] = t /\ c # latest /\ c \notin sending \cup dying \cup gone
    /\ linked' = linked \ {c}
    /\ inside' = [inside EXCEPT ![c] = Nobody]
    /\ dying' = dying \cup {c}
    /\ UNCHANGED <<latest, sending, gone>>

\* The client goes, whoever has entered it since it was torn down.
Free(c) ==
    /\ c \in dying
    /\ dying' = dying \ {c}
    /\ gone' = gone \cup {c}
    /\ inside' = [inside EXCEPT ![c] = Nobody]
    /\ linked' = linked \ {c}
    /\ sending' = sending \ {c}
    /\ UNCHANGED latest

\* The process dies in the middle of its calls.
Die ==
    /\ sending' = {} /\ dying' = {}
    /\ UNCHANGED <<latest, inside, linked, gone>>

Next ==
    \/ Replace \/ Die
    \/ \E c \in Clients : Free(c)
    \/ \E t \in Threads, c \in Clients :
          Enter(t, c) \/ Unlink(t, c) \/ Link(t, c) \/ Leave(t, c) \/ Destroy(t, c)

Spec == Init /\ [][Next]_vars
==============================================================================
