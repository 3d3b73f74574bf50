------------------------------ MODULE UdpClient ------------------------------
(***************************************************************************)
(* The client half of the communication service: p2p::udp_client, its lazy *)
(* connection to the pinned peer, and its replacement by pin_connection.   *)
(*                                                                         *)
(* Three kinds of threads call the client that udp_client_ points to: the  *)
(* UI thread sends requests and keys, a worker of SenderFlow sends motion, *)
(* the services thread flushes.  A call reads the pointer without keeping  *)
(* a reference, then takes the client's mutex_.  pin_connection, on the UI *)
(* or the services thread, makes a new client and destroys the old one:    *)
(* the destructor's body runs with the mutex held and lets it go, and only *)
(* then are the mutex itself and the memory given back.  A caller that     *)
(* waits for the mutex may get it in between.                              *)
(*                                                                         *)
(* host_ is not a variable: a client whose host is gone has no peer and no *)
(* events, and the next message creates the host again.                    *)
(*                                                                         *)
(* A tick is the time one connection attempt may take at most              *)
(* (connect_timeout_ms_, 500 ms).                                          *)
(***************************************************************************)
EXTENDS Integers, FiniteSets

CONSTANTS
    Retry,     \* reconnect_interval_ms_, in ticks
    MaxPins    \* bound: how many clients are made in all

ASSUME RetryAssumption == Retry \in Nat \ {0}
ASSUME PinsAssumption == MaxPins \in Nat

Threads == {"ui", "svc", "worker"}
Clients == 1 .. MaxPins
Null == 0
Nobody == "nobody"

\* last_connect_attempt_ms_ is 0: no attempt yet.
Never == Retry + 1

\* Statements that run with mutex_ held, and those of a call on a client.
Locked == {"poll", "ensure", "connect", "send", "destroy"}
Calls  == {"lock", "poll", "ensure", "connect", "send"}

VARIABLES
    udp_client,  \* the client that communication_service::udp_client_ points to
    made,        \* how many clients pin_connection has made
    freed,       \* the clients that were destroyed
    holder,      \* who holds each client's mutex_
    peer,        \* peer_: null, or connected
    closed,      \* a disconnect waits in the client's ENet host
    since,       \* ticks since the client's last connection attempt
    reachable,   \* the pinned peer's server answers
    pc,          \* where each thread stands
    using,       \* the client a thread's call or destructor is on
    late         \* history: threads inside a client whose destructor has let the
                 \* mutex go, or that went on after the client was freed

client_vars == <<holder, peer, closed, since>>
vars == <<udp_client, made, freed, client_vars, reachable, pc, using, late>>

Init ==
    /\ udp_client = Null
    /\ made = 0
    /\ freed = {}
    /\ holder = [c \in Clients |-> Nobody]
    /\ peer = [c \in Clients |-> "null"]
    /\ closed = [c \in Clients |-> FALSE]
    /\ since = [c \in Clients |-> Never]
    /\ reachable \in BOOLEAN
    /\ pc = [t \in Threads |-> "idle"]
    /\ using = [t \in Threads |-> Null]
    /\ late = {}

\* Thread t stands at a statement of a call whose client is still there.
At(t, label) == pc[t] = label /\ using[t] \notin freed

Goto(t, label) == pc' = [pc EXCEPT ![t] = label]

\* The call ends: the lock_guard is left and the thread goes its way.
Return(t) ==
    /\ Goto(t, "idle")
    /\ using' = [using EXCEPT ![t] = Null]
    /\ holder' = [holder EXCEPT ![using[t]] = Nobody]
    /\ late' = late \ {t}

------------------------------------------------------------------------------
\* communication_service::pin_connection replaces the client; releasing the old
\* one runs its destructor in the same thread.
Pin(t) ==
    /\ t # "worker"
    /\ pc[t] = "idle"
    /\ made < MaxPins
    /\ made' = made + 1
    /\ udp_client' = made + 1
    /\ IF udp_client = Null
       THEN UNCHANGED <<pc, using>>
       ELSE Goto(t, "release") /\ using' = [using EXCEPT ![t] = udp_client]
    /\ UNCHANGED <<freed, client_vars, reachable, late>>

\* Mutant of LockRelease: the destructor does not take the mutex.
ReleaseUnlocked(t) ==
    /\ pc[t] = "release"
    /\ Goto(t, "destroy")
    /\ UNCHANGED <<udp_client, made, freed, client_vars, reachable, using, late>>

\* ~udp_client waits for the mutex.
LockRelease(t) ==
    /\ pc[t] = "release"
    /\ holder[using[t]] = Nobody
    /\ holder' = [holder EXCEPT ![using[t]] = t]
    /\ Goto(t, "destroy")
    /\ UNCHANGED <<udp_client, made, freed, peer, closed, since, reachable, using, late>>

\* What is left of client c: no peer, no event, and a mutex nobody holds.
Empty(c) ==
    /\ peer' = [peer EXCEPT ![c] = "null"]
    /\ closed' = [closed EXCEPT ![c] = FALSE]
    /\ holder' = [holder EXCEPT ![c] = Nobody]

\* The destructor's body says goodbye to the peer, destroys the host and, at its
\* end, leaves the lock_guard.
Destroy(t) ==
    /\ pc[t] = "destroy"
    /\ Empty(using[t])
    /\ Goto(t, "free")
    /\ UNCHANGED <<udp_client, made, freed, since, reachable, using, late>>

\* Then the members, mutex_ among them, are destroyed and the memory is freed,
\* whoever may have taken the mutex meanwhile.
Free(t) ==
    /\ pc[t] = "free"
    /\ Empty(using[t])
    /\ freed' = freed \cup {using[t]}
    /\ Goto(t, "idle")
    /\ using' = [using EXCEPT ![t] = Null]
    /\ UNCHANGED <<udp_client, made, since, reachable, late>>

------------------------------------------------------------------------------
\* send_package_reliable, send_package_unreliable and update: the null check and
\* the call through udp_client_.  The UI thread sends once it has pinned a peer,
\* the worker runs while a sender scene is shown.
Call(t) ==
    /\ pc[t] = "idle"
    /\ udp_client # Null
    /\ using' = [using EXCEPT ![t] = udp_client]
    /\ Goto(t, "lock")
    /\ UNCHANGED <<udp_client, made, freed, client_vars, reachable, late>>

\* Whose present call takes the mutex after the destructor's body.
LateWith(t) ==
    IF \E u \in Threads : pc[u] = "free" /\ using[u] = using[t] THEN late \cup {t} ELSE late

\* Mutant of Lock: flush_pending_messages does not take the mutex.
LockUnlessFlush(t) ==
    /\ At(t, "lock")
    /\ IF t = "svc" THEN UNCHANGED holder
       ELSE holder[using[t]] = Nobody /\ holder' = [holder EXCEPT ![using[t]] = t]
    /\ Goto(t, "poll")
    /\ late' = LateWith(t)
    /\ UNCHANGED <<udp_client, made, freed, peer, closed, since, reachable, using>>

Lock(t) ==
    /\ At(t, "lock")
    /\ holder[using[t]] = Nobody
    /\ holder' = [holder EXCEPT ![using[t]] = t]
    /\ Goto(t, "poll")
    /\ late' = LateWith(t)
    /\ UNCHANGED <<udp_client, made, freed, peer, closed, since, reachable, using>>

\* What may follow a statement of a call, when its outcome cannot be relied on.
Onward ==
    {<<"lock", "poll">>, <<"poll", "ensure">>, <<"poll", "idle">>,
     <<"ensure", "connect">>, <<"ensure", "send">>, <<"ensure", "idle">>,
     <<"connect", "send">>, <<"connect", "idle">>, <<"send", "idle">>}

\* A statement of a call whose client is gone, its mutex included: the process
\* crashes, or the statement seems to succeed, or to fail, and the call goes on or
\* returns.  It may also hang, so this step is not a fair one.
UseFreed(t) ==
    /\ pc[t] \in Calls /\ using[t] \in freed
    /\ \/ pc' = [u \in Threads |-> "crashed"] /\ UNCHANGED <<using, late>>
       \/ /\ <<pc[t], "idle">> \in Onward
          /\ Goto(t, "idle")
          /\ using' = [using EXCEPT ![t] = Null]
          /\ late' = late \ {t}
       \/ \E label \in Calls :
             /\ <<pc[t], label>> \in Onward
             /\ label = "ensure" => t # "svc"
             /\ Goto(t, label)
             /\ late' = late \cup {t}
             /\ UNCHANGED using
    /\ UNCHANGED <<udp_client, made, freed, client_vars, reachable>>

\* Both send_impl and flush_service_events service the host and drop the peer
\* when it has disconnected.
ServiceHost(c) ==
    /\ peer' = [peer EXCEPT ![c] = IF closed[c] THEN "null" ELSE @]
    /\ closed' = [closed EXCEPT ![c] = FALSE]

PollThenSend(t) ==
    /\ At(t, "poll") /\ t # "svc"
    /\ ServiceHost(using[t])
    /\ Goto(t, "ensure")
    /\ UNCHANGED <<udp_client, made, freed, holder, since, reachable, using, late>>

Flush(t) ==
    /\ At(t, "poll") /\ t = "svc"
    /\ ServiceHost(using[t])
    /\ Return(t)
    /\ UNCHANGED <<udp_client, made, freed, since, reachable>>

\* ensure_connected: the client is connected already.
Connected(t) ==
    /\ At(t, "ensure")
    /\ peer[using[t]] = "connected"
    /\ Goto(t, "send")
    /\ UNCHANGED <<udp_client, made, freed, client_vars, reachable, using, late>>

\* Mutant of TooSoon: a refused attempt counts as one.
TooSoonRestarts(t) ==
    /\ At(t, "ensure")
    /\ peer[using[t]] = "null"
    /\ since[using[t]] < Retry
    /\ since' = [since EXCEPT ![using[t]] = 0]
    /\ Return(t)
    /\ UNCHANGED <<udp_client, made, freed, peer, closed, reachable>>

\* It is too soon to try again; the message is dropped.
TooSoon(t) ==
    /\ At(t, "ensure")
    /\ peer[using[t]] = "null"
    /\ since[using[t]] < Retry
    /\ Return(t)
    /\ UNCHANGED <<udp_client, made, freed, peer, closed, since, reachable>>

Attempt(t) ==
    /\ At(t, "ensure")
    /\ peer[using[t]] = "null"
    /\ since[using[t]] >= Retry
    /\ since' = [since EXCEPT ![using[t]] = 0]
    /\ Goto(t, "connect")
    /\ UNCHANGED <<udp_client, made, freed, holder, peer, closed, reachable, using, late>>

\* connect_peer, with the mutex held for as long as it takes.
Connect(t) ==
    /\ At(t, "connect")
    /\ reachable
    /\ peer' = [peer EXCEPT ![using[t]] = "connected"]
    /\ Goto(t, "send")
    /\ UNCHANGED <<udp_client, made, freed, holder, closed, since, reachable, using, late>>

\* Mutant of GiveUp: the lock is not released on this path.
GiveUpLocked(t) ==
    /\ At(t, "connect")
    /\ ~ reachable
    /\ Goto(t, "idle")
    /\ using' = [using EXCEPT ![t] = Null]
    /\ UNCHANGED <<udp_client, made, freed, client_vars, reachable, late>>

GiveUp(t) ==
    /\ At(t, "connect")
    /\ ~ reachable
    /\ Return(t)
    /\ UNCHANGED <<udp_client, made, freed, peer, closed, since, reachable>>

\* enet_peer_send and enet_host_flush.
Send(t) ==
    /\ At(t, "send")
    /\ Return(t)
    /\ UNCHANGED <<udp_client, made, freed, peer, closed, since, reachable>>

------------------------------------------------------------------------------
\* The pinned peer's server goes away or comes back; ENet notices a broken
\* connection, which the next service of the host reports.
Network ==
    \/ /\ reachable' = ~ reachable
       /\ UNCHANGED closed
    \/ /\ \E c \in Clients : /\ peer[c] = "connected" /\ ~ closed[c]
                             /\ closed' = [closed EXCEPT ![c] = TRUE]
       /\ UNCHANGED reachable

Disturbance ==
    /\ Network
    /\ UNCHANGED <<udp_client, made, freed, holder, peer, since, pc, using, late>>

\* Mutant of Tick: the time since an attempt is counted past the limit.
TickOn ==
    /\ \E c \in Clients : since[c] < Retry
    /\ since' = [c \in Clients |-> since[c] + 1]
    /\ UNCHANGED <<udp_client, made, freed, holder, peer, closed, reachable, pc, using, late>>

Tick ==
    /\ \E c \in Clients : since[c] < Retry
    /\ since' = [c \in Clients |-> IF since[c] < Retry THEN since[c] + 1 ELSE since[c]]
    /\ UNCHANGED <<udp_client, made, freed, holder, peer, closed, reachable, pc, using, late>>

\* What a thread does on its own inside a call or a destructor.
Step(t) ==
    \/ LockRelease(t) \/ Destroy(t) \/ Free(t)
    \/ Lock(t) \/ PollThenSend(t) \/ Flush(t)
    \/ Connected(t) \/ TooSoon(t) \/ Attempt(t) \/ Connect(t) \/ GiveUp(t) \/ Send(t)

Next ==
    \/ \E t \in Threads : Pin(t) \/ Call(t) \/ Step(t) \/ UseFreed(t)
    \/ Disturbance
    \/ Tick

Spec == Init /\ [][Next]_vars

\* Threads run, and between two calls each of them sleeps or waits for the
\* display, so that a thread waiting for the mutex gets it in the end.
FairSpec == Spec /\ WF_vars(Tick) /\ \A t \in Threads : SF_vars(Step(t))

------------------------------------------------------------------------------
\* The type of every variable.
TypeOK ==
    /\ udp_client \in Clients \cup {Null}
    /\ made \in 0 .. MaxPins
    /\ freed \in SUBSET Clients
    /\ holder \in [Clients -> Threads \cup {Nobody}]
    /\ peer \in [Clients -> {"null", "connected"}]
    /\ closed \in [Clients -> BOOLEAN]
    /\ since \in [Clients -> 0 .. Never]
    /\ reachable \in BOOLEAN
    /\ pc \in [Threads -> Locked \cup {"idle", "lock", "release", "free", "crashed"}]
    /\ using \in [Threads -> Clients \cup {Null}]
    /\ late \in SUBSET Threads

\* Whoever is about to call enet_peer_send on a client that is still there has a
\* connected peer, although other threads service the same host and drop its peer
\* when it disconnects, and although a destructor may run.
PeerValidAtSend ==
    \A t \in Threads : At(t, "send") => peer[using[t]] = "connected"

\* A call that has taken the mutex before the client's destructor keeps its client
\* alive until it returns: pinning a new peer meanwhile waits for it.  (A call that
\* gets the mutex after the destructor's body does not.)
LockedClientLives ==
    \A t \in Threads \ late : pc[t] \in Calls \ {"lock"} => using[t] \notin freed

\* Every call and every destruction of a client returns, unless the process dies or
\* the call's client is freed under it: no path leaves the mutex locked.
CallsReturn ==
    \A t \in Threads :
        pc[t] \in Calls \cup {"release", "destroy", "free"}
            ~> pc[t] \in {"idle", "crashed"} \/ using[t] \in freed

\* A client that keeps sending to a reachable peer connects again and again
\* after every failure: the limit on attempts delays them and never stops them.
Reconnects ==
    \A c \in Clients :
        /\ <>[]reachable
        /\ []<>(using["worker"] = c /\ At("worker", "ensure"))
        => []<>(peer[c] = "connected")

\* The clients that are connected, those on which a thread is about to send, and
\* those that the destructor's body has left.
connected == {c \in Clients : peer[c] = "connected"}
sending   == {c \in Clients : \E t \in Threads : At(t, "send") /\ using[t] = c}
dying     == {c \in Clients : \E t \in Threads : pc[t] = "free" /\ using[t] = c}

\* What the statements amount to: who holds a client's mutex is inside it.
Use == INSTANCE ClientUse WITH
          latest <- made, inside <- holder, linked <- connected, gone <- freed

\* UdpClient implements ClientUse: however calls, flushes, attempts and replacements
\* interleave, each client is used by one thread at a time, its connection is only
\* changed by that thread or by its destruction, a destruction begins with nobody
\* else inside, and a client that was freed is never entered again.
ImplementsClientUse == Use!Spec

\* udp_client.h on mutex_: it "guards host_/peer_ and all ENet calls".  No call is
\* under way on a client that was destroyed.
ClientOutlivesCalls ==
    \A t \in Threads : pc[t] \in Calls => using[t] \notin freed
==============================================================================
