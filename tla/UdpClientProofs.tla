---------------------------- MODULE UdpClientProofs ----------------------------
(***************************************************************************)
(* Proofs about UdpClient for any retry interval and any number of pins.   *)
(*                                                                         *)
(* What a call relies on is that it holds the mutex of a client that is    *)
(* still there.  The inductive invariant says who holds it (Holding), that *)
(* whoever holds it is running and its client is there (HeldInside), that  *)
(* a client is released once, by one thread, after udp_client_ has left it *)
(* (Retired), that whoever was inside before the destructor has left when  *)
(* its body ends (KeptAlive), and that peer_ only changes under the mutex  *)
(* (PeerValidAtSend).                                                      *)
(***************************************************************************)
EXTENDS UdpClient, TLAPS

Releasing(t) == pc[t] \in {"release", "destroy", "free"}

\* A thread between lock and unlock is the holder of its client, if that exists.
Holding ==
    \A t \in Threads :
        /\ pc[t] \in Locked \cup {"lock", "release", "free"} => using[t] \in Clients
        /\ pc[t] \in Locked /\ using[t] \notin freed => holder[using[t]] = t

\* Only clients that pin_connection has replaced are released, and only once.
Retired ==
    /\ udp_client = made
    /\ \A t \in Threads : using[t] <= made
    /\ \A c \in freed : c < made
    /\ \A t \in Threads : Releasing(t) => using[t] < made /\ using[t] \notin freed
    /\ \A t, u \in Threads : Releasing(t) /\ Releasing(u) /\ using[t] = using[u] => t = u

\* A mutex that is held is the mutex of a client that exists, and is held by a call or a
\* destructor that runs on this client, unless the process has crashed: nobody keeps it
\* while waiting or being idle.
HeldInside ==
    \A c \in Clients : holder[c] # Nobody =>
        /\ c \notin freed
        /\ \/ pc[holder[c]] \in Locked /\ using[holder[c]] = c
           \/ pc[holder[c]] = "crashed"

\* When a destructor's body has ended, only calls that entered since are inside.
KeptAlive ==
    /\ LockedClientLives
    /\ \A t \in Threads \ late, u \in Threads :
           pc[t] \in Calls \ {"lock"} /\ pc[u] = "free" => using[t] # using[u]

IInv == TypeOK /\ Holding /\ HeldInside /\ Retired /\ KeptAlive /\ PeerValidAtSend

------------------------------------------------------------------------------
\* Before anything is pinned there is no client and nobody calls one.
LEMMA InitIInv == Init => IInv
  BY RetryAssumption, PinsAssumption
     DEF Init, IInv, TypeOK, Holding, HeldInside, Retired, Releasing, KeptAlive, LockedClientLives,
         PeerValidAtSend, At, Threads, Locked, Calls, Null, Never, Nobody

\* Every step keeps the types.
LEMMA TypeStep == IInv /\ [Next]_vars => TypeOK'
<1> SUFFICES ASSUME IInv, [Next]_vars PROVE TypeOK'
  OBVIOUS
<1> USE RetryAssumption, PinsAssumption
<1> USE DEF client_vars, At, Clients, Locked, Null, Nobody, IInv, TypeOK, Holding, Never
<1>1. ASSUME NEW t \in Threads, Pin(t) PROVE TypeOK'
  <2>1. made' \in 0 .. MaxPins /\ udp_client' \in Clients /\ made' = made + 1
    BY <1>1 DEF Pin
  <2>2. CASE udp_client = Null
    BY <1>1, <2>1, <2>2 DEF Pin
  <2>3. CASE udp_client # Null
    <3>1. using' = [using EXCEPT ![t] = udp_client] /\ pc' = [pc EXCEPT ![t] = "release"]
      BY <1>1, <2>3 DEF Pin, Goto
    <3> QED
      BY <1>1, <2>1, <3>1 DEF Pin
  <2> QED
    BY <2>2, <2>3
<1>2. ASSUME NEW t \in Threads, Call(t) PROVE TypeOK'
  BY <1>2 DEF Call, Goto
<1>3. ASSUME NEW t \in Threads, LockRelease(t) PROVE TypeOK'
  BY <1>3 DEF LockRelease, Goto
<1>4. ASSUME NEW t \in Threads, Destroy(t) PROVE TypeOK'
  BY <1>4 DEF Destroy, Goto, Empty
<1>5. ASSUME NEW t \in Threads, Free(t) PROVE TypeOK'
  BY <1>5 DEF Free, Goto, Empty
<1>6. ASSUME NEW t \in Threads, Lock(t) PROVE TypeOK'
  <2>1. late' \in SUBSET Threads
    BY <1>6 DEF Lock, LateWith
  <2> QED
    BY <1>6, <2>1 DEF Lock, Goto
<1>7. ASSUME NEW t \in Threads, UseFreed(t) PROVE TypeOK'
  <2>1. CASE pc' = [u \in Threads |-> "crashed"] /\ UNCHANGED <<using, late>>
    BY <1>7, <2>1 DEF UseFreed
  <2>2. CASE Goto(t, "idle") /\ using' = [using EXCEPT ![t] = Null] /\ late' = late \ {t}
    BY <1>7, <2>2 DEF UseFreed, Goto
  <2>3. ASSUME NEW label \in Calls, Goto(t, label), label # "lock", late' = late \cup {t},
               UNCHANGED using
        PROVE  TypeOK'
    BY <1>7, <2>3 DEF UseFreed, Goto, Calls
  <2> QED
    BY <1>7, <2>1, <2>2, <2>3 DEF UseFreed, Onward
<1>8. ASSUME NEW t \in Threads, PollThenSend(t) PROVE TypeOK'
  BY <1>8 DEF PollThenSend, Goto, ServiceHost
<1>9. ASSUME NEW t \in Threads, Flush(t) PROVE TypeOK'
  BY <1>9 DEF Flush, Return, Goto, ServiceHost
<1>10. ASSUME NEW t \in Threads, Connected(t) PROVE TypeOK'
  BY <1>10 DEF Connected, Goto
<1>11. ASSUME NEW t \in Threads, TooSoon(t) PROVE TypeOK'
  BY <1>11 DEF TooSoon, Return, Goto
<1>12. ASSUME NEW t \in Threads, Attempt(t) PROVE TypeOK'
  BY <1>12 DEF Attempt, Goto
<1>13. ASSUME NEW t \in Threads, Connect(t) PROVE TypeOK'
  BY <1>13 DEF Connect, Goto
<1>14. ASSUME NEW t \in Threads, GiveUp(t) PROVE TypeOK'
  BY <1>14 DEF GiveUp, Return, Goto
<1>15. ASSUME NEW t \in Threads, Send(t) PROVE TypeOK'
  BY <1>15 DEF Send, Return, Goto
<1>16. CASE Disturbance
  BY <1>16 DEF Disturbance, Network
<1>17. CASE Tick
  BY <1>17 DEF Tick
<1>18. CASE UNCHANGED vars
  BY <1>18 DEF vars
<1> QED
  BY <1>1, <1>2, <1>3, <1>4, <1>5, <1>6, <1>7, <1>8, <1>9,
     <1>10, <1>11, <1>12, <1>13, <1>14, <1>15, <1>16, <1>17, <1>18 DEF Next, Step

\* Whoever enters the mutex finds it free and its client alive, and nobody else
\* gives it away.
LEMMA HoldingStep == IInv /\ [Next]_vars => Holding'
<1> SUFFICES ASSUME IInv, [Next]_vars PROVE Holding'
  OBVIOUS
<1> USE RetryAssumption, PinsAssumption
<1> USE DEF client_vars, At, Clients, Locked, Null, Nobody, IInv, TypeOK, Holding, Retired, Releasing
<1>1. ASSUME NEW t \in Threads, Pin(t) PROVE Holding'
  BY <1>1 DEF Pin, Goto
<1>2. ASSUME NEW t \in Threads, Call(t) PROVE Holding'
  BY <1>2 DEF Call, Goto
<1>3. ASSUME NEW t \in Threads, LockRelease(t) PROVE Holding'
  <2>1. t # Nobody /\ \A u \in Threads : u # Nobody
    BY DEF Threads
  <2>2. using[t] \in Clients /\ using[t] \notin freed
    BY <1>3 DEF LockRelease, Retired, Releasing
  <2> QED
    BY <1>3, <2>1, <2>2 DEF LockRelease, Goto
<1>4. ASSUME NEW t \in Threads, Destroy(t) PROVE Holding'
  BY <1>4 DEF Destroy, Goto, Empty
<1>5. ASSUME NEW t \in Threads, Free(t) PROVE Holding'
  BY <1>5 DEF Free, Goto, Empty
<1>6. ASSUME NEW t \in Threads, Lock(t) PROVE Holding'
  <2>1. \A u \in Threads : u # Nobody
    BY DEF Threads
  <2>2. using[t] \in Clients /\ using[t] \notin freed
    BY <1>6 DEF Lock
  <2> QED
    BY <1>6, <2>1, <2>2 DEF Lock, Goto
<1>7. ASSUME NEW t \in Threads, UseFreed(t) PROVE Holding'
  <2>1. CASE pc' = [u \in Threads |-> "crashed"] /\ UNCHANGED <<using, late>>
    BY <1>7, <2>1 DEF UseFreed
  <2>2. CASE Goto(t, "idle") /\ using' = [using EXCEPT ![t] = Null] /\ late' = late \ {t}
    BY <1>7, <2>2 DEF UseFreed, Goto
  <2>3. ASSUME NEW label \in Calls, Goto(t, label), label # "lock", late' = late \cup {t},
               UNCHANGED using
        PROVE  Holding'
    BY <1>7, <2>3 DEF UseFreed, Goto, Calls
  <2> QED
    BY <1>7, <2>1, <2>2, <2>3 DEF UseFreed, Onward
<1>8. ASSUME NEW t \in Threads, PollThenSend(t) PROVE Holding'
  BY <1>8 DEF PollThenSend, Goto, ServiceHost
<1>9. ASSUME NEW t \in Threads, Flush(t) PROVE Holding'
  BY <1>9 DEF Flush, Return, Goto, ServiceHost
<1>10. ASSUME NEW t \in Threads, Connected(t) PROVE Holding'
  BY <1>10 DEF Connected, Goto
<1>11. ASSUME NEW t \in Threads, TooSoon(t) PROVE Holding'
  BY <1>11 DEF TooSoon, Return, Goto
<1>12. ASSUME NEW t \in Threads, Attempt(t) PROVE Holding'
  BY <1>12 DEF Attempt, Goto
<1>13. ASSUME NEW t \in Threads, Connect(t) PROVE Holding'
  BY <1>13 DEF Connect, Goto
<1>14. ASSUME NEW t \in Threads, GiveUp(t) PROVE Holding'
  BY <1>14 DEF GiveUp, Return, Goto
<1>15. ASSUME NEW t \in Threads, Send(t) PROVE Holding'
  BY <1>15 DEF Send, Return, Goto
<1>16. CASE Disturbance
  BY <1>16 DEF Disturbance, Network
<1>17. CASE Tick
  BY <1>17 DEF Tick
<1>18. CASE UNCHANGED vars
  BY <1>18 DEF vars
<1> QED
  BY <1>1, <1>2, <1>3, <1>4, <1>5, <1>6, <1>7, <1>8, <1>9,
     <1>10, <1>11, <1>12, <1>13, <1>14, <1>15, <1>16, <1>17, <1>18 DEF Next, Step

\* The mutex is left with the call, on every path, and ends with its client.
LEMMA HeldStep == IInv /\ [Next]_vars => HeldInside'
<1> SUFFICES ASSUME IInv, [Next]_vars PROVE HeldInside'
  OBVIOUS
<1> USE RetryAssumption, PinsAssumption
<1> USE DEF client_vars, At, Clients, Locked, Null, Nobody, IInv, TypeOK, Holding, HeldInside
<1>1. ASSUME NEW t \in Threads, Pin(t) PROVE HeldInside'
  BY <1>1 DEF Pin, Goto
<1>2. ASSUME NEW t \in Threads, Call(t) PROVE HeldInside'
  BY <1>2 DEF Call, Goto
<1>3. ASSUME NEW t \in Threads, LockRelease(t) PROVE HeldInside'
  <2>1. t # Nobody /\ \A u \in Threads : u # Nobody
    BY DEF Threads
  <2>2. using[t] \in Clients /\ using[t] \notin freed
    BY <1>3 DEF LockRelease, Retired, Releasing
  <2> QED
    BY <1>3, <2>1, <2>2 DEF LockRelease, Goto
<1>4. ASSUME NEW t \in Threads, Destroy(t) PROVE HeldInside'
  BY <1>4 DEF Destroy, Goto, Empty
<1>5. ASSUME NEW t \in Threads, Free(t) PROVE HeldInside'
  BY <1>5 DEF Free, Goto, Empty
<1>6. ASSUME NEW t \in Threads, Lock(t) PROVE HeldInside'
  <2>1. \A u \in Threads : u # Nobody
    BY DEF Threads
  <2>2. using[t] \in Clients /\ using[t] \notin freed
    BY <1>6 DEF Lock
  <2> QED
    BY <1>6, <2>1, <2>2 DEF Lock, Goto
<1>7. ASSUME NEW t \in Threads, UseFreed(t) PROVE HeldInside'
  <2>1. CASE pc' = [u \in Threads |-> "crashed"] /\ UNCHANGED <<using, late>>
    BY <1>7, <2>1 DEF UseFreed
  <2>2. CASE Goto(t, "idle") /\ using' = [using EXCEPT ![t] = Null] /\ late' = late \ {t}
    <3>1. \A c \in Clients : holder[c] # t
      <4> SUFFICES ASSUME NEW c \in Clients, holder[c] = t PROVE FALSE
        OBVIOUS
      <4>1. t # Nobody /\ pc[t] # "crashed" /\ using[t] \in freed
        BY <1>7 DEF UseFreed, Calls, Threads
      <4> QED  BY <4>1
    <3>2. UNCHANGED <<holder, freed>> /\ \A u \in Threads \ {t} : pc'[u] = pc[u] /\ using'[u] = using[u]
      BY <1>7, <2>2 DEF UseFreed, Goto
    <3>3. \A c \in Clients : holder[c] # Nobody => holder[c] \in Threads \ {t}
      BY <3>1
    <3> HIDE DEF Clients, Locked, Nobody
    <3> QED  BY <3>2, <3>3
  <2>3. ASSUME NEW label \in Calls, Goto(t, label), label # "lock", late' = late \cup {t},
               UNCHANGED using
        PROVE  HeldInside'
    BY <1>7, <2>3 DEF UseFreed, Goto, Calls
  <2> QED
    BY <1>7, <2>1, <2>2, <2>3 DEF UseFreed, Onward
<1>8. ASSUME NEW t \in Threads, PollThenSend(t) PROVE HeldInside'
  BY <1>8 DEF PollThenSend, Goto, ServiceHost
<1>9. ASSUME NEW t \in Threads, Flush(t) PROVE HeldInside'
  BY <1>9 DEF Flush, Return, Goto, ServiceHost
<1>10. ASSUME NEW t \in Threads, Connected(t) PROVE HeldInside'
  BY <1>10 DEF Connected, Goto
<1>11. ASSUME NEW t \in Threads, TooSoon(t) PROVE HeldInside'
  BY <1>11 DEF TooSoon, Return, Goto
<1>12. ASSUME NEW t \in Threads, Attempt(t) PROVE HeldInside'
  BY <1>12 DEF Attempt, Goto
<1>13. ASSUME NEW t \in Threads, Connect(t) PROVE HeldInside'
  BY <1>13 DEF Connect, Goto
<1>14. ASSUME NEW t \in Threads, GiveUp(t) PROVE HeldInside'
  BY <1>14 DEF GiveUp, Return, Goto
<1>15. ASSUME NEW t \in Threads, Send(t) PROVE HeldInside'
  BY <1>15 DEF Send, Return, Goto
<1>16. CASE Disturbance
  BY <1>16 DEF Disturbance, Network
<1>17. CASE Tick
  BY <1>17 DEF Tick
<1>18. CASE UNCHANGED vars
  BY <1>18 DEF vars
<1> QED
  BY <1>1, <1>2, <1>3, <1>4, <1>5, <1>6, <1>7, <1>8, <1>9,
     <1>10, <1>11, <1>12, <1>13, <1>14, <1>15, <1>16, <1>17, <1>18 DEF Next, Step

\* A pin retires the client that udp_client_ leaves, which nobody has retired
\* before.
LEMMA RetiredStep == IInv /\ [Next]_vars => Retired'
<1> SUFFICES ASSUME IInv, [Next]_vars PROVE Retired'
  OBVIOUS
<1> USE RetryAssumption, PinsAssumption
<1> USE DEF client_vars, At, Clients, Locked, Null, Nobody, IInv, TypeOK, Holding, Retired, Releasing
<1>1. ASSUME NEW t \in Threads, Pin(t) PROVE Retired'
  <2>1. made' = made + 1 /\ udp_client' = made' /\ made \in Nat /\ UNCHANGED freed
    BY <1>1 DEF Pin
  <2>2. CASE udp_client = Null
    BY <1>1, <2>1, <2>2 DEF Pin
  <2>3. CASE udp_client # Null
    <3>1. using' = [using EXCEPT ![t] = made] /\ pc' = [pc EXCEPT ![t] = "release"]
      BY <1>1, <2>3 DEF Pin, Goto
    <3>2. made \notin freed /\ \A c \in freed : c < made + 1
      BY <2>1
    <3>3. \A u \in Threads \ {t} : using'[u] = using[u] /\ pc'[u] = pc[u]
      BY <3>1
    <3>4. using'[t] = made
      BY <3>1
    <3> QED
      BY <2>1, <3>1, <3>2, <3>3, <3>4
  <2> QED
    BY <2>2, <2>3
<1>2. ASSUME NEW t \in Threads, Call(t) PROVE Retired'
  BY <1>2 DEF Call, Goto
<1>3. ASSUME NEW t \in Threads, LockRelease(t) PROVE Retired'
  BY <1>3 DEF LockRelease, Goto
<1>4. ASSUME NEW t \in Threads, Destroy(t) PROVE Retired'
  BY <1>4 DEF Destroy, Goto, Empty
<1>5. ASSUME NEW t \in Threads, Free(t) PROVE Retired'
  BY <1>5 DEF Free, Goto, Empty
<1>6. ASSUME NEW t \in Threads, Lock(t) PROVE Retired'
  BY <1>6 DEF Lock, Goto, LateWith
<1>7. ASSUME NEW t \in Threads, UseFreed(t) PROVE Retired'
  <2>1. CASE pc' = [u \in Threads |-> "crashed"] /\ UNCHANGED <<using, late>>
    BY <1>7, <2>1 DEF UseFreed
  <2>2. CASE Goto(t, "idle") /\ using' = [using EXCEPT ![t] = Null] /\ late' = late \ {t}
    BY <1>7, <2>2 DEF UseFreed, Goto
  <2>3. ASSUME NEW label \in Calls, Goto(t, label), label # "lock", late' = late \cup {t},
               UNCHANGED using
        PROVE  Retired'
    BY <1>7, <2>3 DEF UseFreed, Goto, Calls
  <2> QED
    BY <1>7, <2>1, <2>2, <2>3 DEF UseFreed, Onward
<1>8. ASSUME NEW t \in Threads, PollThenSend(t) PROVE Retired'
  BY <1>8 DEF PollThenSend, Goto, ServiceHost
<1>9. ASSUME NEW t \in Threads, Flush(t) PROVE Retired'
  BY <1>9 DEF Flush, Return, Goto, ServiceHost
<1>10. ASSUME NEW t \in Threads, Connected(t) PROVE Retired'
  BY <1>10 DEF Connected, Goto
<1>11. ASSUME NEW t \in Threads, TooSoon(t) PROVE Retired'
  BY <1>11 DEF TooSoon, Return, Goto
<1>12. ASSUME NEW t \in Threads, Attempt(t) PROVE Retired'
  BY <1>12 DEF Attempt, Goto
<1>13. ASSUME NEW t \in Threads, Connect(t) PROVE Retired'
  BY <1>13 DEF Connect, Goto
<1>14. ASSUME NEW t \in Threads, GiveUp(t) PROVE Retired'
  BY <1>14 DEF GiveUp, Return, Goto
<1>15. ASSUME NEW t \in Threads, Send(t) PROVE Retired'
  BY <1>15 DEF Send, Return, Goto
<1>16. CASE Disturbance
  BY <1>16 DEF Disturbance, Network
<1>17. CASE Tick
  BY <1>17 DEF Tick
<1>18. CASE UNCHANGED vars
  BY <1>18 DEF vars
<1> QED
  BY <1>1, <1>2, <1>3, <1>4, <1>5, <1>6, <1>7, <1>8, <1>9,
     <1>10, <1>11, <1>12, <1>13, <1>14, <1>15, <1>16, <1>17, <1>18 DEF Next, Step

\* The destructor's body runs with the mutex held, so it ends with nobody else inside;
\* whoever takes the mutex from then on is late.
LEMMA KeptAliveStep == IInv /\ [Next]_vars => KeptAlive'
<1> SUFFICES ASSUME IInv, [Next]_vars PROVE KeptAlive'
  OBVIOUS
<1> USE RetryAssumption, PinsAssumption
<1> USE DEF client_vars, At, Clients, Locked, Null, Nobody, IInv, TypeOK, Holding, Retired, Releasing, KeptAlive, LockedClientLives, Calls
<1>1. ASSUME NEW t \in Threads, Pin(t) PROVE KeptAlive'
  <2>1. UNCHANGED <<freed, late>>
    BY <1>1 DEF Pin
  <2>2. \A u \in Threads : u # t \/ udp_client = Null => pc'[u] = pc[u] /\ using'[u] = using[u]
    BY <1>1 DEF Pin, Goto
  <2>3. pc'[t] \in {"idle", "release"}
    BY <1>1 DEF Pin, Goto
  <2>4. \A u \in Threads : pc'[u] \in Calls \cup {"free"} => pc'[u] = pc[u] /\ using'[u] = using[u]
    BY <2>2, <2>3
  <2> QED  BY <2>1, <2>4
<1>2. ASSUME NEW t \in Threads, Call(t) PROVE KeptAlive'
  BY <1>2 DEF Call, Goto
<1>3. ASSUME NEW t \in Threads, LockRelease(t) PROVE KeptAlive'
  BY <1>3 DEF LockRelease, Goto
<1>4. ASSUME NEW t \in Threads, Destroy(t) PROVE KeptAlive'
  BY <1>4 DEF Destroy, Goto, Empty
<1>5. ASSUME NEW t \in Threads, Free(t) PROVE KeptAlive'
  BY <1>5 DEF Free, Goto, Empty
<1>6. ASSUME NEW t \in Threads, Lock(t) PROVE KeptAlive'
  BY <1>6 DEF Lock, Goto, LateWith
<1>7. ASSUME NEW t \in Threads, UseFreed(t) PROVE KeptAlive'
  <2>1. CASE pc' = [u \in Threads |-> "crashed"] /\ UNCHANGED <<using, late>>
    BY <1>7, <2>1 DEF UseFreed
  <2>2. CASE Goto(t, "idle") /\ using' = [using EXCEPT ![t] = Null] /\ late' = late \ {t}
    BY <1>7, <2>2 DEF UseFreed, Goto
  <2>3. ASSUME NEW label \in Calls, Goto(t, label), label # "lock", late' = late \cup {t},
               UNCHANGED using
        PROVE  KeptAlive'
    BY <1>7, <2>3 DEF UseFreed, Goto, Calls
  <2> QED
    BY <1>7, <2>1, <2>2, <2>3 DEF UseFreed, Onward
<1>8. ASSUME NEW t \in Threads, PollThenSend(t) PROVE KeptAlive'
  BY <1>8 DEF PollThenSend, Goto, ServiceHost
<1>9. ASSUME NEW t \in Threads, Flush(t) PROVE KeptAlive'
  BY <1>9 DEF Flush, Return, Goto, ServiceHost
<1>10. ASSUME NEW t \in Threads, Connected(t) PROVE KeptAlive'
  BY <1>10 DEF Connected, Goto
<1>11. ASSUME NEW t \in Threads, TooSoon(t) PROVE KeptAlive'
  BY <1>11 DEF TooSoon, Return, Goto
<1>12. ASSUME NEW t \in Threads, Attempt(t) PROVE KeptAlive'
  BY <1>12 DEF Attempt, Goto
<1>13. ASSUME NEW t \in Threads, Connect(t) PROVE KeptAlive'
  BY <1>13 DEF Connect, Goto
<1>14. ASSUME NEW t \in Threads, GiveUp(t) PROVE KeptAlive'
  BY <1>14 DEF GiveUp, Return, Goto
<1>15. ASSUME NEW t \in Threads, Send(t) PROVE KeptAlive'
  BY <1>15 DEF Send, Return, Goto
<1>16. CASE Disturbance
  BY <1>16 DEF Disturbance, Network
<1>17. CASE Tick
  BY <1>17 DEF Tick
<1>18. CASE UNCHANGED vars
  BY <1>18 DEF vars
<1> QED
  BY <1>1, <1>2, <1>3, <1>4, <1>5, <1>6, <1>7, <1>8, <1>9,
     <1>10, <1>11, <1>12, <1>13, <1>14, <1>15, <1>16, <1>17, <1>18 DEF Next, Step

\* Only the holder of the mutex services the host, so a peer found connected is
\* still there when it is sent to, as long as the client is.
LEMMA PeerStep == IInv /\ [Next]_vars => PeerValidAtSend'
<1> SUFFICES ASSUME IInv, [Next]_vars PROVE PeerValidAtSend'
  OBVIOUS
<1> USE RetryAssumption, PinsAssumption
<1> USE DEF client_vars, At, Clients, Locked, Null, Nobody, IInv, TypeOK, Holding, PeerValidAtSend
<1>1. ASSUME NEW t \in Threads, Pin(t) PROVE PeerValidAtSend'
  BY <1>1 DEF Pin, Goto
<1>2. ASSUME NEW t \in Threads, Call(t) PROVE PeerValidAtSend'
  BY <1>2 DEF Call, Goto
<1>3. ASSUME NEW t \in Threads, LockRelease(t) PROVE PeerValidAtSend'
  BY <1>3 DEF LockRelease, Goto
<1>4. ASSUME NEW t \in Threads, Destroy(t) PROVE PeerValidAtSend'
  BY <1>4 DEF Destroy, Goto, Empty
<1>5. ASSUME NEW t \in Threads, Free(t) PROVE PeerValidAtSend'
  BY <1>5 DEF Free, Goto, Empty
<1>6. ASSUME NEW t \in Threads, Lock(t) PROVE PeerValidAtSend'
  BY <1>6 DEF Lock, Goto, LateWith
<1>7. ASSUME NEW t \in Threads, UseFreed(t) PROVE PeerValidAtSend'
  <2>1. CASE pc' = [u \in Threads |-> "crashed"] /\ UNCHANGED <<using, late>>
    BY <1>7, <2>1 DEF UseFreed
  <2>2. CASE Goto(t, "idle") /\ using' = [using EXCEPT ![t] = Null] /\ late' = late \ {t}
    BY <1>7, <2>2 DEF UseFreed, Goto
  <2>3. ASSUME NEW label \in Calls, Goto(t, label), label # "lock", late' = late \cup {t},
               UNCHANGED using
        PROVE  PeerValidAtSend'
    BY <1>7, <2>3 DEF UseFreed, Goto, Calls
  <2> QED
    BY <1>7, <2>1, <2>2, <2>3 DEF UseFreed, Onward
<1>8. ASSUME NEW t \in Threads, PollThenSend(t) PROVE PeerValidAtSend'
  BY <1>8 DEF PollThenSend, Goto, ServiceHost
<1>9. ASSUME NEW t \in Threads, Flush(t) PROVE PeerValidAtSend'
  BY <1>9 DEF Flush, Return, Goto, ServiceHost
<1>10. ASSUME NEW t \in Threads, Connected(t) PROVE PeerValidAtSend'
  BY <1>10 DEF Connected, Goto
<1>11. ASSUME NEW t \in Threads, TooSoon(t) PROVE PeerValidAtSend'
  BY <1>11 DEF TooSoon, Return, Goto
<1>12. ASSUME NEW t \in Threads, Attempt(t) PROVE PeerValidAtSend'
  BY <1>12 DEF Attempt, Goto
<1>13. ASSUME NEW t \in Threads, Connect(t) PROVE PeerValidAtSend'
  BY <1>13 DEF Connect, Goto
<1>14. ASSUME NEW t \in Threads, GiveUp(t) PROVE PeerValidAtSend'
  BY <1>14 DEF GiveUp, Return, Goto
<1>15. ASSUME NEW t \in Threads, Send(t) PROVE PeerValidAtSend'
  BY <1>15 DEF Send, Return, Goto
<1>16. CASE Disturbance
  BY <1>16 DEF Disturbance, Network
<1>17. CASE Tick
  BY <1>17 DEF Tick
<1>18. CASE UNCHANGED vars
  BY <1>18 DEF vars
<1> QED
  BY <1>1, <1>2, <1>3, <1>4, <1>5, <1>6, <1>7, <1>8, <1>9,
     <1>10, <1>11, <1>12, <1>13, <1>14, <1>15, <1>16, <1>17, <1>18 DEF Next, Step

\* IInv holds in every reachable state.
THEOREM Invariant == Spec => []IInv
<1>1. IInv /\ [Next]_vars => IInv'
  BY TypeStep, HoldingStep, HeldStep, RetiredStep, KeptAliveStep, PeerStep DEF IInv
<1> QED
  BY InitIInv, <1>1, PTL DEF Spec

------------------------------------------------------------------------------
\* Every variable keeps its type.
THEOREM TypeCorrect == Spec => []TypeOK
<1>1. IInv => TypeOK
  BY DEF IInv
<1> QED
  BY <1>1, Invariant, PTL

\* Nobody sends to a peer that another thread has dropped, however the calls of
\* the threads interleave.
THEOREM PeerStaysValid == Spec => []PeerValidAtSend
<1>1. IInv => PeerValidAtSend
  BY DEF IInv
<1> QED
  BY <1>1, Invariant, PTL

\* A call that has taken the mutex before the destructor returns before its client is
\* freed.
THEOREM LockKeepsAlive == Spec => []LockedClientLives
<1>1. IInv => LockedClientLives
  BY DEF IInv, KeptAlive
<1> QED
  BY <1>1, Invariant, PTL

------------------------------------------------------------------------------
(***************************************************************************)
(* UdpClient implements ClientUse.                                         *)
(***************************************************************************)
\* A thread that holds the mutex of a client that is there is the only one that may be
\* about to send on it.
LEMMA OnlyHolderSends ==
    ASSUME IInv, NEW t \in Threads, pc[t] \in Locked, using[t] \notin freed
    PROVE  /\ using[t] \in Clients /\ holder[using[t]] = t
           /\ using[t] \in sending <=> pc[t] = "send"
<1>1. \A u \in Threads : At(u, "send") => holder[using[u]] = u
  BY DEF IInv, Holding, Locked, At
<1>2. using[t] \in Clients /\ holder[using[t]] = t
  BY DEF IInv, Holding
<1> QED  BY <1>1, <1>2 DEF sending, At

\* What a step of one thread does to the clients somebody is about to send on.
LEMMA SendingAfter ==
    ASSUME IInv, NEW t \in Threads, UNCHANGED freed,
           \A u \in Threads \ {t} : pc'[u] = pc[u] /\ using'[u] = using[u],
           pc'[t] = "send" => using'[t] = using[t]
    PROVE  /\ pc'[t] = "send" /\ using[t] \notin freed =>
                  sending' = sending \cup ({using[t]} \cap Clients)
           /\ pc'[t] # "send" /\ pc[t] # "send" => sending' = sending
           /\ pc'[t] # "send" /\ At(t, "send") => sending' = sending \ {using[t]}
           /\ using[t] \in freed => sending' = sending
<1>1. CASE pc'[t] = "send" /\ using[t] \notin freed
  <2>1. \A d \in Clients : d \in sending' <=> d \in sending \/ d = using[t]
    BY <1>1 DEF sending, At
  <2> QED  BY <1>1, <2>1 DEF sending
<1>2. CASE (pc'[t] # "send" /\ pc[t] # "send") \/ using[t] \in freed
  <2>1. CASE pc'[t] # "send" /\ pc[t] # "send"
    <3>1. \A d \in Clients : d \in sending' <=> d \in sending
      BY <2>1 DEF sending, At
    <3> QED  BY <2>1, <3>1 DEF sending, At
  <2>2. CASE using[t] \in freed
    <3>1. \A d \in Clients : d \in sending' <=> d \in sending
      BY <2>2 DEF sending, At
    <3> QED  BY <2>2, <3>1 DEF sending, At
  <2> QED  BY <1>2, <2>1, <2>2
<1>3. CASE pc'[t] # "send" /\ At(t, "send")
  <2>1. \A u \in Threads : At(u, "send") /\ using[u] = using[t] => u = t
    BY <1>3 DEF IInv, Holding, Locked, At
  <2>2. \A d \in Clients : d \in sending' <=> d \in sending /\ d # using[t]
    BY <1>3, <2>1 DEF sending, At
  <2> QED  BY <1>3, <2>2 DEF sending, At
<1> QED  BY <1>1, <1>2, <1>3 DEF At

\* A step that neither ends a destructor's body nor frees a client leaves the dying ones.
LEMMA DyingAfter ==
    ASSUME NEW t \in Threads, pc[t] # "free", pc'[t] # "free",
           \A u \in Threads \ {t} : pc'[u] = pc[u] /\ using'[u] = using[u]
    PROVE  dying' = dying
<1>1. \A d \in Clients : d \in dying' <=> d \in dying
  BY DEF dying
<1> QED  BY <1>1 DEF dying

\* Nothing but a step with the mutex changes what is connected.
LEMMA SameConnected ==
    ASSUME UNCHANGED peer
    PROVE  connected' = connected
BY DEF connected

LEMMA PinReplaces ==
    ASSUME IInv, NEW t \in Threads, Pin(t)
    PROVE  Use!Replace
<1>1. made + 1 \in Clients /\ made' = made + 1 /\ UNCHANGED <<freed, holder, peer>>
  BY PinsAssumption DEF Pin, client_vars, IInv, TypeOK, Clients
<1>2. sending' = sending /\ dying' = dying
  <2>1. CASE UNCHANGED <<pc, using>>
    BY <1>1, <2>1 DEF sending, dying, At
  <2>2. CASE Goto(t, "release") /\ using' = [using EXCEPT ![t] = udp_client]
    <3>1. pc[t] = "idle" /\ pc' = [pc EXCEPT ![t] = "release"]
      BY <2>2 DEF Pin, Goto
    <3>2. /\ \A u \in Threads \ {t} : pc'[u] = pc[u] /\ using'[u] = using[u]
          /\ pc'[t] = "release"
      BY <2>2, <3>1 DEF IInv, TypeOK
    <3> QED  BY <1>1, <3>1, <3>2, SendingAfter, DyingAfter
  <2> QED  BY <2>1, <2>2 DEF Pin
<1> QED  BY <1>1, <1>2, SameConnected DEF Use!Replace

LEMMA LockEnters ==
    ASSUME IInv, NEW t \in Threads, Lock(t) \/ LockRelease(t)
    PROVE  Use!Enter(t, using[t]) /\ using[t] \in Clients
<1>1. /\ using[t] \in Clients /\ using[t] \notin freed /\ using[t] <= made
      /\ holder[using[t]] = Nobody /\ holder' = [holder EXCEPT ![using[t]] = t]
      /\ UNCHANGED <<made, freed, peer, using>>
  BY DEF Lock, LockRelease, At, IInv, Holding, Retired, Releasing
<1>2. sending' = sending /\ dying' = dying
  <2>1. /\ pc' = [pc EXCEPT ![t] = "poll"] \/ pc' = [pc EXCEPT ![t] = "destroy"]
        /\ pc[t] \in {"lock", "release"}
    BY DEF Lock, LockRelease, At, Goto
  <2> QED  BY <1>1, <2>1, SendingAfter, DyingAfter DEF IInv, TypeOK
<1> QED  BY <1>1, <1>2, SameConnected DEF Use!Enter

\* Servicing the host may find the peer gone.
LEMMA ServiceDisconnects ==
    ASSUME IInv, NEW c \in Clients, ServiceHost(c)
    PROVE  connected' = connected \/ connected' = connected \ {c}
<1>1. \A d \in Clients \ {c} : peer'[d] = peer[d]
  BY DEF ServiceHost, IInv, TypeOK
<1>2. peer'[c] = peer[c] \/ peer'[c] = "null"
  BY DEF ServiceHost, IInv, TypeOK
<1> QED  BY <1>1, <1>2 DEF connected

LEMMA PollUnlinks ==
    ASSUME IInv, NEW t \in Threads, PollThenSend(t)
    PROVE  Use!Unlink(t, using[t]) \/ UNCHANGED Use!vars
<1>1. /\ pc[t] \in Locked /\ pc[t] # "send" /\ pc[t] # "free" /\ using[t] \notin freed
      /\ pc' = [pc EXCEPT ![t] = "ensure"] /\ UNCHANGED <<made, freed, holder, using>>
  BY DEF PollThenSend, At, Goto, Locked
<1>2. sending' = sending /\ dying' = dying
  BY <1>1, SendingAfter, DyingAfter DEF IInv, TypeOK
<1>3. connected' = connected \/ connected' = connected \ {using[t]}
  BY <1>1, OnlyHolderSends, ServiceDisconnects DEF PollThenSend
<1> QED  BY <1>1, <1>2, <1>3, OnlyHolderSends DEF Use!Unlink, Use!vars

LEMMA ConnectLinks ==
    ASSUME IInv, NEW t \in Threads, Connected(t) \/ Connect(t)
    PROVE  Use!Link(t, using[t])
<1>1. /\ pc[t] \in Locked /\ pc[t] # "send" /\ pc[t] # "free" /\ using[t] \notin freed
      /\ pc' = [pc EXCEPT ![t] = "send"] /\ UNCHANGED <<made, freed, holder, using>>
  BY DEF Connected, Connect, At, Goto, Locked, client_vars
<1>2. using[t] \in Clients
  BY <1>1, OnlyHolderSends
<1>3. sending' = sending \cup {using[t]} /\ dying' = dying
  BY <1>1, <1>2, SendingAfter, DyingAfter DEF IInv, TypeOK
<1>4. connected' = connected \cup {using[t]}
  <2>1. CASE Connected(t)
    BY <1>2, <2>1 DEF Connected, client_vars, connected
  <2>2. CASE Connect(t)
    <3>1. peer' = [peer EXCEPT ![using[t]] = "connected"] /\ peer \in [Clients -> {"null", "connected"}]
      BY <2>2 DEF Connect, IInv, TypeOK
    <3>2. \A d \in Clients : peer'[d] = IF d = using[t] THEN "connected" ELSE peer[d]
      BY <3>1
    <3> QED  BY <1>2, <3>2 DEF connected
  <2> QED  BY <2>1, <2>2
<1> QED  BY <1>1, <1>3, <1>4, OnlyHolderSends DEF Use!Link

\* The ways out of a call: a flush, a refused or failed attempt, a sent message.
LEMMA ReturnLeaves ==
    ASSUME IInv, NEW t \in Threads, Flush(t) \/ TooSoon(t) \/ GiveUp(t) \/ Send(t)
    PROVE  Use!Leave(t, using[t]) /\ using[t] \in Clients
<1>1. /\ pc[t] \in Locked /\ pc[t] # "free" /\ using[t] \notin freed
      /\ Return(t) /\ pc' = [pc EXCEPT ![t] = "idle"] /\ using' = [using EXCEPT ![t] = Null]
      /\ UNCHANGED <<made, freed>>
  BY DEF Flush, TooSoon, GiveUp, Send, At, Return, Goto, Locked
<1>2. /\ \A u \in Threads \ {t} : pc'[u] = pc[u] /\ using'[u] = using[u]
      /\ pc'[t] = "idle"
  BY <1>1 DEF IInv, TypeOK
<1>3. sending' = sending \ {using[t]} /\ dying' = dying
  <2>1. pc[t] # "send" => using[t] \notin sending
    BY <1>1, OnlyHolderSends
  <2>2. pc[t] = "send" => At(t, "send")
    BY <1>1 DEF At
  <2> QED  BY <1>1, <1>2, <2>1, <2>2, SendingAfter, DyingAfter
<1>4. connected' = connected \/ (using[t] \notin sending /\ connected' = connected \ {using[t]})
  <2>1. CASE Flush(t)
    <3>1. pc[t] = "poll" /\ ServiceHost(using[t])
      BY <2>1 DEF Flush, At
    <3> QED  BY <1>1, <3>1, OnlyHolderSends, ServiceDisconnects
  <2>2. CASE ~ Flush(t)
    BY <2>2, SameConnected DEF TooSoon, GiveUp, Send
  <2> QED  BY <2>1, <2>2
<1> QED  BY <1>1, <1>3, <1>4, OnlyHolderSends DEF Return, Use!Leave

\* What destroying the peer and the host leaves.
LEMMA EmptyUnlinks ==
    ASSUME IInv, NEW c \in Clients, Empty(c)
    PROVE  connected' = connected \ {c} /\ holder' = [holder EXCEPT ![c] = Nobody]
<1>1. peer' = [peer EXCEPT ![c] = "null"] /\ peer \in [Clients -> {"null", "connected"}]
  BY DEF Empty, IInv, TypeOK
<1>2. \A d \in Clients : peer'[d] = IF d = c THEN "null" ELSE peer[d]
  BY <1>1
<1> QED  BY <1>2 DEF connected, Empty

LEMMA DestroyDestroys ==
    ASSUME IInv, NEW t \in Threads, Destroy(t)
    PROVE  Use!Destroy(t, using[t]) /\ using[t] \in Clients
<1>1. /\ pc[t] = "destroy" /\ pc[t] \in Locked /\ Releasing(t) /\ Empty(using[t])
      /\ pc' = [pc EXCEPT ![t] = "free"] /\ UNCHANGED <<made, freed, using>>
  BY DEF Destroy, Goto, Locked, Releasing
<1>2. /\ using[t] \notin freed /\ using[t] # made
      /\ \A u \in Threads : Releasing(u) /\ using[u] = using[t] => u = t
  BY <1>1 DEF IInv, Retired, TypeOK
<1>3. using[t] \in Clients /\ holder[using[t]] = t /\ using[t] \notin sending
  BY <1>1, <1>2, OnlyHolderSends
<1>4. /\ \A u \in Threads \ {t} : pc'[u] = pc[u] /\ using'[u] = using[u]
      /\ pc'[t] = "free"
  BY <1>1 DEF IInv, TypeOK
<1>5. sending' = sending
  BY <1>1, <1>4, SendingAfter
<1>6. dying' = dying \cup {using[t]}
  <2>1. \A d \in Clients : d \in dying' <=> d \in dying \/ d = using[t]
    BY <1>1, <1>4 DEF dying
  <2> QED  BY <1>3, <2>1 DEF dying
<1>7. using[t] \notin dying
  BY <1>1, <1>2 DEF dying, Releasing
<1> QED  BY <1>1, <1>2, <1>3, <1>5, <1>6, <1>7, EmptyUnlinks DEF Use!Destroy

LEMMA FreeFrees ==
    ASSUME IInv, NEW t \in Threads, Free(t)
    PROVE  Use!Free(using[t]) /\ using[t] \in Clients
<1>1. /\ pc[t] = "free" /\ Releasing(t) /\ Empty(using[t]) /\ UNCHANGED made
      /\ freed' = freed \cup {using[t]}
      /\ pc' = [pc EXCEPT ![t] = "idle"] /\ using' = [using EXCEPT ![t] = Null]
  BY DEF Free, Goto, Releasing
<1>2. using[t] \in Clients
  BY <1>1 DEF IInv, Holding
<1>3. /\ \A u \in Threads \ {t} : pc'[u] = pc[u] /\ using'[u] = using[u]
      /\ pc'[t] = "idle"
  BY <1>1 DEF IInv, TypeOK
<1>4. sending' = sending \ {using[t]}
  <2>1. \A d \in Clients : d \in sending' <=> d \in sending /\ d # using[t]
    BY <1>1, <1>3 DEF sending, At
  <2> QED  BY <2>1 DEF sending
<1>5. using[t] \in dying /\ dying' = dying \ {using[t]}
  <2>1. \A u \in Threads : pc[u] = "free" /\ using[u] = using[t] => u = t
    BY <1>1 DEF IInv, Retired, Releasing
  <2>2. \A d \in Clients : d \in dying' <=> d \in dying /\ d # using[t]
    BY <1>1, <1>3, <2>1 DEF dying
  <2> QED  BY <1>1, <1>2, <2>2 DEF dying
<1> QED  BY <1>1, <1>2, <1>4, <1>5, EmptyUnlinks DEF Use!Free

\* Reading the pointer, waiting and the world outside change nothing of ClientUse; a
\* statement on a freed client changes nothing either, or ends the process.
LEMMA OthersStutter ==
    ASSUME IInv,
           \/ \E t \in Threads : Call(t) \/ UseFreed(t) \/ Attempt(t)
           \/ Disturbance \/ Tick \/ UNCHANGED vars
    PROVE  Use!Die \/ UNCHANGED Use!vars
<1>1. UNCHANGED <<made, freed, holder, peer>>
  BY DEF Call, UseFreed, Attempt, Disturbance, Tick, vars, client_vars
<1>2. ASSUME NEW t \in Threads, Call(t) \/ Attempt(t)
      PROVE  sending' = sending /\ dying' = dying
  <2>1. /\ pc[t] \in {"idle", "ensure"}
        /\ pc' = [pc EXCEPT ![t] = "lock"] \/ pc' = [pc EXCEPT ![t] = "connect"]
        /\ \A u \in Threads \ {t} : using'[u] = using[u]
    BY <1>2 DEF Call, Attempt, At, Goto, IInv, TypeOK
  <2> QED  BY <1>1, <2>1, SendingAfter, DyingAfter DEF IInv, TypeOK
<1>3. ASSUME NEW t \in Threads, UseFreed(t)
      PROVE  Use!Die \/ (sending' = sending /\ dying' = dying)
  <2>1. CASE pc' = [u \in Threads |-> "crashed"]
    <3>1. sending' = {} /\ dying' = {}
      BY <2>1 DEF sending, dying, At
    <3> QED  BY <1>1, <3>1, SameConnected DEF Use!Die
  <2>2. ASSUME NEW label \in Calls \cup {"idle"}, Goto(t, label),
               \A u \in Threads \ {t} : using'[u] = using[u],
               label # "idle" => using' = using
        PROVE  sending' = sending /\ dying' = dying
    <3>1. /\ using[t] \in freed /\ pc[t] # "free" /\ pc'[t] # "free"
          /\ \A u \in Threads \ {t} : pc'[u] = pc[u]
          /\ pc'[t] = "send" => using'[t] = using[t]
      BY <1>3, <2>2 DEF UseFreed, Calls, Goto, IInv, TypeOK
    <3> QED  BY <1>1, <2>2, <3>1, SendingAfter, DyingAfter
  <2>3. CASE Goto(t, "idle") /\ using' = [using EXCEPT ![t] = Null]
    <3>1. \A u \in Threads \ {t} : using'[u] = using[u]
      BY <2>3 DEF IInv, TypeOK
    <3> QED  BY <2>2, <2>3, <3>1
  <2>4. ASSUME NEW label \in Calls, Goto(t, label), UNCHANGED using
        PROVE  sending' = sending /\ dying' = dying
    BY <2>2, <2>4
  <2> QED  BY <1>3, <2>1, <2>3, <2>4 DEF UseFreed
<1>4. ASSUME Disturbance \/ Tick \/ UNCHANGED vars PROVE UNCHANGED Use!vars
  <2>1. UNCHANGED <<made, freed, holder, peer, pc, using>>
    BY <1>4 DEF Disturbance, Tick, vars, client_vars
  <2> QED  BY <2>1, SameConnected DEF sending, dying, At, Use!vars
<1> QED
  BY <1>1, <1>2, <1>3, <1>4, SameConnected DEF Use!vars

\* UdpClient implements ClientUse, for any number of replacements and any retry interval:
\* every statement is an entry, a change of the link by the thread inside, an exit, one of
\* the two halves of a destruction, or nothing.
THEOREM Refinement == Spec => ImplementsClientUse
<1>1. Init => Use!Init
  BY DEF Init, Use!Init, connected, sending, dying, At, Null
<1>2. IInv /\ [Next]_vars => [Use!Next]_(Use!vars)
  <2> SUFFICES ASSUME IInv, [Next]_vars PROVE Use!Next \/ UNCHANGED Use!vars
    OBVIOUS
  <2>1. ASSUME NEW t \in Threads, Pin(t) PROVE Use!Next
    BY <2>1, PinReplaces DEF Use!Next
  <2>2. ASSUME NEW t \in Threads, Lock(t) \/ LockRelease(t) PROVE Use!Next
    BY <2>2, LockEnters DEF Use!Next
  <2>3. ASSUME NEW t \in Threads, PollThenSend(t) PROVE Use!Next \/ UNCHANGED Use!vars
    <3>1. using[t] \in Clients
      BY <2>3, OnlyHolderSends DEF PollThenSend, At, Locked
    <3> QED  BY <2>3, <3>1, PollUnlinks DEF Use!Next
  <2>4. ASSUME NEW t \in Threads, Connected(t) \/ Connect(t) PROVE Use!Next
    <3>1. using[t] \in Clients
      BY <2>4, OnlyHolderSends DEF Connected, Connect, At, Locked
    <3> QED  BY <2>4, <3>1, ConnectLinks DEF Use!Next
  <2>5. ASSUME NEW t \in Threads, Flush(t) \/ TooSoon(t) \/ GiveUp(t) \/ Send(t) PROVE Use!Next
    BY <2>5, ReturnLeaves DEF Use!Next
  <2>6. ASSUME NEW t \in Threads, Destroy(t) PROVE Use!Next
    BY <2>6, DestroyDestroys DEF Use!Next
  <2>7. ASSUME NEW t \in Threads, Free(t) PROVE Use!Next
    BY <2>7, FreeFrees DEF Use!Next
  <2>8. ASSUME \/ \E t \in Threads : Call(t) \/ UseFreed(t) \/ Attempt(t)
               \/ Disturbance \/ Tick \/ UNCHANGED vars
        PROVE  Use!Next \/ UNCHANGED Use!vars
    BY <2>8, OthersStutter DEF Use!Next
  <2> QED
    BY <2>1, <2>2, <2>3, <2>4, <2>5, <2>6, <2>7, <2>8 DEF Next, Step
<1> QED
  BY <1>1, <1>2, Invariant, PTL DEF Spec, ImplementsClientUse, Use!Spec

------------------------------------------------------------------------------
(***************************************************************************)
(* Why calls return, and how far a freed client can be reached.            *)
(***************************************************************************)
\* How many statements a call or a destructor has at most before it.
Left(label) ==
    CASE label = "lock" -> 5 [] label = "poll" -> 4 [] label \in {"ensure", "release"} -> 3
      [] label \in {"connect", "destroy"} -> 2 [] label \in {"send", "free"} -> 1
      [] OTHER -> 0

\* A thread inside a call or a destructor only ever gets nearer to its end, whatever the
\* other threads and the network do and even on a client that is gone: no call starts
\* over, and none makes a second attempt.
CallsAdvance ==
    [][\A t \in Threads : Left(pc[t]) > 0 => pc'[t] = pc[t] \/ Left(pc'[t]) < Left(pc[t])]_vars

\* The safety core of CallsReturn, first half.
THEOREM CallsGetNearer == Spec => CallsAdvance
<1> DEFINE Nearer == \A t \in Threads : Left(pc[t]) > 0 =>
                        pc'[t] = pc[t] \/ Left(pc'[t]) < Left(pc[t])
<1>1. ASSUME IInv, Next PROVE Nearer
  <2> USE DEF Left, Goto, At
  <2>1. pc \in [Threads -> Locked \cup {"idle", "lock", "release", "free", "crashed"}]
    BY <1>1 DEF IInv, TypeOK
  <2>2. ASSUME NEW t \in Threads, Pin(t) \/ Call(t) PROVE Nearer
    <3>1. pc[t] = "idle" /\ \A u \in Threads \ {t} : pc'[u] = pc[u]
      BY <2>1, <2>2 DEF Pin, Call
    <3> QED  BY <3>1
  <2>3. ASSUME NEW t \in Threads, LockRelease(t) \/ Destroy(t) \/ Lock(t) \/ PollThenSend(t)
        PROVE  Nearer
    BY <2>1, <2>3 DEF LockRelease, Destroy, Lock, PollThenSend
  <2>4. ASSUME NEW t \in Threads, Connected(t) \/ Attempt(t) \/ Connect(t) PROVE Nearer
    BY <2>1, <2>4 DEF Connected, Attempt, Connect
  <2>5. ASSUME NEW t \in Threads,
               Free(t) \/ Flush(t) \/ TooSoon(t) \/ GiveUp(t) \/ Send(t)
        PROVE  Nearer
    <3>1. pc' = [pc EXCEPT ![t] = "idle"]
      BY <2>5 DEF Free, Flush, TooSoon, GiveUp, Send, Return
    <3> QED  BY <2>1, <3>1
  <2>6. ASSUME NEW t \in Threads, UseFreed(t) PROVE Nearer
    <3>1. CASE pc' = [u \in Threads |-> "crashed"]
      BY <2>1, <3>1
    <3>2. CASE pc' = [pc EXCEPT ![t] = "idle"]
      BY <2>1, <3>2
    <3>3. ASSUME NEW label \in Calls, <<pc[t], label>> \in Onward,
                 pc' = [pc EXCEPT ![t] = label]
          PROVE  Nearer
      <4>1. Left(label) < Left(pc[t])
        BY <3>3 DEF Onward
      <4> QED  BY <2>1, <3>3, <4>1
    <3> QED  BY <2>6, <3>1, <3>2, <3>3 DEF UseFreed
  <2>7. CASE Disturbance \/ Tick
    BY <2>7 DEF Disturbance, Tick
  <2> QED
    BY <1>1, <2>2, <2>3, <2>4, <2>5, <2>6, <2>7 DEF Next, Step
<1>2. IInv /\ [Next]_vars => [Nearer]_vars
  BY <1>1
<1> QED  BY <1>2, Invariant, PTL DEF Spec, CallsAdvance

\* The safety core of CallsReturn, second half: whoever waits for a mutex waits for a
\* thread that is past its own lock on the same client, which is still there, and so not
\* for one that waits itself or that hangs on a freed client; and in all of that
\* thread's statements it holds just this one mutex.
NoCircularWait ==
    \A t \in Threads : pc[t] \in {"lock", "release"} /\ holder[using[t]] # Nobody =>
        \/ /\ pc[holder[using[t]]] \in Locked
           /\ using[holder[using[t]]] = using[t] /\ using[t] \notin freed
           /\ \A c \in Clients \ {using[t]} : holder[c] # holder[using[t]]
        \/ pc[holder[using[t]]] = "crashed"

\* No two threads ever wait for each other, with any number of clients.
THEOREM NoDeadlock == Spec => []NoCircularWait
<1>1. IInv => NoCircularWait
  <2> SUFFICES ASSUME IInv, NEW t \in Threads, pc[t] \in {"lock", "release"},
                      holder[using[t]] # Nobody, pc[holder[using[t]]] # "crashed"
               PROVE  /\ pc[holder[using[t]]] \in Locked
                      /\ using[holder[using[t]]] = using[t] /\ using[t] \notin freed
                      /\ \A c \in Clients \ {using[t]} : holder[c] # holder[using[t]]
    BY DEF NoCircularWait
  <2>1. using[t] \in Clients
    BY DEF IInv, Holding
  <2>2. /\ pc[holder[using[t]]] \in Locked /\ using[holder[using[t]]] = using[t]
        /\ using[t] \notin freed
    BY <2>1 DEF IInv, HeldInside
  <2>3. ASSUME NEW c \in Clients, holder[c] = holder[using[t]] PROVE c = using[t]
    BY <2>2, <2>3 DEF IInv, HeldInside
  <2> QED  BY <2>2, <2>3
<1> QED  BY <1>1, Invariant, PTL

\* A call is only ever on a freed client when it was late: pin_connection has replaced the
\* client, and the call still waits for the mutex, or has taken it after the destructor's
\* body, or has gone on with the freed client.
DanglesOnlyWhenLate ==
    \A t \in Threads : pc[t] \in Calls /\ using[t] \in freed =>
        /\ pc[t] = "lock" \/ t \in late
        /\ using[t] # udp_client /\ udp_client > 1

\* How far the counterexample to ClientOutlivesCalls reaches: as long as one peer is
\* pinned no call meets a freed client, a call on the present client never does, and
\* neither does one that has the mutex before the destructor of its client gets it.
THEOREM OnlyStaleCallsDangle == Spec => []DanglesOnlyWhenLate
<1>1. IInv => DanglesOnlyWhenLate
  <2> SUFFICES ASSUME IInv, NEW t \in Threads, pc[t] \in Calls, using[t] \in freed
               PROVE  /\ pc[t] = "lock" \/ t \in late
                      /\ using[t] # udp_client /\ udp_client > 1
    BY DEF DanglesOnlyWhenLate
  <2>1. pc[t] = "lock" \/ t \in late
    BY DEF IInv, KeptAlive, LockedClientLives
  <2>2. using[t] \in 1 .. MaxPins
    BY DEF IInv, TypeOK, Clients
  <2>3. using[t] < made /\ udp_client = made
    BY DEF IInv, Retired
  <2>4. made \in 0 .. MaxPins
    BY DEF IInv, TypeOK
  <2> QED  BY <2>1, <2>2, <2>3, <2>4, PinsAssumption
<1> QED  BY <1>1, Invariant, PTL
==============================================================================
