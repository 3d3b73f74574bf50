---------------------------- MODULE PairingProofs ----------------------------
(***************************************************************************)
(* Session implements Pairing, for any set of devices: its initial state   *)
(* is Pairing's, and every step of a device or of the network is one of    *)
(* Pairing's or changes nothing that Pairing has.                          *)
(*                                                                         *)
(* The proof needs one more invariant than the properties of Session: a    *)
(* statement of a click still has the device the user chose, a statement   *)
(* of the handler has a device that invited this one, and every message    *)
(* was sent by a device whose user has chosen (Accounted).                 *)
(***************************************************************************)
EXTENDS SessionProofs

Accounted(n) ==
    /\ pc[n]["ui"] \in {"connect", "pin"} => arg[n]["ui"] = clicked[n]
    /\ pc[n]["svc"] = "pin" => Asked(arg[n]["svc"], n)
    /\ package[n] \in Message => clicked[package[n].from] # None

Sourced ==
    /\ \A n \in Nodes : Accounted(n)
    /\ \A m \in net : clicked[m.from] # None

PInv == IInv /\ Sourced

------------------------------------------------------------------------------
LEMMA InitSourced == Init => Sourced
<1> SUFFICES ASSUME Init PROVE Sourced
  OBVIOUS
<1>1. NoMessage \notin Message
  BY DEF NoMessage, Message, Kinds
<1> QED
  BY <1>1 DEF Init, Sourced, Accounted, Threads

\* Only a device whose user pressed Connect puts a message on the network.
LEMMA NetSourced ==
    ASSUME PInv, NEW n \in Nodes, DeviceStep(n), NEW m \in net'
    PROVE  clicked'[m.from] # None
<1> USE DEF PInv, IInv, TypeOK
<1>1. \A d \in Nodes : clicked[d] # None => clicked'[d] = clicked[d]
  BY ClickStays
<1>2. CASE m \in net
  BY <1>1, <1>2 DEF Sourced, Message
<1>3. CASE (RequestReceiver(n) \/ SendInput(n)) /\ m \notin net
  <2>1. m.from = n
    BY <1>3 DEF RequestReceiver, SendInput, SendPackage
  <2>2. clicked[n] # None
    BY <1>3 DEF RequestReceiver, SendInput, DeviceInv, NeedsClick
  <2> QED
    BY <1>1, <2>1, <2>2
<1>4. CASE ~ RequestReceiver(n) /\ ~ SendInput(n)
  <2>1. net' \subseteq net
    BY <1>4 DEF DeviceStep, UiStep, SvcStep, PinConnection, PinPeer, ConfigureClient,
       CreateClient, SetConnectedDevice, PostSenderScene, EndRender, KeepScene,
       SwitchScene, DestroyEmitter, FinishUnmount, EndTasks, EmitPackage, AcceptRequest,
       InjectInput, UseFreedEmitter, IgnorePackage, PostReceiverScene, ClickConnect,
       DiscoveryUpdate, Receive
  <2> QED
    BY <1>2, <2>1
<1> QED
  BY <1>2, <1>3, <1>4

\* The acting device keeps passing on its user's choice, or an invitation.
LEMMA AccountedDevice ==
    ASSUME PInv, TypeOK', NEW n \in Nodes, DeviceStep(n)
    PROVE  Accounted(n)'
<1> USE NoneAssumption DEF TypeOK, Peer, Threads,
            vars, ui_vars, peer_vars, call_vars, svc_vars, history, Goto
<1>a. /\ \A s, d \in Nodes : Asked(s, d) => Asked(s, d)'
      /\ \A d \in Nodes : clicked[d] # None => clicked'[d] = clicked[d]
  BY AskedStays, ClickStays DEF PInv, IInv
<1>b. NoMessage \notin Message
  BY DEF NoMessage, Message, Kinds
<1>c. /\ Accounted(n) /\ NeedsClick(n) /\ Prepared(n) /\ Invited(n) /\ ClickedOnce(n)
      /\ net \subseteq Message /\ \A m \in net : clicked[m.from] # None
      /\ TypeOK
  BY DEF PInv, IInv, DeviceInv, Sourced
<1>d. /\ pc[n]["svc"] = "pin" => arg[n]["svc"] \in Nodes
      /\ package[n] \in Message => package[n].from \in Nodes
  BY <1>c DEF Prepared, Assigned, Message
<1> USE <1>a, <1>b, <1>c, <1>d DEF Accounted
<1>1. ASSUME NEW t \in Threads, PinPeer(n, t) PROVE Accounted(n)'
  BY <1>1 DEF PinPeer
<1>2. ASSUME NEW t \in Threads, ConfigureClient(n, t) PROVE Accounted(n)'
  BY <1>2 DEF ConfigureClient
<1>3. ASSUME NEW t \in Threads, CreateClient(n, t) PROVE Accounted(n)'
  BY <1>3 DEF CreateClient
<1>4. CASE SetConnectedDevice(n)
  BY <1>4 DEF SetConnectedDevice
<1>5. CASE RequestReceiver(n)
  BY <1>5 DEF RequestReceiver
<1>6. CASE PostSenderScene(n)
  BY <1>6 DEF PostSenderScene
<1>7. CASE EndRender(n)
  BY <1>7 DEF EndRender
<1>8. CASE KeepScene(n)
  BY <1>8 DEF KeepScene
<1>9. CASE SwitchScene(n)
  BY <1>9 DEF SwitchScene
<1>10. CASE DestroyEmitter(n)
  BY <1>10 DEF DestroyEmitter
<1>11. CASE FinishUnmount(n)
  BY <1>11 DEF FinishUnmount
<1>12. CASE EndTasks(n)
  BY <1>12 DEF EndTasks
<1>13. CASE EmitPackage(n)
  BY <1>13 DEF EmitPackage
<1>14. CASE AcceptRequest(n)
  BY <1>14 DEF AcceptRequest, Prepared, Invited, Genuine
<1>15. CASE InjectInput(n)
  BY <1>15 DEF InjectInput, Handled
<1>16. CASE UseFreedEmitter(n)
  <2>1. CASE Handled(n)
    BY <2>1, <1>16 DEF UseFreedEmitter, Handled
  <2>2. CASE /\ pc' = [pc EXCEPT ![n] = [t \in Threads |-> "crashed"]]
             /\ UNCHANGED <<package, callback>>
    BY <2>2, <1>16 DEF UseFreedEmitter
  <2> QED
    BY <2>1, <2>2, <1>16 DEF UseFreedEmitter
<1>17. CASE IgnorePackage(n)
  BY <1>17 DEF IgnorePackage, Handled
<1>18. CASE PostReceiverScene(n)
  BY <1>18 DEF PostReceiverScene, Handled
<1>19. CASE ClickConnect(n)
  BY <1>19 DEF ClickConnect
<1>20. CASE SendInput(n)
  BY <1>20 DEF SendInput
<1>21. CASE DiscoveryUpdate(n)
  BY <1>21 DEF DiscoveryUpdate
<1>22. CASE Receive(n)
  BY <1>22 DEF Receive
<1> QED
  BY <1>1, <1>2, <1>3, <1>4, <1>5, <1>6, <1>7, <1>8, <1>9, <1>10, <1>11, <1>12, <1>13, <1>14, <1>15, <1>16, <1>17, <1>18, <1>19, <1>20, <1>21, <1>22 DEF PinConnection, UiStep, SvcStep, DeviceStep, Threads

LEMMA NextPInv == PInv /\ [Next]_vars => PInv'
<1> SUFFICES ASSUME PInv, [Next]_vars PROVE PInv'
  OBVIOUS
<1>1. IInv'
  BY NextIInv DEF PInv
<1>2. ASSUME NEW n \in Nodes, DeviceStep(n) PROVE Sourced'
  <2>1. Accounted(n)'
    BY <1>1, <1>2, AccountedDevice DEF IInv
  <2>2. ASSUME NEW m \in Nodes, m # n PROVE Accounted(m)'
    <3>1. Row(m)' = Row(m) /\ Accounted(m)
      BY <1>2, <2>2, OtherDevices DEF PInv, IInv, Sourced
    <3>2. /\ \A s, d \in Nodes : Asked(s, d) => Asked(s, d)'
          /\ \A d \in Nodes : clicked[d] # None => clicked'[d] = clicked[d]
      BY <1>1, <1>2, AskedStays, ClickStays DEF PInv, IInv
    <3>3. /\ pc[m]["svc"] = "pin" => arg[m]["svc"] \in Nodes
          /\ package[m] \in Message => package[m].from \in Nodes
      BY DEF PInv, IInv, TypeOK, DeviceInv, Prepared, Assigned, Peer, Threads, Message
    <3> QED
      BY <3>1, <3>2, <3>3 DEF Row, Accounted
  <2>3. \A m \in net' : clicked'[m.from] # None
    BY <1>2, NetSourced
  <2> QED
    BY <2>1, <2>2, <2>3 DEF Sourced
<1>3. ASSUME UNCHANGED <<pc, arg, package, clicked>>, net' \subseteq net PROVE Sourced'
  <2>1. \A n \in Nodes : Accounted(n)'
    <3>1. ASSUME NEW n \in Nodes PROVE Accounted(n)' <=> Accounted(n)
      BY <1>3 DEF Accounted, Asked, Solo
    <3> QED BY <3>1 DEF PInv, Sourced
  <2>2. \A m \in net' : clicked'[m.from] # None
    BY <1>3 DEF PInv, Sourced
  <2> QED BY <2>1, <2>2 DEF Sourced
<1>4. Lose \/ UNCHANGED vars =>
        UNCHANGED <<pc, arg, package, clicked>> /\ net' \subseteq net
  BY DEF Lose, vars, ui_vars, peer_vars, call_vars, svc_vars, history
<1> QED
  BY <1>1, <1>2, <1>3, <1>4 DEF Next, PInv

------------------------------------------------------------------------------
\* Pairing's Invites is what the invariants of Session call Asked.
LEMMA InvitesIsAsked ==
    ASSUME NEW s \in Nodes, NEW d \in Nodes, Asked(s, d)
    PROVE  P!Invites(s, d)
  BY DEF Asked, Solo, P!Invites

\* A click is a choice.
LEMMA ClickChooses ==
    ASSUME PInv, NEW n \in Nodes, ClickConnect(n)
    PROVE  P!Choose(n)
<1>1. clicked[n] = None
  BY DEF ClickConnect, PInv, IInv, DeviceInv, ClickedOnce
<1>2. PICK d \in available[n] : clicked' = [clicked EXCEPT ![n] = d]
  BY DEF ClickConnect
<1>3. d \in Nodes \ {n}
  BY DEF PInv, IInv, TypeOK, DeviceInv, ClickedOnce
<1>4. UNCHANGED <<pinned_peer, injected>>
  BY DEF ClickConnect, peer_vars
<1> QED
  BY <1>1, <1>2, <1>3, <1>4 DEF P!Choose

\* The first statement of pin_connection accepts an invitation, turns to the
\* choice, or pins the same peer again.
LEMMA PinAccepts ==
    ASSUME PInv, NEW n \in Nodes, NEW t \in Threads, PinPeer(n, t)
    PROVE  P!Accept(n) \/ P!Turn(n) \/ UNCHANGED P!vars
<1> DEFINE d == arg[n][t]
<1>1. /\ pinned_peer' = [pinned_peer EXCEPT ![n] = d]
      /\ UNCHANGED <<clicked, injected>>
      /\ pc[n][t] = "pin"
  BY DEF PinPeer, history
<1>2. d \in Nodes
  BY <1>1 DEF PInv, IInv, TypeOK, DeviceInv, Prepared, Assigned, Peer
<1>3. t \in {"ui", "svc"}
  BY DEF Threads
<1>4. Accounted(n) /\ NeedsClick(n) /\ Settled(n)
  BY DEF PInv, Sourced, IInv, DeviceInv
<1> HIDE DEF d
<1>5. CASE clicked[n] # None
  <2>1. d = clicked[n] \/ P!Invites(d, n)
    <3>1. CASE t = "ui" BY <1>1, <1>4, <3>1 DEF Accounted, d
    <3>2. CASE t = "svc"
      <4>1. Asked(d, n) BY <1>1, <1>4, <3>2 DEF Accounted, d
      <4> QED BY <1>2, <4>1, InvitesIsAsked
    <3> QED BY <1>3, <3>1, <3>2
  <2> QED BY <1>1, <1>2, <1>5, <2>1 DEF P!Turn
<1>6. CASE clicked[n] = None
  <2>1. t = "svc"
    BY <1>1, <1>3, <1>4, <1>6 DEF NeedsClick
  <2>2. Asked(d, n) /\ pinned_peer[n] \in {None, d}
    BY <1>1, <1>4, <1>6, <2>1 DEF Accounted, Settled, d
  <2>3. CASE pinned_peer[n] = None
    BY <1>1, <1>2, <1>6, <2>2, <2>3, InvitesIsAsked DEF P!Accept
  <2>4. CASE pinned_peer[n] = d
    <3>1. pinned_peer' = pinned_peer BY <1>1, <2>4 DEF PInv, IInv, TypeOK
    <3> QED BY <1>1, <3>1 DEF P!vars
  <2> QED BY <2>2, <2>3, <2>4
<1> QED BY <1>5, <1>6

\* A callback injects input as Pairing allows, also through a destroyed emitter.
LEMMA CallInjects ==
    ASSUME PInv, NEW n \in Nodes, InjectInput(n) \/ UseFreedEmitter(n)
    PROVE  P!Inject(n) \/ UNCHANGED P!vars
<1> DEFINE d == package[n].from
<1>1. package[n] \in Message /\ d \in Nodes /\ pc[n]["svc"] = "call"
  BY DEF InjectInput, UseFreedEmitter, PInv, IInv, DeviceInv, Prepared, Message
<1>2. clicked[d] # None
  BY <1>1 DEF PInv, Sourced, Accounted
<1>3. UNCHANGED <<clicked, pinned_peer>>
  BY DEF InjectInput, UseFreedEmitter, peer_vars
<1>4. injected' = injected \/ injected' = [injected EXCEPT ![n] = injected[n] \cup {d}]
  BY DEF InjectInput, UseFreedEmitter
<1>5. ASSUME clicked[n] = None PROVE d = pinned_peer[n]
  <2>1. callback[n] = "receiver"
    BY <1>5 DEF InjectInput, UseFreedEmitter, PInv, IInv, DeviceInv, NeedsClick
  <2>2. pinned_peer[n] # None
    BY <2>1 DEF PInv, IInv, DeviceInv, Prepared, Targets
  <2>3. pinned_peer[n] \in {None, d}
    BY <1>1, <1>5 DEF PInv, IInv, DeviceInv, Settled
  <2> QED BY <2>2, <2>3
<1> HIDE DEF d
<1>6. CASE injected' = injected
  BY <1>3, <1>6 DEF P!vars
<1>7. CASE injected' = [injected EXCEPT ![n] = injected[n] \cup {d}]
  BY <1>1, <1>2, <1>3, <1>5, <1>7 DEF P!Inject
<1> QED BY <1>4, <1>6, <1>7

\* Every other step of a device or of the network is a stutter of Pairing.
LEMMA OthersStutter ==
    ASSUME [Next]_vars,
           \A n \in Nodes : ~ ClickConnect(n) /\ ~ InjectInput(n) /\ ~ UseFreedEmitter(n),
           \A n \in Nodes, t \in Threads : ~ PinPeer(n, t)
    PROVE  UNCHANGED P!vars
BY DEF P!vars, Next, DeviceStep, UiStep, SvcStep, PinConnection, Threads, ConfigureClient,
   CreateClient, SetConnectedDevice, RequestReceiver, PostSenderScene, EndRender, KeepScene,
   SwitchScene, DestroyEmitter, FinishUnmount, EndTasks, EmitPackage, AcceptRequest,
   IgnorePackage, PostReceiverScene, SendInput, DiscoveryUpdate, Receive, Lose, vars,
   peer_vars, history

\* Session implements Pairing: whatever the two threads of every device, the scenes
\* and the network do, the choices, pins and injections are as Pairing says.
THEOREM Refinement == Spec => ImplementsPairing
<1>1. Init => P!Init
  BY DEF Init, P!Init
<1>2. Init => PInv
  BY InitIInv, InitSourced DEF PInv
<1>3. PInv /\ [Next]_vars => [P!Next]_(P!vars)
  <2> SUFFICES ASSUME PInv, [Next]_vars PROVE P!Next \/ UNCHANGED P!vars
    BY DEF P!vars
  <2>1. ASSUME NEW n \in Nodes, ClickConnect(n) PROVE P!Next
    BY <2>1, ClickChooses DEF P!Next
  <2>2. ASSUME NEW n \in Nodes, NEW t \in Threads, PinPeer(n, t)
        PROVE  P!Next \/ UNCHANGED P!vars
    BY <2>2, PinAccepts DEF P!Next
  <2>3. ASSUME NEW n \in Nodes, InjectInput(n) \/ UseFreedEmitter(n)
        PROVE  P!Next \/ UNCHANGED P!vars
    BY <2>3, CallInjects DEF P!Next
  <2> QED
    BY <2>1, <2>2, <2>3, OthersStutter
<1> QED
  BY <1>1, <1>2, <1>3, NextPInv, PTL DEF Spec, ImplementsPairing, P!Spec
==============================================================================
