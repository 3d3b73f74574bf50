---------------------------- MODULE SessionProofs ----------------------------
(***************************************************************************)
(* Proofs about Session for any set of devices.                            *)
(*                                                                         *)
(* None of the safety properties is inductive: what the receiver scene may *)
(* rely on was established several statements earlier, perhaps by the      *)
(* other thread.  The inductive invariant records, for every statement of  *)
(* a click and of the package handler, what is already assigned (Assigned, *)
(* Prepared), what only a click can cause (NeedsClick), where the three    *)
(* copies of the peer agree (Settled), that a user clicks at most once     *)
(* (ClickedOnce) and that every request goes back to a user who chose this *)
(* device (Invited, Genuine).                                              *)
(***************************************************************************)
EXTENDS Session, TLAPS

Targets(n) == connected_device[n] # None /\ pinned_peer[n] # None /\ udp_client[n] # None

\* What each statement of a click or an acceptance has assigned so far.
Assigned(n, t) ==
    /\ pc[n][t] \in {"connect", "pin"} => arg[n][t] # None
    /\ pc[n][t] \in {"pin", "config", "client", "request", "post"}
          => connected_device[n] # None
    /\ pc[n][t] \in {"config", "client", "request", "post"} => pinned_peer[n] # None
    /\ pc[n][t] = "client" => config[n][t] # None
    /\ pc[n][t] \in {"request", "post"} => udp_client[n] # None

\* A scene change is only queued, run or listened to with every target set.
Prepared(n) ==
    /\ \A t \in Threads : Assigned(n, t)
    /\ pc[n]["svc"] \in {"emit", "call"} => package[n] \in Message
    /\ ui_queue[n] # <<>> => Targets(n)
    /\ scene[n] # "home" => Targets(n)
    /\ subscriber[n] \in {"receiver", "dangling"} => scene[n] = "receiver"
    /\ pc[n]["ui"] = "unsubscribe" => ui_queue[n] # <<>>
    /\ callback[n] = "receiver" => Targets(n)

\* What only happens on a device whose user pressed Connect.
NeedsClick(n) == clicked[n] = None =>
    /\ pc[n]["ui"] \in {"frame", "tasks"}
    /\ pc[n]["svc"] \in {"poll", "emit", "call", "pin", "config", "client", "post"}
    /\ ui_queue[n] \in Seq({"receiver"})
    /\ scene[n] # "sender"
    /\ subscriber[n] # "dangling"
    /\ callback[n] # "dangling"

\* Without a click only the services thread assigns the three copies of the
\* peer; how far it has come at each of its statements.
Settled(n) == clicked[n] = None =>
    /\ pc[n]["svc"] \in {"poll", "emit", "call", "post"} =>
          connected_device[n] = pinned_peer[n] /\ udp_client[n] = pinned_peer[n]
    /\ pc[n]["svc"] \in {"emit", "call"} => pinned_peer[n] \in {None, package[n].from}
    /\ pc[n]["svc"] = "pin" =>
          /\ connected_device[n] = arg[n]["svc"]
          /\ pinned_peer[n] \in {None, arg[n]["svc"]}
    /\ pc[n]["svc"] \in {"config", "client"} => connected_device[n] = pinned_peer[n]
    /\ pc[n]["svc"] = "client" => config[n]["svc"] = pinned_peer[n]
    /\ injected[n] \subseteq {pinned_peer[n]} \ {None}

\* A user can press Connect only once: the frame of the click ends outside the
\* home scene.
ClickedOnce(n) ==
    /\ n \notin available[n]
    /\ pc[n]["ui"] \notin {"tasks", "unsubscribe", "crashed"} => budget[n] = kMaxPerFrame
    /\ pc[n]["ui"] = "unsubscribe" => scene[n] = "receiver"
    /\ clicked[n] # None /\ scene[n] = "home" =>
          /\ pc[n]["ui"] # "frame"
          /\ pc[n]["ui"] = "tasks" => ui_queue[n] # <<>> /\ budget[n] > 0

DeviceInv(n) == Prepared(n) /\ NeedsClick(n) /\ Settled(n) /\ ClickedOnce(n)

\* The device d was asked for by the user of device s.
Solo(s) == \A n \in Nodes \ {s} : clicked[n] = None
Asked(s, d) == clicked[s] # None /\ (Solo(s) => clicked[s] = d)
Genuine(m) == m.kind = "become_receiver" => Asked(m.from, m.to)

\* The one device whose user pressed Connect carries the choice through all
\* statements of the click: nobody asks it to be a receiver meanwhile.
CarriesChoice(n) ==
    /\ pc[n]["svc"] \notin {"pin", "config", "client", "post"}
    /\ pc[n]["ui"] \in {"connect", "pin"} => arg[n]["ui"] = clicked[n]
    /\ pc[n]["ui"] = "config" => pinned_peer[n] = clicked[n]
    /\ pc[n]["ui"] = "client" => config[n]["ui"] = clicked[n]
    /\ pc[n]["ui"] = "request" => udp_client[n] = clicked[n]

Invited(n) ==
    /\ package[n] \in Message => package[n].to = n /\ Genuine(package[n])
    /\ clicked[n] = None /\ connected_device[n] # None => Asked(connected_device[n], n)
    /\ Solo(n) => CarriesChoice(n)

IInv ==
    /\ TypeOK
    /\ \A n \in Nodes : DeviceInv(n) /\ Invited(n)
    /\ \A m \in net : Genuine(m)

\* All that a device keeps.
Row(m) == <<scene[m], connected_device[m], pinned_peer[m], udp_client[m], available[m],
            subscriber[m], ui_queue[m], pc[m], arg[m], config[m], budget[m], package[m],
            callback[m], clicked[m], injected[m]>>

------------------------------------------------------------------------------
\* The task at the head of a queue is one that was posted, and so is the rest.
LEMMA HeadTail ==
    ASSUME NEW S, NEW q \in Seq(S), q # <<>>
    PROVE  Head(q) \in S /\ Tail(q) \in Seq(S)
  OBVIOUS

\* A step of one device keeps the types.
LEMMA TypeDevice ==
    ASSUME TypeOK, NEW n \in Nodes, DeviceStep(n), Prepared(n)
    PROVE  TypeOK'
<1> USE NoneAssumption, BudgetAssumption
<1> USE DEF TypeOK, Peer, Threads, Scenes, Kinds, Message, NoMessage, Callbacks, PCs,
            vars, ui_vars, peer_vars, call_vars, svc_vars, history, Goto
<1>1. ASSUME NEW t \in Threads, PinPeer(n, t) PROVE TypeOK'
  BY <1>1 DEF PinPeer
<1>2. ASSUME NEW t \in Threads, ConfigureClient(n, t) PROVE TypeOK'
  BY <1>2 DEF ConfigureClient
<1>3. ASSUME NEW t \in Threads, CreateClient(n, t) PROVE TypeOK'
  <2>1. udp_client' \in [Nodes -> Peer]
    BY <1>3 DEF CreateClient
  <2>2. pc' \in [Nodes -> [Threads -> PCs]]
    BY <1>3 DEF CreateClient
  <2>3. config' \in [Nodes -> [Threads -> Peer]] /\ arg' \in [Nodes -> [Threads -> Peer]]
    BY <1>3 DEF CreateClient
  <2> QED
    BY <2>1, <2>2, <2>3, <1>3 DEF CreateClient
<1>4. CASE SetConnectedDevice(n)
  <2>1. connected_device' \in [Nodes -> Peer]
    BY <1>4 DEF SetConnectedDevice
  <2>2. pc' \in [Nodes -> [Threads -> PCs]]
    BY <1>4 DEF SetConnectedDevice
  <2> QED
    BY <2>1, <2>2, <1>4 DEF SetConnectedDevice
<1>5. CASE RequestReceiver(n)
  BY <1>5 DEF RequestReceiver, SendPackage
<1>6. CASE PostSenderScene(n)
  BY <1>6 DEF PostSenderScene
<1>7. CASE EndRender(n)
  BY <1>7 DEF EndRender
<1>8. CASE KeepScene(n)
  BY HeadTail, <1>8 DEF KeepScene, NextTask
<1>9. CASE SwitchScene(n)
  <2>1. Head(ui_queue[n]) \in Scenes /\ Tail(ui_queue[n]) \in Seq({"sender", "receiver"})
    BY HeadTail, <1>9 DEF SwitchScene, NextTask
  <2>2. scene' \in [Nodes -> Scenes] /\ subscriber' \in [Nodes -> Callbacks]
    BY <2>1, <1>9 DEF SwitchScene, Mount
  <2>3. ui_queue' \in [Nodes -> Seq({"sender", "receiver"})]
    BY <2>1, <1>9 DEF SwitchScene
  <2>4. budget' \in [Nodes -> 0 .. kMaxPerFrame]
    BY <1>9 DEF SwitchScene, NextTask
  <2> QED
    BY <2>2, <2>3, <2>4, <1>9 DEF SwitchScene
<1>10. CASE DestroyEmitter(n)
  <2>1. budget' \in [Nodes -> 0 .. kMaxPerFrame]
    BY <1>10 DEF DestroyEmitter, NextTask
  <2>2. subscriber' \in [Nodes -> Callbacks] /\ callback' \in [Nodes -> Callbacks]
    BY <1>10 DEF DestroyEmitter
  <2>3. pc' \in [Nodes -> [Threads -> PCs]]
    BY <1>10 DEF DestroyEmitter
  <2> QED
    BY <2>1, <2>2, <2>3, <1>10 DEF DestroyEmitter
<1>11. CASE FinishUnmount(n)
  <2>1. Head(ui_queue[n]) \in Scenes /\ Tail(ui_queue[n]) \in Seq({"sender", "receiver"})
    BY HeadTail, <1>11 DEF FinishUnmount, Prepared
  <2>2. ui_queue' \in [Nodes -> Seq({"sender", "receiver"})]
    BY <2>1, <1>11 DEF FinishUnmount
  <2>3. scene' \in [Nodes -> Scenes] /\ subscriber' \in [Nodes -> Callbacks]
    BY <2>1, <1>11 DEF FinishUnmount, Mount
  <2> QED
    BY <2>2, <2>3, <1>11 DEF FinishUnmount
<1>12. CASE EndTasks(n)
  BY <1>12 DEF EndTasks
<1>13. CASE EmitPackage(n)
  BY <1>13 DEF EmitPackage
<1>14. CASE AcceptRequest(n)
  BY <1>14 DEF AcceptRequest
<1>15. CASE InjectInput(n)
  BY <1>15 DEF InjectInput, Handled
<1>16. CASE UseFreedEmitter(n)
  <2>1. package[n] \in Message
    BY <1>16 DEF UseFreedEmitter
  <2>2. injected' \in [Nodes -> SUBSET Nodes]
    <3>1. package[n].from \in Nodes
      BY <2>1
    <3>2. [injected EXCEPT ![n] = injected[n] \cup {package[n].from}] \in [Nodes -> SUBSET Nodes]
      BY <3>1
    <3> QED
      BY <3>2, <1>16 DEF UseFreedEmitter
  <2>3. CASE Handled(n)
    BY <2>2, <2>3, <1>16 DEF UseFreedEmitter, Handled
  <2>4. CASE /\ pc' = [pc EXCEPT ![n] = [t \in Threads |-> "crashed"]]
             /\ UNCHANGED <<package, callback>>
    <3>1. [t \in Threads |-> "crashed"] \in [Threads -> PCs]
      OBVIOUS
    <3>2. pc' \in [Nodes -> [Threads -> PCs]]
      BY <2>4, <3>1
    <3> QED
      BY <2>2, <2>4, <3>2, <1>16 DEF UseFreedEmitter
  <2> QED
    BY <2>3, <2>4, <1>16 DEF UseFreedEmitter
<1>17. CASE IgnorePackage(n)
  BY <1>17 DEF IgnorePackage, Handled
<1>18. CASE PostReceiverScene(n)
  BY <1>18 DEF PostReceiverScene, Handled
<1>19. CASE ClickConnect(n)
  BY <1>19 DEF ClickConnect
<1>20. CASE SendInput(n)
  BY <1>20 DEF SendInput, SendPackage
<1>21. CASE DiscoveryUpdate(n)
  BY <1>21 DEF DiscoveryUpdate
<1>22. CASE Receive(n)
  <2>1. PICK m \in net : /\ net' = net \ {m}
                         /\ \/ /\ package' = [package EXCEPT ![n] = m]
                               /\ Goto(n, "svc", "emit")
                            \/ UNCHANGED <<package, pc>>
    BY <1>22 DEF Receive
  <2>2. m \in Message /\ net' \in SUBSET Message
    BY <2>1
  <2>3. CASE package' = [package EXCEPT ![n] = m] /\ Goto(n, "svc", "emit")
    BY <2>2, <2>3, <1>22 DEF Receive
  <2>4. CASE UNCHANGED <<package, pc>>
    BY <2>2, <2>4, <1>22 DEF Receive
  <2> QED
    BY <2>1, <2>3, <2>4
<1> QED
  BY <1>1, <1>2, <1>3, <1>4, <1>5, <1>6, <1>7, <1>8, <1>9, <1>10, <1>11, <1>12, <1>13, <1>14, <1>15, <1>16, <1>17, <1>18, <1>19, <1>20, <1>21, <1>22 DEF PinConnection, UiStep, SvcStep, DeviceStep, Threads

\* A step of one device leaves every other device alone.
LEMMA OtherDevices ==
    ASSUME TypeOK, NEW n \in Nodes, DeviceStep(n), NEW m \in Nodes, m # n
    PROVE  Row(m)' = Row(m)
<1> USE DEF TypeOK, Row, vars, ui_vars, peer_vars, call_vars, svc_vars, history, Goto
<1>1. ASSUME NEW t \in Threads, PinPeer(n, t) PROVE Row(m)' = Row(m)
  BY <1>1 DEF PinPeer
<1>2. ASSUME NEW t \in Threads, ConfigureClient(n, t) PROVE Row(m)' = Row(m)
  BY <1>2 DEF ConfigureClient
<1>3. ASSUME NEW t \in Threads, CreateClient(n, t) PROVE Row(m)' = Row(m)
  BY <1>3 DEF CreateClient
<1>4. CASE SetConnectedDevice(n)
  BY <1>4 DEF SetConnectedDevice
<1>5. CASE RequestReceiver(n)
  BY <1>5 DEF RequestReceiver, SendPackage
<1>6. CASE PostSenderScene(n)
  BY <1>6 DEF PostSenderScene
<1>7. CASE EndRender(n)
  BY <1>7 DEF EndRender
<1>8. CASE KeepScene(n)
  BY HeadTail, <1>8 DEF KeepScene, NextTask
<1>9. CASE SwitchScene(n)
  BY HeadTail, <1>9 DEF SwitchScene, NextTask, Mount
<1>10. CASE DestroyEmitter(n)
  BY <1>10 DEF DestroyEmitter, NextTask
<1>11. CASE FinishUnmount(n)
  BY HeadTail, <1>11 DEF FinishUnmount, Mount
<1>12. CASE EndTasks(n)
  BY <1>12 DEF EndTasks
<1>13. CASE EmitPackage(n)
  BY <1>13 DEF EmitPackage
<1>14. CASE AcceptRequest(n)
  BY <1>14 DEF AcceptRequest
<1>15. CASE InjectInput(n)
  BY <1>15 DEF InjectInput, Handled
<1>16. CASE UseFreedEmitter(n)
  BY <1>16 DEF UseFreedEmitter, Handled
<1>17. CASE IgnorePackage(n)
  BY <1>17 DEF IgnorePackage, Handled
<1>18. CASE PostReceiverScene(n)
  BY <1>18 DEF PostReceiverScene, Handled
<1>19. CASE ClickConnect(n)
  BY <1>19 DEF ClickConnect
<1>20. CASE SendInput(n)
  BY <1>20 DEF SendInput, SendPackage
<1>21. CASE DiscoveryUpdate(n)
  BY <1>21 DEF DiscoveryUpdate
<1>22. CASE Receive(n)
  BY <1>22 DEF Receive
<1> QED
  BY <1>1, <1>2, <1>3, <1>4, <1>5, <1>6, <1>7, <1>8, <1>9, <1>10, <1>11, <1>12, <1>13, <1>14, <1>15, <1>16, <1>17, <1>18, <1>19, <1>20, <1>21, <1>22 DEF PinConnection, UiStep, SvcStep, DeviceStep, Threads

\* Whatever a statement of a click or of the handler relies on was assigned by an
\* earlier one, and no statement of the other thread takes it back to null.
LEMMA PreparedDevice ==
    ASSUME TypeOK, TypeOK', NEW n \in Nodes, DeviceStep(n), Prepared(n)
    PROVE  Prepared(n)'
<1> USE NoneAssumption DEF TypeOK, Peer, Threads,
            vars, ui_vars, peer_vars, call_vars, svc_vars, history, Goto
<1> USE DEF Prepared, Assigned, Targets
<1>1. ASSUME NEW t \in Threads, PinPeer(n, t) PROVE Prepared(n)'
  BY <1>1 DEF PinPeer
<1>2. ASSUME NEW t \in Threads, ConfigureClient(n, t) PROVE Prepared(n)'
  BY <1>2 DEF ConfigureClient
<1>3. ASSUME NEW t \in Threads, CreateClient(n, t) PROVE Prepared(n)'
  BY <1>3 DEF CreateClient
<1>4. CASE SetConnectedDevice(n)
  BY <1>4 DEF SetConnectedDevice
<1>5. CASE RequestReceiver(n)
  BY <1>5 DEF RequestReceiver, SendPackage
<1>6. CASE PostSenderScene(n)
  BY <1>6 DEF PostSenderScene
<1>7. CASE EndRender(n)
  BY <1>7 DEF EndRender
<1>8. CASE KeepScene(n)
  BY HeadTail, <1>8 DEF KeepScene, NextTask
<1>9. CASE SwitchScene(n)
  BY HeadTail, <1>9 DEF SwitchScene, NextTask, Mount
<1>10. CASE DestroyEmitter(n)
  BY <1>10 DEF DestroyEmitter, NextTask
<1>11. CASE FinishUnmount(n)
  BY HeadTail, <1>11 DEF FinishUnmount, Mount
<1>12. CASE EndTasks(n)
  BY <1>12 DEF EndTasks
<1>13. CASE EmitPackage(n)
  BY <1>13 DEF EmitPackage
<1>14. CASE AcceptRequest(n)
  BY <1>14 DEF AcceptRequest
<1>15. CASE InjectInput(n)
  BY <1>15 DEF InjectInput, Handled
<1>16. CASE UseFreedEmitter(n)
  <2>1. CASE Handled(n)
    BY <2>1, <1>16 DEF UseFreedEmitter, Handled
  <2>2. CASE /\ pc' = [pc EXCEPT ![n] = [t \in Threads |-> "crashed"]]
             /\ UNCHANGED <<package, callback>>
    BY <2>2, <1>16 DEF UseFreedEmitter
  <2> QED
    BY <2>1, <2>2, <1>16 DEF UseFreedEmitter
<1>17. CASE IgnorePackage(n)
  BY <1>17 DEF IgnorePackage, Handled
<1>18. CASE PostReceiverScene(n)
  BY <1>18 DEF PostReceiverScene, Handled
<1>19. CASE ClickConnect(n)
  BY <1>19 DEF ClickConnect
<1>20. CASE SendInput(n)
  BY <1>20 DEF SendInput, SendPackage
<1>21. CASE DiscoveryUpdate(n)
  BY <1>21 DEF DiscoveryUpdate
<1>22. CASE Receive(n)
  BY <1>22 DEF Receive
<1> QED
  BY <1>1, <1>2, <1>3, <1>4, <1>5, <1>6, <1>7, <1>8, <1>9, <1>10, <1>11, <1>12, <1>13, <1>14, <1>15, <1>16, <1>17, <1>18, <1>19, <1>20, <1>21, <1>22 DEF PinConnection, UiStep, SvcStep, DeviceStep, Threads

\* A step of a device whose user never clicked leads to nothing that only a click
\* leads to: no sender scene, no unmounted receiver scene, no dangling emitter.
LEMMA NeedsClickDevice ==
    ASSUME TypeOK, TypeOK', NEW n \in Nodes, DeviceStep(n), Prepared(n), NeedsClick(n)
    PROVE  NeedsClick(n)'
<1> USE NoneAssumption DEF TypeOK, Peer, Threads,
            vars, ui_vars, peer_vars, call_vars, svc_vars, history, Goto
<1> USE DEF NeedsClick
<1>1. ASSUME NEW t \in Threads, PinPeer(n, t) PROVE NeedsClick(n)'
  BY <1>1 DEF PinPeer
<1>2. ASSUME NEW t \in Threads, ConfigureClient(n, t) PROVE NeedsClick(n)'
  BY <1>2 DEF ConfigureClient
<1>3. ASSUME NEW t \in Threads, CreateClient(n, t) PROVE NeedsClick(n)'
  BY <1>3 DEF CreateClient
<1>4. CASE SetConnectedDevice(n)
  BY <1>4 DEF SetConnectedDevice
<1>5. CASE RequestReceiver(n)
  BY <1>5 DEF RequestReceiver, SendPackage
<1>6. CASE PostSenderScene(n)
  BY <1>6 DEF PostSenderScene
<1>7. CASE EndRender(n)
  BY <1>7 DEF EndRender
<1>8. CASE KeepScene(n)
  BY HeadTail, <1>8 DEF KeepScene, NextTask
<1>9. CASE SwitchScene(n)
  BY HeadTail, <1>9 DEF SwitchScene, NextTask, Mount
<1>10. CASE DestroyEmitter(n)
  BY <1>10 DEF DestroyEmitter, NextTask
<1>11. CASE FinishUnmount(n)
  BY HeadTail, <1>11 DEF FinishUnmount, Mount
<1>12. CASE EndTasks(n)
  BY <1>12 DEF EndTasks
<1>13. CASE EmitPackage(n)
  BY <1>13 DEF EmitPackage
<1>14. CASE AcceptRequest(n)
  BY <1>14 DEF AcceptRequest
<1>15. CASE InjectInput(n)
  BY <1>15 DEF InjectInput, Handled
<1>16. CASE UseFreedEmitter(n)
  <2>1. CASE Handled(n)
    BY <2>1, <1>16 DEF UseFreedEmitter, Handled
  <2>2. CASE /\ pc' = [pc EXCEPT ![n] = [t \in Threads |-> "crashed"]]
             /\ UNCHANGED <<package, callback>>
    BY <2>2, <1>16 DEF UseFreedEmitter
  <2> QED
    BY <2>1, <2>2, <1>16 DEF UseFreedEmitter
<1>17. CASE IgnorePackage(n)
  BY <1>17 DEF IgnorePackage, Handled
<1>18. CASE PostReceiverScene(n)
  BY <1>18 DEF PostReceiverScene, Handled
<1>19. CASE ClickConnect(n)
  BY <1>19 DEF ClickConnect
<1>20. CASE SendInput(n)
  BY <1>20 DEF SendInput, SendPackage
<1>21. CASE DiscoveryUpdate(n)
  BY <1>21 DEF DiscoveryUpdate
<1>22. CASE Receive(n)
  BY <1>22 DEF Receive
<1> QED
  BY <1>1, <1>2, <1>3, <1>4, <1>5, <1>6, <1>7, <1>8, <1>9, <1>10, <1>11, <1>12, <1>13, <1>14, <1>15, <1>16, <1>17, <1>18, <1>19, <1>20, <1>21, <1>22 DEF PinConnection, UiStep, SvcStep, DeviceStep, Threads

\* On a device whose user never clicked the handler brings the three copies of the
\* peer together again, always for the same peer.
LEMMA SettledDevice ==
    ASSUME TypeOK, TypeOK', NEW n \in Nodes, DeviceStep(n), DeviceInv(n)
    PROVE  Settled(n)'
<1> USE NoneAssumption DEF TypeOK, Peer, Threads,
            vars, ui_vars, peer_vars, call_vars, svc_vars, history, Goto
<1> USE DEF DeviceInv, Prepared, Targets, NeedsClick, Settled
<1>1. ASSUME NEW t \in Threads, PinPeer(n, t) PROVE Settled(n)'
  BY <1>1 DEF PinPeer
<1>2. ASSUME NEW t \in Threads, ConfigureClient(n, t) PROVE Settled(n)'
  BY <1>2 DEF ConfigureClient
<1>3. ASSUME NEW t \in Threads, CreateClient(n, t) PROVE Settled(n)'
  BY <1>3 DEF CreateClient
<1>4. CASE SetConnectedDevice(n)
  BY <1>4 DEF SetConnectedDevice
<1>5. CASE RequestReceiver(n)
  BY <1>5 DEF RequestReceiver, SendPackage
<1>6. CASE PostSenderScene(n)
  BY <1>6 DEF PostSenderScene
<1>7. CASE EndRender(n)
  BY <1>7 DEF EndRender
<1>8. CASE KeepScene(n)
  BY HeadTail, <1>8 DEF KeepScene, NextTask
<1>9. CASE SwitchScene(n)
  BY HeadTail, <1>9 DEF SwitchScene, NextTask, Mount
<1>10. CASE DestroyEmitter(n)
  BY <1>10 DEF DestroyEmitter, NextTask
<1>11. CASE FinishUnmount(n)
  BY HeadTail, <1>11 DEF FinishUnmount, Mount
<1>12. CASE EndTasks(n)
  BY <1>12 DEF EndTasks
<1>13. CASE EmitPackage(n)
  BY <1>13 DEF EmitPackage
<1>14. CASE AcceptRequest(n)
  BY <1>14 DEF AcceptRequest
<1>15. CASE InjectInput(n)
  BY <1>15 DEF InjectInput, Handled
<1>16. CASE UseFreedEmitter(n)
  BY <1>16 DEF UseFreedEmitter, Handled
<1>17. CASE IgnorePackage(n)
  BY <1>17 DEF IgnorePackage, Handled
<1>18. CASE PostReceiverScene(n)
  BY <1>18 DEF PostReceiverScene, Handled
<1>19. CASE ClickConnect(n)
  BY <1>19 DEF ClickConnect
<1>20. CASE SendInput(n)
  BY <1>20 DEF SendInput, SendPackage
<1>21. CASE DiscoveryUpdate(n)
  BY <1>21 DEF DiscoveryUpdate
<1>22. CASE Receive(n)
  BY <1>22 DEF Receive
<1> QED
  BY <1>1, <1>2, <1>3, <1>4, <1>5, <1>6, <1>7, <1>8, <1>9, <1>10, <1>11, <1>12, <1>13, <1>14, <1>15, <1>16, <1>17, <1>18, <1>19, <1>20, <1>21, <1>22 DEF PinConnection, UiStep, SvcStep, DeviceStep, Threads

\* After a click the device leaves the home scene before another frame renders it.
LEMMA ClickedOnceDevice ==
    ASSUME TypeOK, TypeOK', NEW n \in Nodes, DeviceStep(n), DeviceInv(n)
    PROVE  ClickedOnce(n)'
<1> USE NoneAssumption, BudgetAssumption DEF TypeOK, Peer, Threads,
            vars, ui_vars, peer_vars, call_vars, svc_vars, history, Goto
<1> USE DEF DeviceInv, NeedsClick, ClickedOnce
<1>1. ASSUME NEW t \in Threads, PinPeer(n, t) PROVE ClickedOnce(n)'
  BY <1>1 DEF PinPeer
<1>2. ASSUME NEW t \in Threads, ConfigureClient(n, t) PROVE ClickedOnce(n)'
  BY <1>2 DEF ConfigureClient
<1>3. ASSUME NEW t \in Threads, CreateClient(n, t) PROVE ClickedOnce(n)'
  BY <1>3 DEF CreateClient
<1>4. CASE SetConnectedDevice(n)
  BY <1>4 DEF SetConnectedDevice
<1>5. CASE RequestReceiver(n)
  BY <1>5 DEF RequestReceiver, SendPackage
<1>6. CASE PostSenderScene(n)
  BY <1>6 DEF PostSenderScene
<1>7. CASE EndRender(n)
  BY <1>7 DEF EndRender
<1>8. CASE KeepScene(n)
  BY HeadTail, <1>8 DEF KeepScene, NextTask
<1>9. CASE SwitchScene(n)
  BY HeadTail, <1>9 DEF SwitchScene, NextTask, Mount
<1>10. CASE DestroyEmitter(n)
  BY <1>10 DEF DestroyEmitter, NextTask
<1>11. CASE FinishUnmount(n)
  BY HeadTail, <1>11 DEF FinishUnmount, Mount
<1>12. CASE EndTasks(n)
  BY <1>12 DEF EndTasks
<1>13. CASE EmitPackage(n)
  BY <1>13 DEF EmitPackage
<1>14. CASE AcceptRequest(n)
  BY <1>14 DEF AcceptRequest
<1>15. CASE InjectInput(n)
  BY <1>15 DEF InjectInput, Handled
<1>16. CASE UseFreedEmitter(n)
  <2>1. CASE Handled(n)
    BY <2>1, <1>16 DEF UseFreedEmitter, Handled
  <2>2. CASE /\ pc' = [pc EXCEPT ![n] = [t \in Threads |-> "crashed"]]
             /\ UNCHANGED <<package, callback>>
    BY <2>2, <1>16 DEF UseFreedEmitter
  <2> QED
    BY <2>1, <2>2, <1>16 DEF UseFreedEmitter
<1>17. CASE IgnorePackage(n)
  BY <1>17 DEF IgnorePackage, Handled
<1>18. CASE PostReceiverScene(n)
  BY <1>18 DEF PostReceiverScene, Handled
<1>19. CASE ClickConnect(n)
  BY <1>19 DEF ClickConnect
<1>20. CASE SendInput(n)
  BY <1>20 DEF SendInput, SendPackage
<1>21. CASE DiscoveryUpdate(n)
  BY <1>21 DEF DiscoveryUpdate
<1>22. CASE Receive(n)
  BY <1>22 DEF Receive
<1> QED
  BY <1>1, <1>2, <1>3, <1>4, <1>5, <1>6, <1>7, <1>8, <1>9, <1>10, <1>11, <1>12, <1>13, <1>14, <1>15, <1>16, <1>17, <1>18, <1>19, <1>20, <1>21, <1>22 DEF PinConnection, UiStep, SvcStep, DeviceStep, Threads

\* A pressed button stays pressed, so a request that was genuine stays so.
LEMMA ClickStays ==
    ASSUME TypeOK, NEW n \in Nodes, DeviceStep(n), DeviceInv(n), NEW m \in Nodes,
           clicked[m] # None
    PROVE  clicked'[m] = clicked[m]
<1>1. CASE ClickConnect(n)
  BY <1>1 DEF ClickConnect, TypeOK, DeviceInv, ClickedOnce
<1>2. ASSUME ~ ClickConnect(n) PROVE clicked' = clicked
  BY <1>2 DEF DeviceStep, UiStep, SvcStep, PinConnection, PinPeer, ConfigureClient,
     CreateClient, SetConnectedDevice, RequestReceiver, PostSenderScene, EndRender,
     KeepScene, SwitchScene, DestroyEmitter, FinishUnmount, EndTasks, EmitPackage,
     AcceptRequest, InjectInput, UseFreedEmitter, IgnorePackage, PostReceiverScene,
     SendInput, DiscoveryUpdate, Receive, history
<1> QED
  BY <1>1, <1>2

\* A choice once made stays made, and nobody else's click can turn it into one
\* for another device.
LEMMA AskedStays ==
    ASSUME TypeOK, TypeOK', NEW n \in Nodes, DeviceStep(n), DeviceInv(n),
           NEW s \in Nodes, NEW d \in Nodes, Asked(s, d)
    PROVE  Asked(s, d)'
<1>1. \A m \in Nodes : clicked[m] # None => clicked'[m] = clicked[m]
  BY ClickStays
<1> QED
  BY <1>1 DEF Asked, Solo

\* A device passes on the choice its user made and accepts only a request that
\* some user made.
LEMMA InvitedDevice ==
    ASSUME IInv, TypeOK', NEW n \in Nodes, DeviceStep(n)
    PROVE  Invited(n)'
<1> USE NoneAssumption DEF TypeOK, Peer, Threads,
            vars, ui_vars, peer_vars, call_vars, svc_vars, history, Goto
<1>a. /\ \A s, d \in Nodes : Asked(s, d) => Asked(s, d)'
      /\ \A m \in Message : Genuine(m) => Genuine(m)'
      /\ \A s \in Nodes : Solo(s)' => Solo(s)
  PROOF
  <2>1. \A s, d \in Nodes : Asked(s, d) => Asked(s, d)'
    BY AskedStays DEF IInv
  <2>2. \A m \in Message : Genuine(m) => Genuine(m)'
    BY <2>1 DEF Genuine, Message
  <2>3. \A s \in Nodes : Solo(s)' => Solo(s)
    BY ClickStays DEF IInv, Solo
  <2> QED
    BY <2>1, <2>2, <2>3
<1>b. NoMessage \notin Message
  BY DEF NoMessage, Message, Kinds
<1> USE <1>a, <1>b DEF IInv, DeviceInv, Prepared, NeedsClick, ClickedOnce, Invited, CarriesChoice
<1>1. ASSUME NEW t \in Threads, PinPeer(n, t) PROVE Invited(n)'
  BY <1>1 DEF PinPeer
<1>2. ASSUME NEW t \in Threads, ConfigureClient(n, t) PROVE Invited(n)'
  BY <1>2 DEF ConfigureClient
<1>3. ASSUME NEW t \in Threads, CreateClient(n, t) PROVE Invited(n)'
  BY <1>3 DEF CreateClient
<1>4. CASE SetConnectedDevice(n)
  <2>1. clicked[n] # None /\ clicked' = clicked
    BY <1>4 DEF SetConnectedDevice
  <2>2. package[n] \in Message => package'[n].to = n /\ Genuine(package[n])'
    BY <1>4 DEF SetConnectedDevice
  <2>3. Solo(n)' => CarriesChoice(n)'
    BY <1>4 DEF SetConnectedDevice
  <2> QED
    BY <2>1, <2>2, <2>3, <1>4 DEF SetConnectedDevice
<1>5. CASE RequestReceiver(n)
  BY <1>5 DEF RequestReceiver, SendPackage
<1>6. CASE PostSenderScene(n)
  BY <1>6 DEF PostSenderScene
<1>7. CASE EndRender(n)
  BY <1>7 DEF EndRender
<1>8. CASE KeepScene(n)
  BY HeadTail, <1>8 DEF KeepScene, NextTask
<1>9. CASE SwitchScene(n)
  BY HeadTail, <1>9 DEF SwitchScene, NextTask, Mount
<1>10. CASE DestroyEmitter(n)
  BY <1>10 DEF DestroyEmitter, NextTask
<1>11. CASE FinishUnmount(n)
  BY HeadTail, <1>11 DEF FinishUnmount, Mount
<1>12. CASE EndTasks(n)
  BY <1>12 DEF EndTasks
<1>13. CASE EmitPackage(n)
  BY <1>13 DEF EmitPackage
<1>14. CASE AcceptRequest(n)
  <2>1. package[n].from \in Nodes \ {n} /\ Asked(package[n].from, n)
    BY <1>14 DEF AcceptRequest, Genuine, Message
  <2>2. ~ Solo(n)
    BY <2>1 DEF Solo, Asked
  <2>3. Asked(connected_device[n], n)'
    BY <2>1, <1>14 DEF AcceptRequest
  <2>4. package' = package /\ Genuine(package[n])'
    BY <1>14 DEF AcceptRequest
  <2> QED
    BY <2>2, <2>3, <2>4, <1>14 DEF AcceptRequest
<1>15. CASE InjectInput(n)
  BY <1>15 DEF InjectInput, Handled
<1>16. CASE UseFreedEmitter(n)
  BY <1>16 DEF UseFreedEmitter, Handled
<1>17. CASE IgnorePackage(n)
  BY <1>17 DEF IgnorePackage, Handled
<1>18. CASE PostReceiverScene(n)
  BY <1>18 DEF PostReceiverScene, Handled
<1>19. CASE ClickConnect(n)
  BY <1>19 DEF ClickConnect
<1>20. CASE SendInput(n)
  BY <1>20 DEF SendInput, SendPackage
<1>21. CASE DiscoveryUpdate(n)
  BY <1>21 DEF DiscoveryUpdate
<1>22. CASE Receive(n)
  BY <1>22 DEF Receive
<1> QED
  BY <1>1, <1>2, <1>3, <1>4, <1>5, <1>6, <1>7, <1>8, <1>9, <1>10, <1>11, <1>12, <1>13, <1>14, <1>15, <1>16, <1>17, <1>18, <1>19, <1>20, <1>21, <1>22 DEF PinConnection, UiStep, SvcStep, DeviceStep, Threads

\* Every request a device puts on the network was made by its user.
LEMMA NetDevice ==
    ASSUME IInv, TypeOK', NEW n \in Nodes, DeviceStep(n), NEW m \in net'
    PROVE  Genuine(m)'
<1> USE DEF TypeOK
<1>1. \A s, d \in Nodes : Asked(s, d) => Asked(s, d)'
  BY AskedStays DEF IInv
<1>2. CASE m \in net
  BY <1>1, <1>2 DEF IInv, Genuine, Message
<1>3. CASE RequestReceiver(n) /\ m \notin net
  <2>1. m.from = n /\ m.to = udp_client[n] /\ clicked' = clicked
    BY <1>3 DEF RequestReceiver, SendPackage, history
  <2>2. clicked[n] # None /\ (Solo(n) => udp_client[n] = clicked[n])
    BY <1>3 DEF RequestReceiver, IInv, DeviceInv, NeedsClick, Invited, CarriesChoice
  <2> QED
    BY <2>1, <2>2 DEF Genuine, Asked, Solo
<1>4. CASE SendInput(n) /\ m \notin net
  BY <1>4 DEF SendInput, SendPackage, Genuine
<1>5. CASE ~ RequestReceiver(n) /\ ~ SendInput(n) /\ m \notin net
  <2>1. net' \subseteq net
    BY <1>5 DEF DeviceStep, UiStep, SvcStep, PinConnection, PinPeer, ConfigureClient,
       CreateClient, SetConnectedDevice, PostSenderScene, EndRender, KeepScene,
       SwitchScene, DestroyEmitter, FinishUnmount, EndTasks, EmitPackage, AcceptRequest,
       InjectInput, UseFreedEmitter, IgnorePackage, PostReceiverScene, ClickConnect,
       DiscoveryUpdate, Receive
  <2> QED
    BY <1>5, <2>1
<1> QED
  BY <1>2, <1>3, <1>4, <1>5

------------------------------------------------------------------------------
\* When every device shows the home scene, nothing is assigned, asked or in flight.
LEMMA InitIInv == Init => IInv
<1> SUFFICES ASSUME Init PROVE IInv
  OBVIOUS
<1> USE NoneAssumption, BudgetAssumption DEF Init, Threads
<1>1. TypeOK
  BY DEF TypeOK, Peer, Scenes, Callbacks, PCs
<1>2. ASSUME NEW n \in Nodes PROVE DeviceInv(n) /\ Invited(n)
  <2>1. Prepared(n) /\ NeedsClick(n) /\ Settled(n) /\ ClickedOnce(n)
    BY DEF Prepared, Assigned, NeedsClick, Settled, ClickedOnce
  <2>2. NoMessage \notin Message
    BY DEF NoMessage, Message, Kinds
  <2>3. Invited(n)
    BY <2>2 DEF Invited, CarriesChoice
  <2> QED
    BY <2>1, <2>3 DEF DeviceInv
<1> QED
  BY <1>1, <1>2 DEF IInv

\* What a device relies on about others is not disturbed by their steps.
LEMMA DeviceStepIInv ==
    ASSUME IInv, NEW n \in Nodes, DeviceStep(n)
    PROVE  IInv'
<1>1. TypeOK'
  BY TypeDevice DEF IInv, DeviceInv
<1>2. DeviceInv(n)'
  BY <1>1, PreparedDevice, NeedsClickDevice, SettledDevice, ClickedOnceDevice
     DEF IInv, DeviceInv
<1>3. Invited(n)'
  BY <1>1, InvitedDevice
<1>4. ASSUME NEW m \in Nodes, m # n PROVE DeviceInv(m)' /\ Invited(m)'
  <2>1. Row(m)' = Row(m)
    BY <1>4, OtherDevices DEF IInv
  <2>2. DeviceInv(m) /\ Invited(m)
    BY DEF IInv
  <2>3. DeviceInv(m)'
    BY <2>1, <2>2 DEF Row, DeviceInv, Prepared, Assigned, Targets, NeedsClick, Settled,
       ClickedOnce
  <2>4. \A s, d \in Nodes : Asked(s, d) => Asked(s, d)'
    BY <1>1, AskedStays DEF IInv
  <2>5. package[m] \in Message => package'[m].to = m /\ Genuine(package[m])'
    BY <2>1, <2>2, <2>4 DEF Row, Invited, Genuine, Message
  <2>6. clicked'[m] = None /\ connected_device'[m] # None => Asked(connected_device[m], m)'
    BY <1>1, <2>1, <2>2, <2>4 DEF Row, Invited, IInv, TypeOK, Peer
  <2>7. Solo(m)' => CarriesChoice(m)'
    <3>1. Solo(m)' => Solo(m)
      BY ClickStays DEF Solo, IInv
    <3> QED
      BY <2>1, <2>2, <3>1 DEF Row, Invited, CarriesChoice
  <2> QED
    BY <2>1, <2>3, <2>5, <2>6, <2>7 DEF Invited, Row
<1>5. \A m \in net' : Genuine(m)'
  BY <1>1, NetDevice
<1> QED
  BY <1>1, <1>2, <1>3, <1>4, <1>5 DEF IInv

\* No step of any device, and no loss of a message, leaves the inductive invariant.
LEMMA NextIInv == IInv /\ [Next]_vars => IInv'
<1> SUFFICES ASSUME IInv, [Next]_vars PROVE IInv'
  OBVIOUS
<1> USE DEF IInv, TypeOK, DeviceInv, Prepared, Assigned, Targets, NeedsClick, Settled,
            ClickedOnce, Invited, CarriesChoice, Genuine, Asked, Solo,
            vars, ui_vars, peer_vars, call_vars, svc_vars, history
<1>1. ASSUME NEW n \in Nodes, DeviceStep(n) PROVE IInv'
  BY <1>1, DeviceStepIInv
<1>2. CASE Lose
  BY <1>2 DEF Lose
<1>3. CASE UNCHANGED vars
  BY <1>3
<1> QED
  BY <1>1, <1>2, <1>3 DEF Next

\* IInv holds in every reachable state.
THEOREM Invariant == Spec => []IInv
  BY InitIInv, NextIInv, PTL DEF Spec

------------------------------------------------------------------------------
\* Every variable keeps its type.
THEOREM TypeCorrect == Spec => []TypeOK
<1>1. IInv => TypeOK
  BY DEF IInv
<1> QED
  BY <1>1, Invariant, PTL

\* Neither scene is ever shown without a connected device, a pinned peer and a
\* client, for any number of devices and any interleaving of their threads.
THEOREM SceneHasTarget == Spec => []NoSceneWithoutTarget
<1>1. IInv => NoSceneWithoutTarget
  BY DEF IInv, DeviceInv, Prepared, Targets, NoSceneWithoutTarget
<1> QED
  BY <1>1, Invariant, PTL

\* On a device whose user never clicked, the three copies of the peer agree
\* whenever no request is being accepted.
THEOREM TargetsAlwaysAgree == Spec => []TargetsAgree
<1>1. IInv => TargetsAgree
  BY DEF IInv, TypeOK, PCs, DeviceInv, NeedsClick, Settled, TargetsAgree, Threads
<1> QED
  BY <1>1, Invariant, PTL

\* A device whose user never clicked injects the input of its pinned peer only.
THEOREM OnlyPinnedInput == Spec => []HearsOnlyItsPeer
<1>1. IInv => HearsOnlyItsPeer
  BY DEF IInv, DeviceInv, Settled, HearsOnlyItsPeer
<1> QED
  BY <1>1, Invariant, PTL

\* A device whose user never clicked cannot reach the destroyed emitter.
THEOREM EmitterOutlivesCalls == Spec => []NoUseAfterFree
<1>1. IInv => NoUseAfterFree
  BY DEF IInv, DeviceInv, NeedsClick, NoUseAfterFree
<1> QED
  BY <1>1, Invariant, PTL

\* A device only becomes a receiver for a user who asked, and asked for it when
\* no other user was clicking.
THEOREM ReceiversAreInvited == Spec => []NoUninvitedReceiver
<1>1. IInv => NoUninvitedReceiver
  BY DEF IInv, Invited, Asked, Solo, NoUninvitedReceiver
<1> QED
  BY <1>1, Invariant, PTL

\* Until its own user clicks, a device keeps the first peer it pinned.
THEOREM PinKept == Spec => PinIsFirstCome
<1>1. ASSUME IInv, [Next]_vars, NEW m \in Nodes, clicked'[m] = None, pinned_peer[m] # None
      PROVE  pinned_peer'[m] = pinned_peer[m]
  <2>1. ASSUME NEW n \in Nodes, NEW t \in Threads, PinPeer(n, t), m = n
        PROVE  pinned_peer'[m] = pinned_peer[m]
    <3>1. clicked[n] = None /\ pc[n][t] = "pin"
      BY <1>1, <2>1 DEF PinPeer, history
    <3>2. t = "svc" /\ pinned_peer[n] \in {None, arg[n]["svc"]}
      <4>1. NeedsClick(n) /\ Settled(n)
        BY <1>1 DEF IInv, DeviceInv
      <4>2. t = "svc"
        BY <3>1, <4>1 DEF NeedsClick, Threads
      <4> QED
        BY <3>1, <4>1, <4>2 DEF Settled
    <3> QED
      BY <1>1, <2>1, <3>2 DEF PinPeer, IInv, TypeOK
  <2>2. ASSUME NEW n \in Nodes, NEW t \in Threads, PinPeer(n, t), m # n
        PROVE  pinned_peer'[m] = pinned_peer[m]
    BY <2>2 DEF PinPeer, IInv, TypeOK
  <2>3. ASSUME \A n \in Nodes, t \in Threads : ~ PinPeer(n, t)
        PROVE  pinned_peer' = pinned_peer
    BY <1>1, <2>3 DEF Next, DeviceStep, UiStep, SvcStep, PinConnection, Threads,
       ConfigureClient, CreateClient, SetConnectedDevice, RequestReceiver,
       PostSenderScene, EndRender, KeepScene, SwitchScene, DestroyEmitter, FinishUnmount,
       EndTasks, EmitPackage, AcceptRequest, InjectInput, UseFreedEmitter, IgnorePackage,
       PostReceiverScene, ClickConnect, SendInput, DiscoveryUpdate, Receive, Lose, vars,
       peer_vars
  <2> QED
    BY <2>1, <2>2, <2>3
<1>2. IInv /\ [Next]_vars =>
        [\A n \in Nodes : clicked'[n] = None /\ pinned_peer[n] # None
              => pinned_peer'[n] = pinned_peer[n]]_vars
  BY <1>1
<1> QED
  BY <1>2, Invariant, PTL DEF Spec, PinIsFirstCome

------------------------------------------------------------------------------
\* A device that works with nobody still shows the home scene, whose handler is the
\* one that a request reaches; between two packages there is none to drop.
Listening(n) ==
    /\ scene[n] = "home" => subscriber[n] = "home"
    /\ pc[n]["svc"] = "call" /\ connected_device[n] = None => callback[n] = "home"
    /\ pc[n]["svc"] = "poll" => package[n] = NoMessage

\* Neither a scene change nor a package in between takes the handler away.
LEMMA ListeningDevice ==
    ASSUME TypeOK, TypeOK', NEW n \in Nodes, DeviceStep(n), Prepared(n), Listening(n)
    PROVE  Listening(n)'
<1> USE NoneAssumption DEF TypeOK, Peer, Threads,
            vars, ui_vars, peer_vars, call_vars, svc_vars, history, Goto
<1> USE DEF Prepared, Assigned, Targets, Listening
<1>1. ASSUME NEW t \in Threads, PinConnection(n, t) PROVE Listening(n)'
  <2>1. CASE PinPeer(n, t) BY <2>1 DEF PinPeer
  <2>2. CASE ConfigureClient(n, t) BY <2>2 DEF ConfigureClient
  <2>3. CASE CreateClient(n, t) BY <2>3 DEF CreateClient
  <2> QED BY <1>1, <2>1, <2>2, <2>3 DEF PinConnection
<1>2. CASE SetConnectedDevice(n)
  BY <1>2 DEF SetConnectedDevice
<1>3. CASE RequestReceiver(n) \/ PostSenderScene(n) \/ EndRender(n) \/ EndTasks(n)
  <2>1. UNCHANGED <<scene, subscriber, connected_device, callback, package>>
    BY <1>3 DEF RequestReceiver, PostSenderScene, EndRender, EndTasks
  <2>2. pc'[n]["svc"] = pc[n]["svc"]
    BY <1>3 DEF RequestReceiver, PostSenderScene, EndRender, EndTasks
  <2> QED BY <2>1, <2>2
<1>4. CASE KeepScene(n)
  BY <1>4 DEF KeepScene
<1>5. CASE SwitchScene(n)
  <2>1. Head(ui_queue[n]) \in {"sender", "receiver"}
    BY HeadTail, <1>5 DEF SwitchScene, NextTask
  <2> QED BY <1>5, <2>1 DEF SwitchScene, Mount
<1>6. CASE DestroyEmitter(n)
  BY <1>6 DEF DestroyEmitter
<1>7. CASE FinishUnmount(n)
  <2>1. Head(ui_queue[n]) \in {"sender", "receiver"}
    BY HeadTail, <1>7 DEF FinishUnmount
  <2> QED BY <1>7, <2>1 DEF FinishUnmount, Mount
<1>8. CASE EmitPackage(n)
  BY <1>8 DEF EmitPackage
<1>9. CASE AcceptRequest(n)
  BY <1>9 DEF AcceptRequest
<1>10. CASE InjectInput(n)
  BY <1>10 DEF InjectInput, Handled
<1>11. CASE UseFreedEmitter(n)
  <2>1. CASE Handled(n)
    BY <2>1, <1>11 DEF UseFreedEmitter, Handled
  <2>2. CASE /\ pc' = [pc EXCEPT ![n] = [t \in Threads |-> "crashed"]]
             /\ UNCHANGED <<package, callback>>
    BY <2>2, <1>11 DEF UseFreedEmitter
  <2> QED BY <2>1, <2>2, <1>11 DEF UseFreedEmitter
<1>12. CASE IgnorePackage(n)
  BY <1>12 DEF IgnorePackage, Handled
<1>13. CASE PostReceiverScene(n)
  BY <1>13 DEF PostReceiverScene, Handled
<1>14. CASE ClickConnect(n)
  BY <1>14 DEF ClickConnect
<1>15. CASE SendInput(n) \/ DiscoveryUpdate(n)
  BY <1>15 DEF SendInput, DiscoveryUpdate
<1>16. CASE Receive(n)
  BY <1>16 DEF Receive
<1> QED
  BY <1>1, <1>2, <1>3, <1>4, <1>5, <1>6, <1>7, <1>8, <1>9, <1>10, <1>11, <1>12, <1>13, <1>14, <1>15, <1>16 DEF PinConnection, UiStep, SvcStep, DeviceStep

LInv == IInv /\ \A n \in Nodes : Listening(n)

LEMMA ListeningInvariant == Spec => []LInv
<1>1. Init => LInv
  <2>1. Init => \A n \in Nodes : Listening(n)
    BY DEF Init, Listening, Threads
  <2> QED BY <2>1, InitIInv DEF LInv
<1>2. LInv /\ [Next]_vars => LInv'
  <2> SUFFICES ASSUME LInv, [Next]_vars PROVE LInv'
    OBVIOUS
  <2>1. IInv'
    BY NextIInv DEF LInv
  <2>2. ASSUME NEW n \in Nodes, DeviceStep(n), NEW m \in Nodes PROVE Listening(m)'
    <3>1. CASE m = n
      BY <2>1, <2>2, <3>1, ListeningDevice DEF LInv, IInv, DeviceInv
    <3>2. CASE m # n
      <4>1. Row(m)' = Row(m)
        BY <2>2, <3>2, OtherDevices DEF LInv, IInv
      <4> QED BY <4>1 DEF LInv, Listening, Row
    <3> QED BY <3>1, <3>2
  <2>3. ASSUME UNCHANGED <<scene, subscriber, pc, connected_device, callback, package>>,
               NEW m \in Nodes
        PROVE  Listening(m)'
    BY <2>3 DEF LInv, Listening
  <2>4. Lose \/ UNCHANGED vars =>
          UNCHANGED <<scene, subscriber, pc, connected_device, callback, package>>
    BY DEF Lose, vars, ui_vars, peer_vars, svc_vars
  <2> QED BY <2>1, <2>2, <2>3, <2>4 DEF Next, LInv
<1> QED BY <1>1, <1>2, PTL DEF Spec

\* However the request meets scene changes, clicks and other requests, a listed
\* device is not turned down by one that works with nobody.
THEOREM RequestsAreTaken == Spec => RequestNotDropped
<1>1. ASSUME LInv, [Next]_vars, NEW m \in Nodes,
             package[m].kind = "become_receiver", package[m].from \in available[m],
             package'[m] # package[m], connected_device[m] = None
      PROVE  FALSE
  <2>1. TypeOK /\ Prepared(m) /\ Listening(m)
    BY <1>1 DEF LInv, IInv, DeviceInv
  <2>2. pc[m]["svc"] # "poll"
    BY <1>1, <2>1 DEF Listening, NoMessage
  <2>3. PICK n \in Nodes : DeviceStep(n)
    BY <1>1 DEF Next, Lose, vars, svc_vars
  <2>4. n = m
    <3>1. n # m => Row(m)' = Row(m)
      BY <2>1, <2>3, OtherDevices
    <3> QED BY <1>1, <3>1 DEF Row
  <2>5. CASE InjectInput(m) \/ UseFreedEmitter(m)
    BY <1>1, <2>5 DEF InjectInput, UseFreedEmitter
  <2>6. CASE IgnorePackage(m)
    BY <1>1, <2>1, <2>6 DEF IgnorePackage, Listening
  <2>7. CASE PostReceiverScene(m)
    BY <1>1, <2>1, <2>7 DEF PostReceiverScene, Prepared, Assigned, Threads
  <2>8. CASE Receive(m)
    BY <2>2, <2>8 DEF Receive
  <2>9. ASSUME ~ InjectInput(m), ~ UseFreedEmitter(m), ~ IgnorePackage(m),
               ~ PostReceiverScene(m), ~ Receive(m)
        PROVE  package' = package
    BY <2>3, <2>4, <2>9 DEF DeviceStep, UiStep, SvcStep, PinConnection, PinPeer,
       ConfigureClient, CreateClient, SetConnectedDevice, RequestReceiver, PostSenderScene,
       EndRender, KeepScene, SwitchScene, DestroyEmitter, FinishUnmount, EndTasks,
       EmitPackage, AcceptRequest, ClickConnect, SendInput, DiscoveryUpdate, svc_vars
  <2> QED
    BY <1>1, <2>5, <2>6, <2>7, <2>8, <2>9
<1>2. LInv /\ [Next]_vars =>
        [\A n \in Nodes :
            /\ package[n].kind = "become_receiver" /\ package[n].from \in available[n]
            /\ package'[n] # package[n]
            => connected_device[n] # None]_vars
  BY <1>1
<1> QED
  BY <1>2, ListeningInvariant, PTL DEF Spec, RequestNotDropped

------------------------------------------------------------------------------
\* On the one device whose user pressed Connect, how far the click has come in making
\* the store, the pin and the client name the device of the button.
OnTarget(n) ==
    /\ pc[n]["ui"] \in {"connect", "pin", "config", "client", "request", "post"}
          => scene[n] = "home"
    /\ Solo(n) /\ clicked[n] # None =>
          /\ pc[n]["ui"] \notin {"connect", "crashed"} => connected_device[n] = clicked[n]
          /\ pc[n]["ui"] \notin {"connect", "pin", "crashed"} => pinned_peer[n] = clicked[n]
          /\ pc[n]["ui"] \notin {"connect", "pin", "config", "client", "crashed"}
                => udp_client[n] = clicked[n]

\* With no other click, nothing but the statements of the click assigns the three.
LEMMA OnTargetDevice ==
    ASSUME TypeOK, TypeOK', NEW n \in Nodes, DeviceStep(n), DeviceInv(n), Invited(n),
           Invited(n)', OnTarget(n)
    PROVE  OnTarget(n)'
<1> DEFINE Names == <<connected_device, pinned_peer, udp_client>>
<1> USE NoneAssumption DEF TypeOK, Peer, Threads, Solo,
            vars, ui_vars, peer_vars, call_vars, svc_vars, history, Goto
<1> USE DEF OnTarget
<1>1. \A m \in Nodes : clicked[m] # None => clicked'[m] = clicked[m]
  BY ClickStays
<1>2. Solo(n)' => Solo(n)
  BY <1>1
<1>3. ASSUME Solo(n)' PROVE CarriesChoice(n) /\ CarriesChoice(n)'
  BY <1>2, <1>3 DEF Invited
<1>4. CASE ClickConnect(n)
  BY <1>4 DEF ClickConnect
<1>5. CASE SetConnectedDevice(n)
  BY <1>2, <1>3, <1>5 DEF SetConnectedDevice, CarriesChoice
<1>6. CASE PinPeer(n, "ui")
  BY <1>2, <1>3, <1>6 DEF PinPeer, CarriesChoice
<1>7. CASE ConfigureClient(n, "ui")
  BY <1>2, <1>3, <1>7 DEF ConfigureClient, CarriesChoice
<1>8. CASE CreateClient(n, "ui")
  BY <1>2, <1>3, <1>8 DEF CreateClient, CarriesChoice
<1>9. CASE PinConnection(n, "svc") \/ AcceptRequest(n)
  <2>1. ~ Solo(n)'
    BY <1>3, <1>9 DEF PinConnection, PinPeer, ConfigureClient, CreateClient, AcceptRequest,
       CarriesChoice
  <2>2. pc'[n]["ui"] = pc[n]["ui"] /\ scene' = scene
    BY <1>9 DEF PinConnection, PinPeer, ConfigureClient, CreateClient, AcceptRequest
  <2> QED  BY <2>1, <2>2
<1>10. ASSUME UNCHANGED Names, clicked' = clicked,
              \/ scene' = scene /\ pc'[n]["ui"] = pc[n]["ui"]
              \/ scene' = scene /\ pc[n]["ui"] = "request" /\ pc'[n]["ui"] = "post"
              \/ pc[n]["ui"] \in {"frame", "post", "tasks", "unsubscribe"}
                    /\ pc'[n]["ui"] \in {"tasks", "unsubscribe", "frame"}
              \/ pc'[n]["ui"] = "crashed"
       PROVE  OnTarget(n)'
  BY <1>2, <1>10
<1>11. CASE RequestReceiver(n) \/ PostSenderScene(n) \/ EndRender(n) \/ EndTasks(n)
  <2>1. UNCHANGED Names /\ clicked' = clicked
    BY <1>11 DEF RequestReceiver, PostSenderScene, EndRender, EndTasks
  <2>2. \/ scene' = scene /\ pc[n]["ui"] = "request" /\ pc'[n]["ui"] = "post"
        \/ pc[n]["ui"] \in {"frame", "post", "tasks"} /\ pc'[n]["ui"] \in {"tasks", "frame"}
    BY <1>11 DEF RequestReceiver, PostSenderScene, EndRender, EndTasks
  <2> QED  BY <1>10, <2>1, <2>2
<1>12. CASE KeepScene(n) \/ SwitchScene(n) \/ DestroyEmitter(n) \/ FinishUnmount(n)
  <2>1. UNCHANGED Names /\ clicked' = clicked
    BY <1>12 DEF KeepScene, SwitchScene, DestroyEmitter, FinishUnmount
  <2>2. pc[n]["ui"] \in {"tasks", "unsubscribe"} /\ pc'[n]["ui"] \in {"tasks", "unsubscribe"}
    BY <1>12 DEF KeepScene, SwitchScene, DestroyEmitter, FinishUnmount, NextTask
  <2> QED  BY <1>10, <2>1, <2>2
<1>13. CASE UseFreedEmitter(n)
  <2>1. UNCHANGED Names /\ clicked' = clicked /\ scene' = scene
    BY <1>13 DEF UseFreedEmitter
  <2>2. pc'[n]["ui"] = pc[n]["ui"] \/ pc'[n]["ui"] = "crashed"
    BY <1>13 DEF UseFreedEmitter, Handled
  <2> QED  BY <1>10, <2>1, <2>2
<1>14. CASE \/ EmitPackage(n) \/ InjectInput(n) \/ IgnorePackage(n) \/ PostReceiverScene(n)
            \/ SendInput(n) \/ DiscoveryUpdate(n) \/ Receive(n)
  <2>1. UNCHANGED Names /\ clicked' = clicked /\ scene' = scene
    BY <1>14 DEF EmitPackage, InjectInput, IgnorePackage, PostReceiverScene, SendInput,
       DiscoveryUpdate, Receive
  <2>2. pc'[n]["ui"] = pc[n]["ui"]
    BY <1>14 DEF EmitPackage, InjectInput, IgnorePackage, PostReceiverScene, SendInput,
       DiscoveryUpdate, Receive, Handled
  <2> QED  BY <1>10, <2>1, <2>2
<1> HIDE DEF TypeOK, OnTarget, Solo
<1> QED
  BY <1>4, <1>5, <1>6, <1>7, <1>8, <1>9, <1>11, <1>12, <1>13, <1>14
     DEF DeviceStep, UiStep, SvcStep, PinConnection

TInv == IInv /\ \A n \in Nodes : OnTarget(n)

LEMMA OnTargetInvariant == Spec => []TInv
<1>1. Init => TInv
  <2>1. Init => \A n \in Nodes : OnTarget(n)
    BY DEF Init, OnTarget, Threads
  <2> QED  BY <2>1, InitIInv DEF TInv
<1>2. TInv /\ [Next]_vars => TInv'
  <2> SUFFICES ASSUME TInv, [Next]_vars PROVE TInv'
    OBVIOUS
  <2>1. IInv'
    BY NextIInv DEF TInv
  <2>2. ASSUME NEW n \in Nodes, DeviceStep(n), NEW m \in Nodes PROVE OnTarget(m)'
    <3>1. CASE m = n
      BY <2>1, <2>2, <3>1, OnTargetDevice DEF TInv, IInv
    <3>2. CASE m # n
      <4>1. Row(m)' = Row(m)
        BY <2>2, <3>2, OtherDevices DEF TInv, IInv
      <4>2. Solo(m)' => Solo(m)
        BY <2>2, ClickStays DEF TInv, IInv, Solo
      <4> QED  BY <4>1, <4>2 DEF TInv, OnTarget, Row
    <3> QED  BY <3>1, <3>2
  <2>3. CASE Lose \/ UNCHANGED vars
    <3>1. UNCHANGED <<scene, pc, connected_device, pinned_peer, udp_client, clicked>>
      BY <2>3 DEF Lose, vars, ui_vars, peer_vars, history
    <3> QED  BY <2>1, <3>1 DEF TInv, OnTarget, Solo
  <2> QED  BY <2>1, <2>2, <2>3 DEF Next, TInv
<1> QED  BY <1>1, <1>2, PTL DEF Spec

\* A sender scene works, down to the client, with the device of the button that was
\* pressed, unless some other user pressed a button too.
OnlyRivalsMislead ==
    \A n \in Nodes : scene[n] = "sender" /\ Solo(n) /\ pc[n]["ui"] # "crashed" =>
        /\ connected_device[n] = clicked[n]
        /\ pinned_peer[n] = clicked[n] /\ udp_client[n] = clicked[n]

\* How far the counterexample to SenderTargetsStore reaches: it takes the clicks of two
\* users; a single one, whatever is in flight, gets the device that was chosen.
THEOREM OneClickIsRight == Spec => []OnlyRivalsMislead
<1>1. TInv => OnlyRivalsMislead
  <2> SUFFICES ASSUME TInv, NEW n \in Nodes, scene[n] = "sender", Solo(n),
                      pc[n]["ui"] # "crashed"
               PROVE  /\ connected_device[n] = clicked[n]
                      /\ pinned_peer[n] = clicked[n] /\ udp_client[n] = clicked[n]
    BY DEF OnlyRivalsMislead
  <2>1. clicked[n] # None
    BY DEF TInv, IInv, DeviceInv, NeedsClick
  <2> QED  BY <2>1 DEF TInv, OnTarget
<1> QED  BY <1>1, OnTargetInvariant, PTL
==============================================================================
