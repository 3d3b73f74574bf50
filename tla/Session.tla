------------------------------- MODULE Session -------------------------------
(***************************************************************************)
(* The pairing of devices: how a click on "Connect" on one device makes    *)
(* that device the sender and another one the receiver.                    *)
(*                                                                         *)
(* Every device runs two threads on shared, unlocked state: the UI thread  *)
(* (SdlImGuiWindow::frame: input, render, then the queued UI tasks) and    *)
(* the services thread (main_loop::run: discovery, then the communication  *)
(* service's poll).  A click runs HomeScene::render's button body on the   *)
(* UI thread; a become_receiver package runs HomeScene's on_package        *)
(* handler on the services thread.  Both set connected_device, call        *)
(* communication_service::pin_connection and post a scene change, and one  *)
(* may run between any two statements of the other.                        *)
(*                                                                         *)
(* A device is identified with its IP address, as the code does.  The      *)
(* network may lose a message and deliver messages in any order (mouse     *)
(* motion travels on ENet's unreliable channel).                           *)
(***************************************************************************)
EXTENDS Naturals, Sequences, FiniteSets

CONSTANTS
    Nodes,         \* the devices on the local network
    None,          \* a null pointer
    kMaxPerFrame   \* how many UI tasks one frame runs

ASSUME NoneAssumption == None \notin Nodes
ASSUME BudgetAssumption == kMaxPerFrame \in Nat \ {0}

Threads == {"ui", "svc"}
Scenes  == {"home", "sender", "receiver"}
Kinds   == {"become_receiver", "keyboard_input"}
Message == [from : Nodes, to : Nodes, kind : Kinds]
NoMessage == [from |-> None, to |-> None, kind |-> "none"]

\* Who listens to communication_service::on_package.  "dangling" is the
\* ReceiverScene callback once the emitter it captured has been destroyed.
Callbacks == {"home", "receiver", "dangling", "none"}

\* Where a thread stands.  "pin", "config" and "client" are the three
\* assignments of pin_connection, run by either thread.
PCs == {"frame", "connect", "pin", "config", "client", "request", "post",
        "tasks", "unsubscribe", "poll", "emit", "call", "crashed"}

VARIABLES
    scene,            \* the mounted scene
    connected_device, \* store: the device this one believes it works with
    pinned_peer,      \* communication_service::pinned_peer_
    udp_client,       \* the peer udp_client_ was configured for
    available,        \* store: available_devices
    subscriber,       \* the one subscriber of on_package
    ui_queue,         \* the tasks of ui_dispatch
    pc,               \* program counter of each thread
    arg,              \* the peer each thread passed to pin_connection
    config,           \* pin_connection's local configuration
    budget,           \* UI tasks this frame may still run
    package,          \* the package the services thread handles
    callback,         \* the subscriber event_emitter::emit copied
    net,              \* messages in flight
    clicked,          \* history: the device whose Connect button was pressed
    injected          \* history: the devices whose input was injected here

ui_vars   == <<scene, subscriber, ui_queue, budget>>
peer_vars == <<connected_device, pinned_peer, udp_client>>
call_vars == <<arg, config>>
svc_vars  == <<package, callback>>
history   == <<clicked, injected>>
vars == <<ui_vars, peer_vars, call_vars, svc_vars, history, available, pc, net>>

------------------------------------------------------------------------------
\* main_loop::init: the window mounts HomeScene, which empties the device list,
\* adds both services and subscribes to on_package.
Init ==
    /\ scene = [n \in Nodes |-> "home"]
    /\ connected_device = [n \in Nodes |-> None]
    /\ pinned_peer = [n \in Nodes |-> None]
    /\ udp_client = [n \in Nodes |-> None]
    /\ available = [n \in Nodes |-> {}]
    /\ subscriber = [n \in Nodes |-> "home"]
    /\ ui_queue = [n \in Nodes |-> <<>>]
    /\ pc = [n \in Nodes |-> [t \in Threads |-> IF t = "ui" THEN "frame" ELSE "poll"]]
    /\ arg = [n \in Nodes |-> [t \in Threads |-> None]]
    /\ config = [n \in Nodes |-> [t \in Threads |-> None]]
    /\ budget = [n \in Nodes |-> kMaxPerFrame]
    /\ package = [n \in Nodes |-> NoMessage]
    /\ callback = [n \in Nodes |-> "none"]
    /\ net = {}
    /\ clicked = [n \in Nodes |-> None]
    /\ injected = [n \in Nodes |-> {}]

Goto(n, t, label) == pc' = [pc EXCEPT ![n][t] = label]

------------------------------------------------------------------------------
\* communication_service::pin_connection, one action per assignment: the peer
\* is stored, read back into the configuration, and the client is replaced.

PinPeer(n, t) ==
    /\ pc[n][t] = "pin"
    /\ pinned_peer' = [pinned_peer EXCEPT ![n] = arg[n][t]]
    /\ Goto(n, t, "config")
    /\ UNCHANGED <<ui_vars, connected_device, udp_client, call_vars, svc_vars,
                   history, available, net>>

ConfigureClient(n, t) ==
    /\ pc[n][t] = "config"
    /\ config' = [config EXCEPT ![n][t] = pinned_peer[n]]
    /\ Goto(n, t, "client")
    /\ UNCHANGED <<ui_vars, peer_vars, arg, svc_vars, history, available, net>>

CreateClient(n, t) ==
    /\ pc[n][t] = "client"
    /\ udp_client' = [udp_client EXCEPT ![n] = config[n][t]]
    /\ Goto(n, t, IF t = "ui" THEN "request" ELSE "post")
    /\ config' = [config EXCEPT ![n][t] = None]
    /\ arg' = [arg EXCEPT ![n][t] = None]
    /\ UNCHANGED <<ui_vars, connected_device, pinned_peer, svc_vars, history,
                   available, net>>

\* communication_service::send_package_reliable and _unreliable.  Without a
\* client or a pinned peer nothing is sent; a client that is not connected
\* drops the message.
SendPackage(n, kind) ==
    \/ /\ udp_client[n] # None /\ pinned_peer[n] # None
       /\ net' = net \cup {[from |-> n, to |-> udp_client[n], kind |-> kind]}
    \/ UNCHANGED net

------------------------------------------------------------------------------
\* The UI thread.

\* Mutant of ClickConnect: the button of one row connects to another one's device.
ClickConnectWrongRow(n) ==
    /\ pc[n]["ui"] = "frame"
    /\ scene[n] = "home"
    /\ \E d, e \in available[n] :
          /\ arg' = [arg EXCEPT ![n]["ui"] = e]
          /\ clicked' = [clicked EXCEPT ![n] = d]
    /\ Goto(n, "ui", "connect")
    /\ UNCHANGED <<ui_vars, peer_vars, config, svc_vars, injected, available, net>>

\* HomeScene::render, the Connect button of a device in the rendered snapshot.
ClickConnect(n) ==
    /\ pc[n]["ui"] = "frame"
    /\ scene[n] = "home"
    /\ \E d \in available[n] :
          /\ arg' = [arg EXCEPT ![n]["ui"] = d]
          /\ clicked' = [clicked EXCEPT ![n] = d]
    /\ Goto(n, "ui", "connect")
    /\ UNCHANGED <<ui_vars, peer_vars, config, svc_vars, injected, available, net>>

SetConnectedDevice(n) ==
    /\ pc[n]["ui"] = "connect"
    /\ connected_device' = [connected_device EXCEPT ![n] = arg[n]["ui"]]
    /\ Goto(n, "ui", "pin")
    /\ UNCHANGED <<ui_vars, pinned_peer, udp_client, call_vars, svc_vars,
                   history, available, net>>

RequestReceiver(n) ==
    /\ pc[n]["ui"] = "request"
    /\ SendPackage(n, "become_receiver")
    /\ Goto(n, "ui", "post")
    /\ UNCHANGED <<ui_vars, peer_vars, call_vars, svc_vars, history, available>>

PostSenderScene(n) ==
    /\ pc[n]["ui"] = "post"
    /\ ui_queue' = [ui_queue EXCEPT ![n] = Append(@, "sender")]
    /\ Goto(n, "ui", "tasks")
    /\ UNCHANGED <<scene, subscriber, budget, peer_vars, call_vars, svc_vars,
                   history, available, net>>

\* A frame in which nothing is clicked goes on to process_ui_tasks.
EndRender(n) ==
    /\ pc[n]["ui"] = "frame"
    /\ Goto(n, "ui", "tasks")
    /\ UNCHANGED <<ui_vars, peer_vars, call_vars, svc_vars, history, available, net>>

\* Mutant of Mount: ReceiverScene's emitter is a local of didMount.
MountLocalEmitter(n, s) ==
    /\ scene' = [scene EXCEPT ![n] = s]
    /\ subscriber' = [subscriber EXCEPT ![n] = IF s = "receiver" THEN "dangling" ELSE "none"]

\* setScene's mount half: the new scene's didMount.  Only ReceiverScene
\* subscribes to packages, with a fresh emitter.
Mount(n, s) ==
    /\ scene' = [scene EXCEPT ![n] = s]
    /\ subscriber' = [subscriber EXCEPT ![n] = IF s = "receiver" THEN s ELSE "none"]

\* Mutant of NextTask: the cap on tasks per frame is not tested.
NextTaskUncapped(n) ==
    /\ pc[n]["ui"] = "tasks"
    /\ ui_queue[n] # <<>>
    /\ budget' = [budget EXCEPT ![n] = @ - 1]

\* process_ui_tasks takes the next task, a set_window_scene, while the frame
\* may run one.
NextTask(n) ==
    /\ pc[n]["ui"] = "tasks"
    /\ budget[n] > 0
    /\ ui_queue[n] # <<>>
    /\ budget' = [budget EXCEPT ![n] = @ - 1]

\* Setting the scene that is already shown does nothing.
KeepScene(n) ==
    /\ NextTask(n)
    /\ Head(ui_queue[n]) = scene[n]
    /\ ui_queue' = [ui_queue EXCEPT ![n] = Tail(@)]
    /\ UNCHANGED <<scene, subscriber, pc, peer_vars, call_vars, svc_vars, history,
                   available, net>>

\* HomeScene unsubscribes and removes discovery, SenderScene stops its flow;
\* then the new scene mounts.
SwitchScene(n) ==
    /\ NextTask(n)
    /\ scene[n] \notin {"receiver", Head(ui_queue[n])}
    /\ ui_queue' = [ui_queue EXCEPT ![n] = Tail(@)]
    /\ Mount(n, Head(ui_queue[n]))
    /\ UNCHANGED <<pc, peer_vars, call_vars, svc_vars, history, available, net>>

\* ReceiverScene::willUnmount destroys its emitter before it unsubscribes.  The
\* task, and with it the queue's head, is finished by FinishUnmount.
DestroyEmitter(n) ==
    /\ NextTask(n)
    /\ scene[n] = "receiver" /\ Head(ui_queue[n]) # "receiver"
    /\ subscriber' = [subscriber EXCEPT ![n] = "dangling"]
    /\ callback' = [callback EXCEPT ![n] = IF @ = "receiver" THEN "dangling" ELSE @]
    /\ Goto(n, "ui", "unsubscribe")
    /\ UNCHANGED <<scene, ui_queue, peer_vars, call_vars, package, history,
                   available, net>>

\* The rest of that task: ReceiverScene unsubscribes, the next scene mounts.
FinishUnmount(n) ==
    /\ pc[n]["ui"] = "unsubscribe"
    /\ Mount(n, Head(ui_queue[n]))
    /\ ui_queue' = [ui_queue EXCEPT ![n] = Tail(@)]
    /\ Goto(n, "ui", "tasks")
    /\ UNCHANGED <<budget, peer_vars, call_vars, svc_vars, history, available, net>>

\* Mutant of EndTasks: the task counter outlives the frame.
EndTasksKeepBudget(n) ==
    /\ pc[n]["ui"] = "tasks"
    /\ ui_queue[n] = <<>> \/ budget[n] = 0
    /\ Goto(n, "ui", "frame")
    /\ UNCHANGED <<ui_vars, peer_vars, call_vars, svc_vars, history, available, net>>

EndTasks(n) ==
    /\ pc[n]["ui"] = "tasks"
    /\ ui_queue[n] = <<>> \/ budget[n] = 0
    /\ budget' = [budget EXCEPT ![n] = kMaxPerFrame]
    /\ Goto(n, "ui", "frame")
    /\ UNCHANGED <<scene, subscriber, ui_queue, peer_vars, call_vars, svc_vars,
                   history, available, net>>

\* SenderFlow forwards captured input: keys from the UI thread, motion and
\* scrolling from its own two threads, so at any point of a UI frame.
SendInput(n) ==
    /\ scene[n] = "sender"
    /\ pc[n]["ui"] # "crashed"
    /\ SendPackage(n, "keyboard_input")
    /\ UNCHANGED <<ui_vars, peer_vars, call_vars, svc_vars, history, available, pc>>

------------------------------------------------------------------------------
\* The services thread.

\* discovery_service::update publishes whichever devices it knows.  HomeScene
\* removes the service when it unmounts; a pass begun before may still publish,
\* which nobody reads any more.
DiscoveryUpdate(n) ==
    /\ pc[n]["svc"] = "poll"
    /\ scene[n] = "home"
    /\ \E ds \in SUBSET (Nodes \ {n}) : available' = [available EXCEPT ![n] = ds]
    /\ UNCHANGED <<ui_vars, peer_vars, call_vars, svc_vars, history, pc, net>>

\* Mutant of Receive: messages are not filtered by the pinned peer.
ReceiveFromAnyone(n) ==
    /\ pc[n]["svc"] = "poll"
    /\ \E m \in net :
          /\ m.to = n
          /\ net' = net \ {m}
          /\ package' = [package EXCEPT ![n] = m]
    /\ Goto(n, "svc", "emit")
    /\ UNCHANGED <<ui_vars, peer_vars, call_vars, callback, history, available>>

\* udp_server::poll_events and the communication service's on_message: once a
\* peer is pinned, messages of every other device are ignored.
Receive(n) ==
    /\ pc[n]["svc"] = "poll"
    /\ \E m \in net :
          /\ m.to = n
          /\ net' = net \ {m}
          /\ \/ /\ pinned_peer[n] \in {None, m.from}
                /\ package' = [package EXCEPT ![n] = m]
                /\ Goto(n, "svc", "emit")
             \/ /\ pinned_peer[n] \notin {None, m.from}
                /\ UNCHANGED <<package, pc>>
    /\ UNCHANGED <<ui_vars, peer_vars, call_vars, callback, history, available>>

\* event_emitter::emit copies the subscribers under its lock and calls them
\* without it.
EmitPackage(n) ==
    /\ pc[n]["svc"] = "emit"
    /\ callback' = [callback EXCEPT ![n] = subscriber[n]]
    /\ Goto(n, "svc", "call")
    /\ UNCHANGED <<ui_vars, peer_vars, call_vars, package, history, available, net>>

\* The services thread has handled its package and polls on.
Handled(n) ==
    /\ Goto(n, "svc", "poll")
    /\ package' = [package EXCEPT ![n] = NoMessage]
    /\ callback' = [callback EXCEPT ![n] = "none"]

\* Mutant of AcceptRequest: the handler switches the scene without pinning.
AcceptRequestUnpinned(n) ==
    /\ pc[n]["svc"] = "call"
    /\ callback[n] = "home"
    /\ package[n].kind = "become_receiver"
    /\ package[n].from \in available[n]
    /\ connected_device' = [connected_device EXCEPT ![n] = package[n].from]
    /\ Goto(n, "svc", "post")
    /\ UNCHANGED <<ui_vars, pinned_peer, udp_client, call_vars, svc_vars, history,
                   available, net>>

\* Mutant of AcceptRequest: connected_device is left as it was.
AcceptRequestUnset(n) ==
    /\ pc[n]["svc"] = "call"
    /\ callback[n] = "home"
    /\ package[n].kind = "become_receiver"
    /\ package[n].from \in available[n]
    /\ arg' = [arg EXCEPT ![n]["svc"] = package[n].from]
    /\ Goto(n, "svc", "pin")
    /\ UNCHANGED <<ui_vars, peer_vars, config, svc_vars, history, available, net>>

\* HomeScene's handler up to the point where it accepts the request: the
\* sender must be a device that discovery has listed.
AcceptRequest(n) ==
    /\ pc[n]["svc"] = "call"
    /\ callback[n] = "home"
    /\ package[n].kind = "become_receiver"
    /\ package[n].from \in available[n]
    /\ connected_device' = [connected_device EXCEPT ![n] = package[n].from]
    /\ arg' = [arg EXCEPT ![n]["svc"] = package[n].from]
    /\ Goto(n, "svc", "pin")
    /\ UNCHANGED <<ui_vars, pinned_peer, udp_client, config, svc_vars, history,
                   available, net>>

\* ReceiverScene's callback injects the event with the emitter it captured.
InjectInput(n) ==
    /\ pc[n]["svc"] = "call"
    /\ callback[n] = "receiver"
    /\ package[n].kind = "keyboard_input"
    /\ injected' = [injected EXCEPT ![n] = @ \cup {package[n].from}]
    /\ Handled(n)
    /\ UNCHANGED <<ui_vars, peer_vars, call_vars, clicked, available, net>>

\* The same callback after the emitter was destroyed: a virtual call on freed
\* memory, which may crash the process, inject, or do nothing.
UseFreedEmitter(n) ==
    /\ pc[n]["svc"] = "call"
    /\ callback[n] = "dangling"
    /\ package[n].kind = "keyboard_input"
    /\ injected' \in {injected, [injected EXCEPT ![n] = @ \cup {package[n].from}]}
    /\ \/ /\ pc' = [pc EXCEPT ![n] = [t \in Threads |-> "crashed"]]
          /\ UNCHANGED <<package, callback>>
       \/ Handled(n)
    /\ UNCHANGED <<ui_vars, peer_vars, call_vars, clicked, available, net>>

\* Mutant of IgnorePackage: only the first listed device is compared.
IgnorePackageOfLaterRow(n) ==
    /\ pc[n]["svc"] = "call"
    /\ \/ callback[n] = "none"
       \/ callback[n] = "home" /\ package[n].kind # "become_receiver"
       \/ callback[n] = "home" /\ \E d \in available[n] : d # package[n].from
       \/ callback[n] \in {"receiver", "dangling"} /\ package[n].kind # "keyboard_input"
    /\ Handled(n)
    /\ UNCHANGED <<ui_vars, peer_vars, call_vars, history, available, net>>

\* The callbacks' early returns: another kind of package, an unknown device,
\* or no subscriber at all.
IgnorePackage(n) ==
    /\ pc[n]["svc"] = "call"
    /\ \/ callback[n] = "none"
       \/ callback[n] = "home" /\ package[n].kind # "become_receiver"
       \/ callback[n] = "home" /\ package[n].from \notin available[n]
       \/ callback[n] \in {"receiver", "dangling"} /\ package[n].kind # "keyboard_input"
    /\ Handled(n)
    /\ UNCHANGED <<ui_vars, peer_vars, call_vars, history, available, net>>

PostReceiverScene(n) ==
    /\ pc[n]["svc"] = "post"
    /\ ui_queue' = [ui_queue EXCEPT ![n] = Append(@, "receiver")]
    /\ Handled(n)
    /\ UNCHANGED <<scene, subscriber, budget, peer_vars, call_vars, history,
                   available, net>>

------------------------------------------------------------------------------
\* The network loses a message: an unreliable packet, or a reliable one whose
\* connection was reset.
Lose ==
    /\ \E m \in net : net' = net \ {m}
    /\ UNCHANGED <<ui_vars, peer_vars, call_vars, svc_vars, history, available, pc>>

PinConnection(n, t) == PinPeer(n, t) \/ ConfigureClient(n, t) \/ CreateClient(n, t)

\* What the UI thread does on its own once a frame has begun.
UiStep(n) ==
    \/ SetConnectedDevice(n)
    \/ PinConnection(n, "ui")
    \/ RequestReceiver(n)
    \/ PostSenderScene(n)
    \/ EndRender(n)
    \/ KeepScene(n)
    \/ SwitchScene(n)
    \/ DestroyEmitter(n)
    \/ FinishUnmount(n)
    \/ EndTasks(n)

\* What the services thread does on its own once it has taken a message.
SvcStep(n) ==
    \/ EmitPackage(n)
    \/ AcceptRequest(n)
    \/ InjectInput(n)
    \/ UseFreedEmitter(n)
    \/ IgnorePackage(n)
    \/ PinConnection(n, "svc")
    \/ PostReceiverScene(n)

DeviceStep(n) ==
    \/ UiStep(n)
    \/ SvcStep(n)
    \/ ClickConnect(n)
    \/ SendInput(n)
    \/ DiscoveryUpdate(n)
    \/ Receive(n)

Next == (\E n \in Nodes : DeviceStep(n)) \/ Lose

Spec == Init /\ [][Next]_vars

\* Both threads of a device keep running; users and the network need not act.
FairSpec == Spec /\ \A n \in Nodes : WF_vars(UiStep(n)) /\ WF_vars(SvcStep(n))

------------------------------------------------------------------------------
Peer == Nodes \cup {None}

\* The type of every variable.
TypeOK ==
    /\ scene \in [Nodes -> Scenes]
    /\ connected_device \in [Nodes -> Peer]
    /\ pinned_peer \in [Nodes -> Peer]
    /\ udp_client \in [Nodes -> Peer]
    /\ available \in [Nodes -> SUBSET Nodes]
    /\ subscriber \in [Nodes -> Callbacks]
    /\ ui_queue \in [Nodes -> Seq({"sender", "receiver"})]
    /\ pc \in [Nodes -> [Threads -> PCs]]
    /\ arg \in [Nodes -> [Threads -> Peer]]
    /\ config \in [Nodes -> [Threads -> Peer]]
    /\ budget \in [Nodes -> 0 .. kMaxPerFrame]
    /\ package \in [Nodes -> Message \cup {NoMessage}]
    /\ callback \in [Nodes -> Callbacks]
    /\ net \in SUBSET Message
    /\ clicked \in [Nodes -> Peer]
    /\ injected \in [Nodes -> SUBSET Nodes]

\* A device shows the sender or the receiver scene only once it has a connected
\* device, a pinned peer and a client to send with, whichever thread posted the
\* scene and however the two calls of pin_connection interleaved.
NoSceneWithoutTarget ==
    \A n \in Nodes : scene[n] # "home" =>
        /\ connected_device[n] # None
        /\ pinned_peer[n] # None
        /\ udp_client[n] # None

\* On a device whose user never pressed Connect, the store, the pin and the
\* client name the same peer whenever the handler is not in the middle of
\* accepting a request.
TargetsAgree ==
    \A n \in Nodes :
        clicked[n] = None /\ pc[n]["svc"] \notin {"pin", "config", "client", "crashed"}
            => /\ connected_device[n] = pinned_peer[n]
               /\ udp_client[n] = pinned_peer[n]

\* A device whose user never pressed Connect injects only the input of the one
\* peer it is pinned to, the device the receiver scene names to its user.
HearsOnlyItsPeer ==
    \A n \in Nodes : clicked[n] = None => injected[n] \subseteq {pinned_peer[n]} \ {None}

\* Only a device whose user pressed Connect can reach the virtual call on a
\* destroyed emitter: without a click no receiver scene is ever unmounted.
NoUseAfterFree ==
    \A n \in Nodes : callback[n] = "dangling" \/ pc[n]["svc"] = "crashed" => clicked[n] # None

\* A device that was made a receiver was asked to by its peer's user: the peer
\* pressed Connect, and if it is the only one that did, it pressed the button
\* of this very device.
NoUninvitedReceiver ==
    \A n \in Nodes :
        LET d == connected_device[n]
        IN  clicked[n] = None /\ d # None =>
                /\ clicked[d] # None
                /\ (\A m \in Nodes \ {d} : clicked[m] = None) => clicked[d] = n

\* Until its own user presses Connect, a device keeps the first peer it pinned:
\* a second request cannot take it over.
PinIsFirstCome ==
    [][\A n \in Nodes : clicked'[n] = None /\ pinned_peer[n] # None
            => pinned_peer'[n] = pinned_peer[n]]_vars

\* What the statements of both threads amount to: the devices behave like those of
\* Pairing, with the pin as the peer.
P == INSTANCE Pairing WITH chosen <- clicked, peer <- pinned_peer

\* The two threads, the scenes and the messages implement Pairing: requests and
\* input in flight, or already copied by emit, never lead to a peer or to input
\* that the users' choices at that moment do not account for.
ImplementsPairing == P!Spec

\* A delivered request is never dropped by a device that still works with nobody,
\* provided discovery had listed the asking device: no request falls between the
\* scenes' subscriptions.  With ScenesFollow, its receiver scene then comes up.
RequestNotDropped ==
    [][\A n \in Nodes :
          /\ package[n].kind = "become_receiver" /\ package[n].from \in available[n]
          /\ package'[n] # package[n]
          => connected_device[n] # None]_vars

\* Whatever was clicked and accepted, on however many devices at once, the screens
\* catch up: again and again every living device has carried out all its scene
\* changes, and has left the home scene exactly if it has a connected device.
ScenesFollow ==
    []<>(\A n \in Nodes :
            \/ pc[n]["ui"] = "crashed"
            \/ /\ ui_queue[n] = <<>>
               /\ scene[n] # "home" <=> connected_device[n] # None)

\* sender.h: the flow "connects to the device from store::connection_state".
\* A device that has settled in the sender scene sends to the
\* device its store names and its screen shows.
SenderTargetsStore ==
    \A n \in Nodes :
        /\ scene[n] = "sender" /\ ui_queue[n] = <<>>
        /\ pc[n]["ui"] = "frame" /\ pc[n]["svc"] = "poll"
        => udp_client[n] = connected_device[n]
==============================================================================
