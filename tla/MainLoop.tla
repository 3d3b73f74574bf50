------------------------------- MODULE MainLoop -------------------------------
(***************************************************************************)
(* services::main_loop: the life of the program, of its window and of the  *)
(* services that HomeScene registers.                                      *)
(*                                                                         *)
(* The main thread mounts HomeScene, which registers the discovery and the *)
(* communication service, initialises them, starts the services thread and *)
(* runs frames until the user quits.  The services thread updates whatever *)
(* is registered, from a snapshot that keeps the services alive.  Leaving  *)
(* HomeScene, also when the window closes, removes discovery.  Finally     *)
(* main_loop::cleanup joins the thread and cleans up what is registered.   *)
(***************************************************************************)
EXTENDS Naturals, Sequences, SequencesExt

CONSTANT MaxTasks   \* bound: scene changes posted in all

\* So few tasks all run within one frame (kMaxPerFrame is 8).
ASSUME TasksAssumption == MaxTasks \in 0 .. 8

Discovery == "discovery"
Communication == "communication"
Services == {Discovery, Communication}

VARIABLES
    main,              \* where the main thread stands; it runs frames while running_
    scene,             \* the window's scene, "none" without one
    services_running_, \* the services thread goes on
    services,          \* services_repository::services_
    to_do,             \* the services main_loop::init or cleanup still visits
    life,              \* what has become of each service
    home_ref,          \* HomeScene still refers to the discovery service
    svc,               \* where the services thread stands
    snapshot,          \* the services it has still to update in this pass
    held,              \* the services its snapshot keeps alive
    tasks,             \* scene changes waiting for process_ui_tasks
    posted             \* how many were posted

main_vars == <<main, scene, to_do, home_ref>>
svc_vars  == <<svc, snapshot, held>>
task_vars == <<tasks, posted>>
vars == <<main_vars, services_running_, services, life, svc_vars, task_vars>>

Init ==
    /\ main = "init"
    /\ scene = "none"
    /\ services_running_ = FALSE
    /\ services = <<>>
    /\ to_do = <<>>
    /\ life = [s \in Services |-> "unborn"]
    /\ home_ref = FALSE
    /\ svc = "unborn"
    /\ snapshot = <<>>
    /\ held = {}
    /\ tasks = <<>>
    /\ posted = 0

------------------------------------------------------------------------------
\* main_loop::init: the window mounts HomeScene, whose didMount registers both
\* services, the discovery service first.
MountHome ==
    /\ main = "init"
    /\ scene' = "home"
    /\ services' = <<Discovery, Communication>>
    /\ life' = [s \in Services |-> "made"]
    /\ home_ref' = TRUE
    /\ to_do' = services'
    /\ main' = "init_services"
    /\ UNCHANGED <<services_running_, svc_vars, task_vars>>

InitService ==
    /\ main = "init_services" /\ to_do # <<>>
    /\ life' = [life EXCEPT ![Head(to_do)] = "live"]
    /\ to_do' = Tail(to_do)
    /\ UNCHANGED <<main, scene, home_ref, services_running_, services,
                   svc_vars, task_vars>>

\* main_loop::run starts the services thread and goes on to the frames.
Run ==
    /\ main = "init_services" /\ to_do = <<>>
    /\ services_running_' = TRUE
    /\ svc' = "check"
    /\ main' = "frame"
    /\ UNCHANGED <<scene, to_do, home_ref, services, life, snapshot, held, task_vars>>

\* The last reference to the discovery service goes unless a snapshot has one.
Forsake(holders) ==
    life' = [life EXCEPT ![Discovery] = IF Discovery \in holders THEN @ ELSE "destroyed"]

\* Mutant of UnmountHome: HomeScene keeps its reference.
UnmountHomeKeeps ==
    IF scene = "home"
    THEN /\ services' = RemoveFirst(services, Discovery)
         /\ UNCHANGED <<home_ref, life>>
    ELSE UNCHANGED <<services, home_ref, life>>

\* HomeScene::willUnmount takes the discovery service out of the repository and
\* drops its own reference.  No other scene touches the services.
UnmountHome ==
    IF scene = "home"
    THEN /\ services' = RemoveFirst(services, Discovery)
         /\ home_ref' = FALSE
         /\ Forsake(held)
    ELSE UNCHANGED <<services, home_ref, life>>

\* process_ui_tasks carries out a posted scene change, in any frame and in the
\* last one.
ChangeScene ==
    /\ main \in {"frame", "last_frame"} /\ tasks # <<>>
    /\ tasks' = Tail(tasks)
    /\ IF Head(tasks) = scene
       THEN UNCHANGED <<scene, services, home_ref, life>>
       ELSE scene' = Head(tasks) /\ UnmountHome
    /\ UNCHANGED <<main, to_do, services_running_, svc_vars, posted>>

\* Mutant of Click: no scene is given.
ClickNothing ==
    /\ main = "frame" /\ scene = "home"
    /\ posted < MaxTasks
    /\ tasks' = Append(tasks, "none")
    /\ posted' = posted + 1
    /\ UNCHANGED <<main_vars, services_running_, services, life, svc_vars>>

\* HomeScene's Connect button posts the sender scene.
Click ==
    /\ main = "frame" /\ scene = "home"
    /\ posted < MaxTasks
    /\ tasks' = Append(tasks, "sender")
    /\ posted' = posted + 1
    /\ UNCHANGED <<main_vars, services_running_, services, life, svc_vars>>

\* The user closes the window: the frame goes on to its tasks and returns false.
Quit ==
    /\ main = "frame"
    /\ main' = "last_frame"
    /\ UNCHANGED <<scene, to_do, home_ref, services_running_, services,
                   life, svc_vars, task_vars>>

\* main_loop::shutdown.
Shutdown ==
    /\ main = "last_frame" /\ tasks = <<>>
    /\ main' = "cleanup"
    /\ UNCHANGED <<scene, to_do, home_ref, services_running_, services, life,
                   svc_vars, task_vars>>

\* Mutant of StopThread: the flag is read, not exchanged.
StopThreadReads ==
    /\ main = "cleanup"
    /\ main' = "join"
    /\ UNCHANGED <<scene, to_do, home_ref, services_running_, services,
                   life, svc_vars, task_vars>>

\* main_loop::cleanup.
StopThread ==
    /\ main = "cleanup"
    /\ services_running_' = FALSE
    /\ main' = "join"
    /\ UNCHANGED <<scene, to_do, home_ref, services, life, svc_vars, task_vars>>

Join ==
    /\ main = "join" /\ svc = "done"
    /\ main' = "deinit"
    /\ UNCHANGED <<scene, to_do, home_ref, services_running_, services,
                   life, svc_vars, task_vars>>

\* Mutant of DeinitWindow: the services to visit are listed before the scene is unmounted.
DeinitWindowLate ==
    /\ main = "deinit"
    /\ UnmountHome
    /\ scene' = "none"
    /\ to_do' = services
    /\ main' = "cleanup_services"
    /\ UNCHANGED <<services_running_, svc_vars, task_vars>>

\* deinit_window unmounts the scene before the services are visited.
DeinitWindow ==
    /\ main = "deinit"
    /\ UnmountHome
    /\ scene' = "none"
    /\ to_do' = services'
    /\ main' = "cleanup_services"
    /\ UNCHANGED <<services_running_, svc_vars, task_vars>>

CleanupService ==
    /\ main = "cleanup_services" /\ to_do # <<>>
    /\ life' = [life EXCEPT ![Head(to_do)] = "cleaned"]
    /\ to_do' = Tail(to_do)
    /\ UNCHANGED <<main, scene, home_ref, services_running_, services,
                   svc_vars, task_vars>>

Exit ==
    /\ main = "cleanup_services" /\ to_do = <<>>
    /\ main' = "exit"
    /\ UNCHANGED <<scene, to_do, home_ref, services_running_, services,
                   life, svc_vars, task_vars>>

------------------------------------------------------------------------------
\* The services thread.

Check ==
    /\ svc = "check"
    /\ svc' = IF services_running_ THEN "snapshot" ELSE "done"
    /\ UNCHANGED <<main_vars, services_running_, services, life, snapshot, held, task_vars>>

\* Mutant of TakeSnapshot: the services are listed, not kept alive.
TakeWeakSnapshot ==
    /\ svc = "snapshot"
    /\ snapshot' = services
    /\ svc' = "update"
    /\ UNCHANGED <<main_vars, services_running_, services, life, held, task_vars>>

TakeSnapshot ==
    /\ svc = "snapshot"
    /\ snapshot' = services
    /\ held' = Range(services)
    /\ svc' = "update"
    /\ UNCHANGED <<main_vars, services_running_, services, life, task_vars>>

\* The head of the snapshot is updated.  The communication service may hand
\* HomeScene a request, which posts the receiver scene.
Update ==
    /\ svc = "update" /\ snapshot # <<>>
    /\ snapshot' = Tail(snapshot)
    /\ \/ UNCHANGED task_vars
       \/ /\ Head(snapshot) = Communication /\ scene = "home"
          /\ posted < MaxTasks
          /\ tasks' = Append(tasks, "receiver")
          /\ posted' = posted + 1
    /\ UNCHANGED <<main_vars, services_running_, services, life, svc, held>>

\* The snapshot goes out of scope.
DropSnapshot ==
    /\ svc = "update" /\ snapshot = <<>>
    /\ held' = {}
    /\ Forsake(IF home_ref THEN {Discovery} ELSE {})
    /\ svc' = "check"
    /\ UNCHANGED <<main_vars, services_running_, services, snapshot, task_vars>>

------------------------------------------------------------------------------
\* What the main thread does on its own, and what its user does.
MainStep ==
    \/ MountHome \/ InitService \/ Run \/ ChangeScene \/ Shutdown \/ StopThread
    \/ Join \/ DeinitWindow \/ CleanupService \/ Exit

SvcStep == Check \/ TakeSnapshot \/ Update \/ DropSnapshot

Next == MainStep \/ Click \/ Quit \/ SvcStep

Spec == Init /\ [][Next]_vars

\* Both threads run; nobody has to click or to quit.
FairSpec == Spec /\ WF_vars(MainStep) /\ WF_vars(SvcStep)

------------------------------------------------------------------------------
\* The type of every variable.
TypeOK ==
    /\ main \in {"init", "init_services", "frame", "last_frame", "cleanup", "join",
                 "deinit", "cleanup_services", "exit"}
    /\ scene \in {"none", "home", "sender", "receiver"}
    /\ services_running_ \in BOOLEAN /\ home_ref \in BOOLEAN
    /\ services \in Seq(Services) /\ to_do \in Seq(Services) /\ snapshot \in Seq(Services)
    /\ life \in [Services -> {"unborn", "made", "live", "cleaned", "destroyed"}]
    /\ svc \in {"unborn", "check", "snapshot", "update", "done"}
    /\ held \in SUBSET Services
    /\ tasks \in Seq({"sender", "receiver"})
    /\ posted \in 0 .. MaxTasks

\* The services thread only updates a service between its init and its cleanup,
\* and never one that a scene change has destroyed meanwhile: the communication
\* service's update would use the server that is not there.
UpdatesLiveServices ==
    svc = "update" /\ snapshot # <<>> => life[Head(snapshot)] = "live"

\* No service outlives the program: at the end each was cleaned up or destroyed.
NothingLeftLive ==
    main = "exit" => \A s \in Services : life[s] \in {"cleaned", "destroyed"}

\* Once the home scene is left, the discovery service and its sockets really go,
\* although the services thread may be in the middle of updating it.
RemovedIsDestroyed == scene \in {"sender", "receiver"} ~> life[Discovery] = "destroyed"

\* The program ends when its user quits, wherever the services thread is.
QuitEnds == main = "last_frame" ~> main = "exit"

\* The service the services thread updates next.
updating == IF svc = "update" /\ snapshot # <<>> THEN {Head(snapshot)} ELSE {}

\* What both threads amount to for the services.
L == INSTANCE Lifecycle WITH visited <- updating

\* MainLoop implements Lifecycle: whatever scene changes, snapshots and the end of the
\* program meet, every service goes through its life in order and once, and none ends
\* while it is updated or is updated before all have begun or after the first cleanup.
ImplementsLifecycle == L!Spec

\* discovery_service::cleanup: "Advertise that we're going away so others can
\* prune us immediately".  A program that ends has cleaned up its discovery.
AnnouncesDeparture == main = "exit" => life[Discovery] = "cleaned"
==============================================================================
