--------------------------- MODULE MainLoopProofs ---------------------------
(***************************************************************************)
(* What TLAPS proves of MainLoop for any number of scene changes: its      *)
(* types, that the services thread only updates living services, that no   *)
(* service outlives the program, that it implements Lifecycle, and what    *)
(* becomes of discovery at the end.                                        *)
(***************************************************************************)
EXTENDS MainLoop, TLAPS, SequenceTheorems

Both == <<Discovery, Communication>>
Alone == <<Communication>>

\* Before the services thread exists, main_loop::init makes the services live one
\* after the other.
Booting ==
    /\ main = "init" =>
          /\ scene = "none" /\ services = <<>> /\ to_do = <<>>
          /\ svc = "unborn" /\ tasks = <<>>
          /\ \A s \in Services : life[s] = "unborn"
    /\ main = "init_services" =>
          /\ scene = "home" /\ svc = "unborn" /\ tasks = <<>>
          /\ to_do \in {Both, Alone, <<>>}
          /\ life[Discovery] = IF to_do = Both THEN "made" ELSE "live"
          /\ life[Communication] = IF to_do = <<>> THEN "live" ELSE "made"

\* HomeScene refers to the discovery service exactly while it is mounted, and the
\* repository has it just as long.
Registration ==
    /\ home_ref <=> scene = "home"
    /\ main # "init" => services = IF home_ref THEN Both ELSE Alone

\* Afterwards discovery lives as long as somebody holds it, communication until
\* cleanup has come to it.
Lives ==
    /\ main \notin {"init", "init_services"} =>
          life[Discovery] = IF home_ref \/ Discovery \in held THEN "live" ELSE "destroyed"
    /\ main \in {"frame", "last_frame", "cleanup", "join", "deinit"} =>
          life[Communication] = "live"
    /\ main \in {"cleanup_services", "exit"} =>
          /\ ~ home_ref
          /\ to_do \in {Alone, <<>>}
          /\ life[Communication] = IF to_do = <<>> THEN "cleaned" ELSE "live"
    /\ main = "exit" => to_do = <<>>

\* The snapshot is kept alive while the services thread walks through it, and that
\* thread has ended before the main thread tears anything down.
Walking ==
    /\ snapshot \in {Both, Alone, <<>>}
    /\ snapshot = Both => Discovery \in held
    /\ svc # "update" => snapshot = <<>> /\ held = {}
    /\ main \in {"deinit", "cleanup_services", "exit"} => svc = "done"
    /\ main = "join" => ~ services_running_
    /\ main \notin {"init", "init_services"} => svc # "unborn"

\* The inductive invariant.
IInv == TypeOK /\ Booting /\ Registration /\ Lives /\ Walking

------------------------------------------------------------------------------
\* remove_service on what HomeScene has registered.
LEMMA RemoveDiscovery == RemoveFirst(Both, Discovery) = Alone
<1>1. SelectInSeq(Both, LAMBDA v : v = Discovery) = 1
  <2> DEFINE I == {i \in 1 .. Len(Both) : Both[i] = Discovery}
  <2>1. I = {1} BY DEF Both, Discovery, Communication
  <2>2. Min(I) = 1 BY <2>1 DEF Min
  <2> QED BY <2>1, <2>2 DEF SelectInSeq
<1>2. Both \in Seq(Services) /\ Both # <<>> /\ Len(Both) = 2 BY DEF Both, Services
<1>3. SubSeq(Both, 1, 0) = <<>> BY <1>2
<1>4. SubSeq(Both, 2, 2) = Alone
  <2>1. SubSeq(Both, 2, 2) = Tail(Both) BY <1>2, TailIsSubSeq
  <2> QED BY <2>1 DEF Both, Alone
<1>5. RemoveAt(Both, 1) = SubSeq(Both, 1, 0) \o SubSeq(Both, 2, 2)
  <2>1. 1 - 1 = 0 /\ 1 + 1 = 2 OBVIOUS
  <2> QED BY <1>2, <2>1, Zenon DEF RemoveAt
<1>6. <<>> \o Alone = Alone BY DEF Alone
<1>7. RemoveAt(Both, 1) = Alone BY <1>3, <1>4, <1>5, <1>6
<1>8. \E i \in 1 .. Len(Both) : Both[i] = Discovery BY DEF Both
<1> QED BY <1>1, <1>7, <1>8 DEF RemoveFirst

\* The sequences of services that occur.
LEMMA Sequences ==
    /\ Both \in Seq(Services) /\ Alone \in Seq(Services) /\ <<>> \in Seq(Services)
    /\ Both # Alone /\ Both # <<>> /\ Alone # <<>>
    /\ Head(Both) = Discovery /\ Tail(Both) = Alone
    /\ Head(Alone) = Communication /\ Tail(Alone) = <<>>
    /\ Discovery \in Range(Both) /\ Discovery \notin Range(Alone)
    /\ Range(Both) \subseteq Services /\ Range(Alone) \subseteq Services
    /\ Discovery # Communication /\ Services = {Discovery, Communication}
BY DEF Both, Alone, Services, Discovery, Communication, Range

------------------------------------------------------------------------------
LEMMA Initially == Init => IInv
<1> SUFFICES ASSUME Init PROVE IInv
  OBVIOUS
<1>1. TypeOK
  <2>1. <<>> \in Seq(Services) /\ <<>> \in Seq({"sender", "receiver"}) OBVIOUS
  <2>2. 0 \in 0 .. MaxTasks BY TasksAssumption
  <2>3. life \in [Services -> {"unborn", "made", "live", "cleaned", "destroyed"}] BY DEF Init
  <2> QED BY <2>1, <2>2, <2>3 DEF Init, TypeOK
<1>2. Booting /\ Registration /\ Lives /\ Walking
  BY Sequences DEF Init, Booting, Registration, Lives, Walking
<1> QED BY <1>1, <1>2 DEF IInv

\* UnmountHome leaves what the invariant says of a scene that is not home.
LEMMA Unmounted ==
  ASSUME IInv, UnmountHome, main \notin {"init", "init_services"}
  PROVE  /\ services' = Alone
         /\ home_ref' = FALSE
         /\ life' = [life EXCEPT ![Discovery] = IF Discovery \in held THEN "live" ELSE "destroyed"]
<1>1. CASE scene = "home"
  <2>1. services = Both BY <1>1 DEF IInv, Registration
  <2>2. life[Discovery] = "live" BY <1>1 DEF IInv, Registration, Lives
  <2> QED BY <1>1, <2>1, <2>2, RemoveDiscovery DEF UnmountHome, Forsake
<1>2. CASE scene # "home"
  <2>1. ~ home_ref /\ home_ref \in BOOLEAN BY <1>2 DEF IInv, Registration, TypeOK
  <2>2. services = Alone BY <2>1 DEF IInv, Registration
  <2>3. life[Discovery] = IF Discovery \in held THEN "live" ELSE "destroyed"
    BY <2>1 DEF IInv, Lives
  <2>4. life = [life EXCEPT ![Discovery] = life[Discovery]] BY DEF IInv, TypeOK
  <2>5. UNCHANGED <<services, home_ref, life>> BY <1>2 DEF UnmountHome
  <2> QED BY <2>1, <2>2, <2>3, <2>4, <2>5
<1> QED BY <1>1, <1>2

LEMMA Inductive == IInv /\ [Next]_vars => IInv'
<1> SUFFICES ASSUME IInv, [Next]_vars PROVE IInv'
  OBVIOUS
<1> USE Sequences, TasksAssumption
<1>1. CASE MountHome
  BY <1>1 DEF MountHome, IInv, TypeOK, Booting, Registration, Lives, Walking, svc_vars, task_vars, Both
<1>2. CASE InitService
  BY <1>2 DEF InitService, IInv, TypeOK, Booting, Registration, Lives, Walking, svc_vars, task_vars
<1>3. CASE Run
  BY <1>3 DEF Run, IInv, TypeOK, Booting, Registration, Lives, Walking, svc_vars, task_vars
<1>4. CASE ChangeScene
  <2>1. main \notin {"init", "init_services"} /\ tasks # <<>>
        /\ Head(tasks) \in {"sender", "receiver"} /\ tasks' \in Seq({"sender", "receiver"})
    BY <1>4 DEF ChangeScene, IInv, TypeOK
  <2>2. CASE Head(tasks) = scene
    BY <1>4, <2>1, <2>2
       DEF ChangeScene, IInv, TypeOK, Booting, Registration, Lives, Walking, svc_vars, task_vars
  <2>3. CASE Head(tasks) # scene
    <3>1. /\ services' = Alone /\ home_ref' = FALSE
          /\ life' = [life EXCEPT ![Discovery] = IF Discovery \in held THEN "live" ELSE "destroyed"]
      BY <1>4, <2>1, <2>3, Unmounted DEF ChangeScene
    <3> QED
      BY <1>4, <2>1, <2>3, <3>1
         DEF ChangeScene, IInv, TypeOK, Booting, Registration, Lives, Walking, svc_vars, task_vars
  <2> QED BY <2>2, <2>3
<1>5. CASE Shutdown
  BY <1>5 DEF Shutdown, IInv, TypeOK, Booting, Registration, Lives, Walking, svc_vars, task_vars
<1>6. CASE StopThread
  BY <1>6 DEF StopThread, IInv, TypeOK, Booting, Registration, Lives, Walking, svc_vars, task_vars
<1>7. CASE Join
  BY <1>7 DEF Join, IInv, TypeOK, Booting, Registration, Lives, Walking, svc_vars, task_vars
<1>8. CASE DeinitWindow
  <2>1. /\ services' = Alone /\ home_ref' = FALSE
        /\ life' = [life EXCEPT ![Discovery] = IF Discovery \in held THEN "live" ELSE "destroyed"]
    BY <1>8, Unmounted DEF DeinitWindow
  <2> QED
    BY <1>8, <2>1
       DEF DeinitWindow, IInv, TypeOK, Booting, Registration, Lives, Walking, svc_vars, task_vars
<1>9. CASE CleanupService
  BY <1>9 DEF CleanupService, IInv, TypeOK, Booting, Registration, Lives, Walking, svc_vars, task_vars
<1>10. CASE Exit
  BY <1>10 DEF Exit, IInv, TypeOK, Booting, Registration, Lives, Walking, svc_vars, task_vars
<1>11. CASE Click
  BY <1>11 DEF Click, IInv, TypeOK, Booting, Registration, Lives, Walking, main_vars, svc_vars
<1>12. CASE Quit
  BY <1>12 DEF Quit, IInv, TypeOK, Booting, Registration, Lives, Walking, svc_vars, task_vars
<1>13. CASE Check
  BY <1>13 DEF Check, IInv, TypeOK, Booting, Registration, Lives, Walking, main_vars, task_vars
<1>14. CASE TakeSnapshot
  <2>1. services \in {Both, Alone} /\ main \notin {"init", "init_services"}
    BY <1>14 DEF TakeSnapshot, IInv, Booting, Registration
  <2>2. Range(services) \subseteq Services /\ (Discovery \in Range(services) <=> home_ref)
    BY <2>1 DEF IInv, TypeOK, Registration
  <2>3. TypeOK' BY <1>14, <2>1, <2>2 DEF TakeSnapshot, IInv, TypeOK, main_vars, task_vars
  <2>4. life[Discovery] = IF home_ref THEN "live" ELSE "destroyed"
    BY <1>14, <2>1 DEF TakeSnapshot, IInv, Lives, Walking
  <2>5. Booting' /\ Registration' /\ Lives'
    BY <1>14, <2>1, <2>2, <2>4 DEF TakeSnapshot, IInv, Booting, Registration, Lives, main_vars, task_vars
  <2>6. Walking'
    BY <1>14, <2>1, <2>2 DEF TakeSnapshot, IInv, Registration, Walking, main_vars
  <2> QED BY <2>3, <2>5, <2>6 DEF IInv
<1>15. CASE Update
  <2>1. snapshot \in {Both, Alone} /\ snapshot' = Tail(snapshot) /\ snapshot' \in {Alone, <<>>}
    BY <1>15 DEF Update, IInv, Walking
  <2>2. main \notin {"init", "init_services"} BY <1>15 DEF Update, IInv, Booting
  <2>3. tasks' \in Seq({"sender", "receiver"}) /\ posted' \in 0 .. MaxTasks
    <3>1. tasks \in Seq({"sender", "receiver"}) /\ posted \in 0 .. MaxTasks
      BY DEF IInv, TypeOK
    <3>2. \/ tasks' = tasks /\ posted' = posted
          \/ tasks' = Append(tasks, "receiver") /\ posted < MaxTasks /\ posted' = posted + 1
      BY <1>15 DEF Update, task_vars
    <3>3. Append(tasks, "receiver") \in Seq({"sender", "receiver"})
      BY <3>1
    <3>4. CASE tasks' = tasks /\ posted' = posted BY <3>1, <3>4
    <3>5. CASE tasks' = Append(tasks, "receiver") /\ posted < MaxTasks /\ posted' = posted + 1
      <4>1. posted' \in 0 .. MaxTasks BY <3>1, <3>5, SMT
      <4>2. tasks' \in Seq({"sender", "receiver"}) BY <3>3, <3>5, Zenon
      <4> QED BY <4>1, <4>2
    <3> QED BY <3>2, <3>4, <3>5, Zenon
  <2>4. TypeOK' BY <1>15, <2>1, <2>3 DEF Update, IInv, TypeOK, main_vars
  <2>5. Booting' /\ Registration' /\ Lives'
    BY <1>15, <2>2 DEF Update, IInv, Booting, Registration, Lives, main_vars
  <2>6. Walking' BY <1>15, <2>1 DEF Update, IInv, Walking, main_vars
  <2> QED BY <2>4, <2>5, <2>6 DEF IInv
<1>16. CASE DropSnapshot
  BY <1>16 DEF DropSnapshot, Forsake, IInv, TypeOK, Booting, Registration, Lives, Walking,
               main_vars, task_vars
<1>17. CASE UNCHANGED vars
  BY <1>17 DEF vars, IInv, TypeOK, Booting, Registration, Lives, Walking, main_vars, svc_vars, task_vars
<1> QED
  BY <1>1, <1>2, <1>3, <1>4, <1>5, <1>6, <1>7, <1>8, <1>9, <1>10, <1>11, <1>12, <1>13,
     <1>14, <1>15, <1>16, <1>17 DEF Next, MainStep, SvcStep

LEMMA Invariance == Spec => []IInv
<1> QED BY Initially, Inductive, PTL DEF Spec

------------------------------------------------------------------------------
\* The type of every variable, for any bound on the scene changes.
THEOREM TypeCorrect == Spec => []TypeOK
<1>1. IInv => TypeOK BY DEF IInv
<1> QED BY <1>1, Invariance, PTL

\* The services thread never updates a service that a scene change has destroyed,
\* nor one that was not initialised or was already cleaned up.
THEOREM UpdatesAreSafe == Spec => []UpdatesLiveServices
<1>1. IInv => UpdatesLiveServices
  <2> SUFFICES ASSUME IInv, svc = "update", snapshot # <<>>
               PROVE  life[Head(snapshot)] = "live"
    BY DEF UpdatesLiveServices
  <2>1. main \in {"frame", "last_frame", "cleanup", "join"}
    BY DEF IInv, TypeOK, Booting, Walking
  <2>2. CASE snapshot = Both BY <2>1, <2>2, Sequences DEF IInv, Lives, Walking
  <2>3. CASE snapshot = Alone BY <2>1, <2>3, Sequences DEF IInv, Lives
  <2> QED BY <2>2, <2>3 DEF IInv, Walking
<1> QED BY <1>1, Invariance, PTL

\* When the program ends, discovery was destroyed and communication cleaned up,
\* whatever scene changes and snapshots came before.
THEOREM EndsClean == Spec => []NothingLeftLive
<1>1. IInv => NothingLeftLive
  <2> SUFFICES ASSUME IInv, main = "exit"
               PROVE  life[Discovery] = "destroyed" /\ life[Communication] = "cleaned"
    BY Sequences DEF NothingLeftLive
  <2>1. svc = "done" /\ held = {} BY DEF IInv, Walking
  <2> QED BY <2>1 DEF IInv, Lives
<1> QED BY <1>1, Invariance, PTL

------------------------------------------------------------------------------
\* A service ends as Lifecycle allows: all have begun, and this one is not updated.
LEMMA Begun ==
    ASSUME IInv, main \notin {"init", "init_services"}
    PROVE  /\ life[Discovery] \in {"live", "destroyed"}
           /\ life[Communication] \in {"live", "cleaned"}
           /\ L!AllBegun
<1>1. life[Discovery] \in {"live", "destroyed"}
  BY DEF IInv, Lives
<1>2. life[Communication] \in {"live", "cleaned"}
  <2>1. CASE main \in {"frame", "last_frame", "cleanup", "join", "deinit"}
    BY <2>1 DEF IInv, Lives
  <2>2. CASE main \in {"cleanup_services", "exit"}
    BY <2>2 DEF IInv, Lives
  <2> QED BY <2>1, <2>2 DEF IInv, TypeOK
<1> QED BY <1>1, <1>2, Sequences DEF L!AllBegun

\* Only the services thread changes what is updated next.
LEMMA SameUpdating ==
    ASSUME UNCHANGED <<svc, snapshot>>
    PROVE  updating' = updating
BY DEF updating

\* Discovery is destroyed while nobody holds it: the thread does not update it.
LEMMA NotUpdated ==
    ASSUME IInv, Discovery \notin held
    PROVE  Discovery \notin updating
BY Sequences DEF IInv, Walking, updating

\* What a scene change may do to discovery.
LEMMA UnmountDestroys ==
    ASSUME IInv, UnmountHome, main \notin {"init", "init_services"},
           UNCHANGED <<svc, snapshot>>
    PROVE  L!Destroy(Discovery) \/ UNCHANGED L!vars
<1>1. life' = [life EXCEPT ![Discovery] = IF Discovery \in held THEN "live" ELSE "destroyed"]
  BY Unmounted
<1>2. life = [life EXCEPT ![Discovery] = life[Discovery]]
  BY DEF IInv, TypeOK
<1>3. CASE life[Discovery] = "live" /\ Discovery \notin held
  BY <1>1, <1>3, Begun, NotUpdated, SameUpdating DEF L!Destroy
<1>4. CASE life[Discovery] = "destroyed" \/ Discovery \in held
  <2>1. Discovery \in held => life[Discovery] = "live"
    BY DEF IInv, Lives
  <2>2. life' = life
    BY <1>1, <1>2, <1>4, <2>1
  <2> QED BY <2>2, SameUpdating DEF L!vars
<1> QED BY <1>3, <1>4, Begun

\* While the services thread works, main_loop::cleanup has not come to the services.
LEMMA Running ==
    ASSUME IInv, svc \in {"check", "snapshot", "update"}
    PROVE  /\ main \notin {"init", "init_services"}
           /\ life[Communication] = "live"
           /\ \A s \in Services : life[s] # "cleaned"
<1>1. main \notin {"init", "init_services"}
  BY DEF IInv, Booting
<1>2. main \in {"frame", "last_frame", "cleanup", "join"}
  BY <1>1 DEF IInv, TypeOK, Walking
<1>3. life[Communication] = "live"
  BY <1>2 DEF IInv, Lives
<1> QED BY <1>1, <1>3, Begun, Sequences

\* Every step is one of Lifecycle or a stutter.
LEMMA LifecycleStep ==
    ASSUME IInv, [Next]_vars
    PROVE  L!Next \/ UNCHANGED L!vars
<1> USE Sequences
<1>1. CASE MountHome
  <2>1. \A s \in Services : life[s] = "unborn"
    BY <1>1 DEF MountHome, IInv, Booting
  <2> QED BY <1>1, <2>1, SameUpdating DEF MountHome, svc_vars, L!Next, L!Make
<1>2. CASE InitService
  <2>1. to_do \in {Both, Alone}
    BY <1>2 DEF InitService, IInv, Booting
  <2>2. life[Head(to_do)] = "made"
    BY <1>2, <2>1 DEF InitService, IInv, Booting
  <2> QED BY <1>2, <2>1, <2>2, SameUpdating DEF InitService, svc_vars, L!Next, L!Begin
<1>3. CASE Run
  <2>1. updating = {} /\ updating' = {}
    BY <1>3 DEF Run, updating, IInv, Booting
  <2> QED BY <1>3, <2>1 DEF Run, L!vars
<1>4. CASE ChangeScene
  <2>1. main \notin {"init", "init_services"} /\ UNCHANGED <<svc, snapshot>>
    BY <1>4 DEF ChangeScene, svc_vars
  <2>2. CASE Head(tasks) = scene
    BY <1>4, <2>1, <2>2, SameUpdating DEF ChangeScene, L!vars
  <2>3. CASE Head(tasks) # scene
    BY <1>4, <2>1, <2>3, UnmountDestroys DEF ChangeScene, L!Next
  <2> QED BY <2>2, <2>3
<1>5. CASE Shutdown \/ StopThread \/ Join \/ Exit \/ Quit
  BY <1>5, SameUpdating DEF Shutdown, StopThread, Join, Exit, Quit, svc_vars, L!vars
<1>6. CASE DeinitWindow
  <2>1. UnmountHome /\ main = "deinit" /\ UNCHANGED <<svc, snapshot>>
    BY <1>6 DEF DeinitWindow, svc_vars
  <2> QED BY <2>1, UnmountDestroys DEF L!Next
<1>7. CASE CleanupService
  <2>1. to_do = Alone /\ life[Communication] = "live" /\ svc = "done"
    BY <1>7 DEF CleanupService, IInv, Lives, Walking
  <2>2. updating = {}
    BY <2>1 DEF updating
  <2> QED BY <1>7, <2>1, <2>2, Begun, SameUpdating DEF CleanupService, svc_vars, L!Next, L!Clean
<1>8. CASE Click
  BY <1>8, SameUpdating DEF Click, svc_vars, L!vars
<1>9. CASE Check
  <2>1. updating = {} /\ updating' = {}
    BY <1>9 DEF Check, updating
  <2> QED BY <1>9, <2>1 DEF Check, L!vars
<1>10. CASE TakeSnapshot
  <2>1. services \in {Both, Alone} /\ (services = Both => home_ref)
    BY <1>10, Running DEF TakeSnapshot, IInv, Registration
  <2>2. updating' = {Head(services)} /\ life[Head(services)] = "live" /\ UNCHANGED life
    BY <1>10, <2>1, Running DEF TakeSnapshot, updating, IInv, Lives
  <2>3. Head(services) \in Services
    BY <2>1
  <2> QED BY <1>10, <2>2, <2>3, Running, Begun DEF TakeSnapshot, L!Next, L!Visit
<1>11. CASE Update
  <2>1. snapshot \in {Both, Alone} /\ snapshot' = Tail(snapshot) /\ svc' = "update" /\ UNCHANGED life
    BY <1>11 DEF Update, IInv, Walking
  <2>2. CASE snapshot = Both
    <3>1. updating' = {Communication}
      BY <2>1, <2>2 DEF updating
    <3> QED BY <1>11, <2>1, <3>1, Running, Begun DEF Update, L!Next, L!Visit
  <2>3. CASE snapshot = Alone
    <3>1. updating' = {}
      BY <2>1, <2>3 DEF updating
    <3> QED BY <2>1, <3>1 DEF L!Next, L!Rest
  <2> QED BY <2>1, <2>2, <2>3
<1>12. CASE DropSnapshot
  <2>1. updating = {} /\ updating' = {}
    BY <1>12 DEF DropSnapshot, updating
  <2>2. CASE home_ref \/ life[Discovery] = "destroyed"
    <3>1. life[Discovery] = "live" \/ ~ home_ref
      BY <1>12, Running DEF DropSnapshot, IInv, Lives
    <3>2. life' = life
      BY <1>12, <2>2, <3>1 DEF DropSnapshot, Forsake, IInv, TypeOK
    <3> QED BY <2>1, <3>2 DEF L!vars
  <2>3. CASE ~ (home_ref \/ life[Discovery] = "destroyed")
    <3>1. life[Discovery] = "live" /\ life' = [life EXCEPT ![Discovery] = "destroyed"]
      BY <1>12, <2>3, Running, Begun DEF DropSnapshot, Forsake
    <3> QED BY <1>12, <2>1, <3>1, Running, Begun DEF DropSnapshot, L!Next, L!Destroy
  <2> QED BY <2>2, <2>3
<1>13. CASE UNCHANGED vars
  BY <1>13, SameUpdating DEF vars, svc_vars, L!vars
<1> QED
  BY <1>1, <1>2, <1>3, <1>4, <1>5, <1>6, <1>7, <1>8, <1>9, <1>10, <1>11, <1>12, <1>13
     DEF Next, MainStep, SvcStep

\* MainLoop implements Lifecycle, for any number of scene changes: no service is ended
\* twice, updated out of turn, or destroyed while it is updated.
THEOREM Refinement == Spec => ImplementsLifecycle
<1>1. Init => L!Init
  BY DEF Init, L!Init, updating
<1>2. IInv /\ [Next]_vars => [L!Next]_(L!vars)
  BY LifecycleStep
<1> QED BY <1>1, <1>2, Invariance, PTL DEF Spec, ImplementsLifecycle, L!Spec

------------------------------------------------------------------------------
\* discovery_service::cleanup is out of reach: whatever the user does, discovery ends
\* by its destruction, and its goodbye is never sent.
NoGoodbye == life[Discovery] # "cleaned" /\ (main = "exit" => life[Discovery] = "destroyed")

\* No run of the program that starts its services cleans up discovery, which is the
\* general form of what the counterexample to AnnouncesDeparture shows once.
THEOREM DiscoveryIsNeverCleaned == Spec => []NoGoodbye
<1>1. IInv => NoGoodbye
  <2> SUFFICES ASSUME IInv PROVE NoGoodbye
    OBVIOUS
  <2>1. CASE main = "init"
    BY <2>1, Sequences DEF IInv, Booting, NoGoodbye
  <2>2. CASE main = "init_services"
    BY <2>2 DEF IInv, Booting, NoGoodbye
  <2>3. CASE main \notin {"init", "init_services"}
    <3>1. life[Discovery] = IF home_ref \/ Discovery \in held THEN "live" ELSE "destroyed"
      BY <2>3 DEF IInv, Lives
    <3>2. main = "exit" => ~ home_ref /\ held = {}
      BY <2>3 DEF IInv, Lives, Walking
    <3> QED BY <3>1, <3>2 DEF NoGoodbye
  <2> QED BY <2>1, <2>2, <2>3
<1> QED BY <1>1, Invariance, PTL

------------------------------------------------------------------------------
(***************************************************************************)
(* Why the program ends.  That its threads run is a matter of fairness,    *)
(* which TLC checks (QuitEnds); that they come to an end is proved.        *)
(***************************************************************************)
\* How many steps the services thread has left once its flag is cleared.
SvcLeft ==
    CASE svc = "snapshot" -> 5 [] svc = "update" -> 2 + Len(snapshot) [] svc = "check" -> 1
      [] OTHER -> 0

\* A bound on the steps from the last frame to the exit: the scene changes posted so
\* far and those that may yet be, the joined thread, the services to clean up.
StepsLeft ==
    CASE main = "last_frame" -> 20 + 2 * (MaxTasks - posted) + Len(tasks)
      [] main = "cleanup" -> 19
      [] main = "join" -> 10 + SvcLeft
      [] main = "deinit" -> 9
      [] main = "cleanup_services" -> 1 + Len(to_do)
      [] OTHER -> 0

Leaving == main \in {"last_frame", "cleanup", "join", "deinit", "cleanup_services"}

\* After the user has quit, every step brings the exit nearer; only before the join may
\* the services thread go round its loop without doing so.
QuitAdvances ==
    [][Leaving => \/ StepsLeft' < StepsLeft
                  \/ SvcStep /\ main # "join" /\ StepsLeft' = StepsLeft]_vars

\* What the main thread joins is there, and told to stop.
JoinsStopped ==
    main = "join" => ~ services_running_ /\ svc \in {"check", "snapshot", "update", "done"}

\* The lengths that count.
LEMMA Lengths ==
    /\ Len(Both) = 2 /\ Len(Alone) = 1 /\ Len(<<>>) = 0
BY DEF Both, Alone

\* The safety core of QuitEnds: however many scene changes are posted, and wherever the
\* services thread is when the user quits, no step leads away from the exit.
THEOREM QuitGetsNearer == Spec => QuitAdvances
<1> DEFINE Nearer == Leaving => \/ StepsLeft' < StepsLeft
                                \/ SvcStep /\ main # "join" /\ StepsLeft' = StepsLeft
<1>1. ASSUME IInv, Next, Leaving
      PROVE  StepsLeft' < StepsLeft \/ (SvcStep /\ main # "join" /\ StepsLeft' = StepsLeft)
  <2> USE Lengths, Sequences, TasksAssumption DEF StepsLeft, SvcLeft
  <2>1. /\ snapshot \in {Both, Alone, <<>>} /\ posted \in 0 .. MaxTasks
        /\ Len(tasks) \in Nat /\ MaxTasks \in Nat
        /\ main = "cleanup_services" => to_do \in {Alone, <<>>}
    BY <1>1 DEF IInv, TypeOK, Walking, Lives
  <2>2. SvcLeft \in 0 .. 5
    BY <2>1
  <2>3. CASE ChangeScene
    <3>1. main = "last_frame" /\ UNCHANGED <<main, posted>> /\ tasks # <<>> /\ tasks' = Tail(tasks)
      BY <1>1, <2>3 DEF ChangeScene, Leaving
    <3>2. Len(tasks') = Len(tasks) - 1
      BY <3>1 DEF IInv, TypeOK
    <3> QED  BY <2>1, <3>1, <3>2
  <2>4. CASE Shutdown
    BY <2>1, <2>4 DEF Shutdown
  <2>5. CASE StopThread
    <3>1. main = "cleanup" /\ main' = "join" /\ SvcLeft' = SvcLeft
      BY <2>5 DEF StopThread, svc_vars
    <3> HIDE DEF SvcLeft
    <3> QED  BY <2>2, <3>1
  <2>6. CASE Join
    BY <2>6 DEF Join
  <2>7. CASE DeinitWindow
    <3>1. services' = Alone /\ main = "deinit" /\ main' = "cleanup_services" /\ to_do' = services'
      BY <1>1, <2>7, Unmounted DEF DeinitWindow
    <3> QED  BY <3>1
  <2>8. CASE CleanupService
    BY <2>1, <2>8 DEF CleanupService
  <2>9. CASE Exit
    BY <2>9 DEF Exit
  <2>10. CASE SvcStep
    <3>1. main \in {"last_frame", "cleanup", "join"} /\ UNCHANGED main
      BY <1>1, <2>10
         DEF SvcStep, Check, TakeSnapshot, Update, DropSnapshot, main_vars, IInv, Walking, Leaving
    <3>2. CASE main = "join"
      <4>1. ~ services_running_
        BY <1>1, <3>2 DEF IInv, Walking
      <4>2. CASE Check
        BY <3>1, <3>2, <4>1, <4>2 DEF Check
      <4>3. CASE TakeSnapshot
        <5>1. services \in {Both, Alone} /\ snapshot' = services /\ svc = "snapshot" /\ svc' = "update"
          BY <1>1, <3>2, <4>3 DEF TakeSnapshot, IInv, Registration
        <5> QED  BY <3>1, <3>2, <5>1
      <4>4. CASE Update
        <5>1. svc = "update" /\ svc' = "update" /\ snapshot' = Tail(snapshot) /\ snapshot # <<>>
          BY <4>4 DEF Update
        <5>2. Len(snapshot') < Len(snapshot) /\ Len(snapshot) \in Nat /\ Len(snapshot') \in Nat
          BY <2>1, <5>1
        <5> QED  BY <3>1, <3>2, <5>1, <5>2
      <4>5. CASE DropSnapshot
        BY <3>1, <3>2, <4>5 DEF DropSnapshot
      <4> QED  BY <2>10, <4>2, <4>3, <4>4, <4>5 DEF SvcStep
    <3>3. CASE main = "cleanup"
      BY <2>10, <3>1, <3>3
    <3>4. CASE main = "last_frame"
      <4>1. \/ UNCHANGED task_vars
            \/ tasks' = Append(tasks, "receiver") /\ posted < MaxTasks /\ posted' = posted + 1
        BY <2>10 DEF SvcStep, Check, TakeSnapshot, Update, DropSnapshot
      <4>2. CASE UNCHANGED task_vars
        BY <2>10, <3>1, <3>4, <4>2 DEF task_vars
      <4>3. CASE tasks' = Append(tasks, "receiver") /\ posted < MaxTasks /\ posted' = posted + 1
        <5>1. Len(tasks') = Len(tasks) + 1
          BY <1>1, <4>3 DEF IInv, TypeOK
        <5> QED  BY <2>1, <3>1, <3>4, <4>3, <5>1
      <4> QED  BY <4>1, <4>2, <4>3
    <3> QED  BY <3>1, <3>2, <3>3, <3>4
  <2>11. ~ MountHome /\ ~ InitService /\ ~ Run /\ ~ Click /\ ~ Quit
    BY <1>1 DEF Leaving, MountHome, InitService, Run, Click, Quit
  <2> QED
    BY <1>1, <2>3, <2>4, <2>5, <2>6, <2>7, <2>8, <2>9, <2>10, <2>11 DEF Next, MainStep
<1>2. IInv /\ [Next]_vars => [Nearer]_vars
  BY <1>1
<1> QED BY <1>2, Invariance, PTL DEF Spec, QuitAdvances

\* The join of the services thread waits for a thread that exists and will leave its loop
\* at its next test.
THEOREM JoinSucceeds == Spec => []JoinsStopped
<1>1. IInv => JoinsStopped
  BY DEF IInv, TypeOK, Walking, JoinsStopped
<1> QED BY <1>1, Invariance, PTL
=============================================================================
