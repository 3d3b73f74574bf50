----------------------------- MODULE SenderFlow -----------------------------
(***************************************************************************)
(* flows::SenderFlow: how captured mouse motion and scrolling reach the    *)
(* communication service and, over the unreliable channel, the receiver's  *)
(* emitter.                                                                *)
(*                                                                         *)
(* The UI thread adds deltas to one aggregator per worker; each worker     *)
(* thread wakes every 8 ms, takes what has accumulated and sends it.  The  *)
(* UI thread starts the workers when SenderScene mounts and joins them     *)
(* when it unmounts; only then does it drop its reference to the service,  *)
(* which the workers read without a lock.  Keys and buttons are sent       *)
(* straight from the UI thread and leave the flow's state alone.           *)
(***************************************************************************)
EXTENDS Integers

CONSTANTS
    Deltas,      \* the (dx, dy) of the events a user produces
    MaxPushes    \* bound: how many motion events are captured in all

ASSUME DeltasAssumption == Deltas \subseteq Int \X Int
ASSUME PushesAssumption == MaxPushes \in Nat

Workers == {"move", "scroll"}
Zero == <<0, 0>>

\* Mutant of Plus: only dx is accumulated.
PlusDxOnly(u, v) == <<u[1] + v[1]>>

Plus(u, v) == <<u[1] + v[1], u[2] + v[2]>>

VARIABLES
    ui,        \* where the UI thread stands in the flow's life
    running,   \* running_
    keep,      \* each MoveAggregator's running flag
    agg,       \* each MoveAggregator's agg_dx, agg_dy
    worker,    \* where each worker thread stands
    taken,     \* the deltas a worker took and has not sent yet
    service,   \* communication_service_ is not null
    platform,  \* what the receiver runs on
    emitted,   \* the sum of what was handed to the receiver's system
    pushes,    \* motion events captured so far
    pushed,    \* history: the sum of the deltas captured, per worker
    sent,      \* history: the sum of the deltas handed to the service
    lost,      \* history: the sum of those that did not reach the receiver
    vertical   \* history: a scroll event with a vertical part was captured

receiver == <<platform, emitted>>
history == <<pushed, sent, lost, vertical>>
vars == <<ui, running, keep, agg, worker, taken, service, receiver, pushes, history>>

Init ==
    /\ ui = "new"
    /\ running = FALSE
    /\ keep = [w \in Workers |-> TRUE]
    /\ agg = [w \in Workers |-> Zero]
    /\ worker = [w \in Workers |-> "none"]
    /\ taken = [w \in Workers |-> Zero]
    /\ service = FALSE
    /\ pushes = 0
    /\ pushed = [w \in Workers |-> Zero]
    /\ sent = [w \in Workers |-> Zero]
    /\ platform \in {"windows", "macos"}
    /\ emitted = [w \in Workers |-> Zero]
    /\ lost = [w \in Workers |-> Zero]
    /\ vertical = FALSE

------------------------------------------------------------------------------
\* The UI thread.

\* HomeScene has registered the service for good, so start finds it; it returns
\* true whether or not the client can connect.
Start ==
    /\ ui = "new"
    /\ service' = TRUE
    /\ keep' = [w \in Workers |-> TRUE]
    /\ running' = TRUE
    /\ worker' = [w \in Workers |-> "check"]
    /\ ui' = "started"
    /\ UNCHANGED <<agg, taken, receiver, pushes, history>>

\* push_event of a motion (or scroll) event: MoveAggregator::add.
Push(w) ==
    /\ ui = "started" /\ running
    /\ pushes < MaxPushes
    /\ pushes' = pushes + 1
    /\ \E d \in Deltas :
          /\ agg' = [agg EXCEPT ![w] = Plus(@, d)]
          /\ pushed' = [pushed EXCEPT ![w] = Plus(@, d)]
          /\ vertical' = (vertical \/ (w = "scroll" /\ d[2] # 0))
    /\ UNCHANGED <<ui, running, keep, worker, taken, service, receiver, sent, lost>>

\* Mutant of Stop: the workers' own flags are not cleared.
StopKeepsWorkers ==
    /\ ui = "started" /\ running
    /\ running' = FALSE
    /\ ui' = "join_move"
    /\ UNCHANGED <<keep, agg, worker, taken, service, receiver, pushes, history>>

\* stop, up to the joins.
Stop ==
    /\ ui = "started" /\ running
    /\ running' = FALSE
    /\ keep' = [w \in Workers |-> FALSE]
    /\ ui' = "join_move"
    /\ UNCHANGED <<agg, worker, taken, service, receiver, pushes, history>>

\* Mutant of JoinMove: the move thread is detached, not joined.
DetachMove ==
    /\ ui = "join_move"
    /\ ui' = "join_scroll"
    /\ UNCHANGED <<running, keep, agg, worker, taken, service, receiver, pushes, history>>

JoinMove ==
    /\ ui = "join_move" /\ worker["move"] = "done"
    /\ ui' = "join_scroll"
    /\ UNCHANGED <<running, keep, agg, worker, taken, service, receiver, pushes, history>>

\* Mutant of JoinScroll: the scroll thread is detached and keeps the service.
DetachScroll ==
    /\ ui = "join_scroll"
    /\ ui' = "stopped"
    /\ UNCHANGED <<running, keep, agg, worker, taken, service, receiver, pushes, history>>

JoinScroll ==
    /\ ui = "join_scroll" /\ worker["scroll"] = "done"
    /\ ui' = "stopped"
    /\ service' = FALSE
    /\ UNCHANGED <<running, keep, agg, worker, taken, receiver, pushes, history>>

------------------------------------------------------------------------------
\* The worker threads, move_loop and scroll_loop.

Check(w) ==
    /\ worker[w] = "check"
    /\ worker' = [worker EXCEPT ![w] = IF keep[w] THEN "take" ELSE "done"]
    /\ UNCHANGED <<ui, running, keep, agg, taken, service, receiver, pushes, history>>

\* Mutant of Take: the aggregator is not reset.
TakeKeeps(w) ==
    /\ worker[w] = "take"
    /\ taken' = [taken EXCEPT ![w] = agg[w]]
    /\ worker' = [worker EXCEPT ![w] = IF agg[w] = Zero THEN "check" ELSE "send"]
    /\ UNCHANGED <<ui, running, keep, agg, service, receiver, pushes, history>>

\* Mutant of Take: a worker that finds nothing to send returns.
TakeOrReturn(w) ==
    /\ worker[w] = "take"
    /\ taken' = [taken EXCEPT ![w] = agg[w]]
    /\ agg' = [agg EXCEPT ![w] = Zero]
    /\ worker' = [worker EXCEPT ![w] = IF agg[w] = Zero THEN "done" ELSE "send"]
    /\ UNCHANGED <<ui, running, keep, service, receiver, pushes, history>>

\* After the sleep: MoveAggregator::take.  Motion that has cancelled out is not
\* sent.
Take(w) ==
    /\ worker[w] = "take"
    /\ taken' = [taken EXCEPT ![w] = agg[w]]
    /\ agg' = [agg EXCEPT ![w] = Zero]
    /\ worker' = [worker EXCEPT ![w] = IF agg[w] = Zero THEN "check" ELSE "send"]
    /\ UNCHANGED <<ui, running, keep, service, receiver, pushes, history>>

\* Mutant of emit: Windows scrolls horizontally whenever it can.
emit_horizontal_first(w, d) ==
    IF platform = "windows" /\ w = "scroll" /\ d[1] # 0 THEN <<d[1], 0>> ELSE d

\* Emitter::emit, what of a package reaches the receiver's system: Windows scrolls
\* either vertically or horizontally.
emit(w, d) ==
    IF platform = "windows" /\ w = "scroll" /\ d[2] # 0 THEN <<0, d[2]>> ELSE d

\* The package arrives at the receiver's emitter, or is lost on the way, also when
\* the client is not connected.  Since motion is only added up, it does not matter
\* when it arrives.
Deliver(w, d) ==
    \/ /\ emitted' = [emitted EXCEPT ![w] = Plus(@, emit(w, d))]
       /\ UNCHANGED lost
    \/ /\ lost' = [lost EXCEPT ![w] = Plus(@, d)]
       /\ UNCHANGED emitted

\* send_package_unreliable; without a service the motion is dropped.
Send(w) ==
    /\ worker[w] = "send"
    /\ IF service
       THEN /\ sent' = [sent EXCEPT ![w] = Plus(@, taken[w])]
            /\ Deliver(w, taken[w])
       ELSE UNCHANGED <<sent, emitted, lost>>
    /\ taken' = [taken EXCEPT ![w] = Zero]
    /\ worker' = [worker EXCEPT ![w] = "check"]
    /\ UNCHANGED <<ui, running, keep, agg, service, platform, pushes, pushed, vertical>>

WorkerStep(w) == Check(w) \/ Take(w) \/ Send(w)

Next ==
    \/ Start \/ Stop \/ JoinMove \/ JoinScroll
    \/ \E w \in Workers : Push(w) \/ WorkerStep(w)

Spec == Init /\ [][Next]_vars

\* The scheduler runs every thread that is not blocked in a join.
FairSpec ==
    /\ Spec
    /\ WF_vars(JoinMove) /\ WF_vars(JoinScroll)
    /\ \A w \in Workers : WF_vars(WorkerStep(w))

------------------------------------------------------------------------------
Motion == Int \X Int

\* The type of every variable.
TypeOK ==
    /\ ui \in {"new", "started", "join_move", "join_scroll", "stopped"}
    /\ running \in BOOLEAN
    /\ keep \in [Workers -> BOOLEAN]
    /\ agg \in [Workers -> Motion]
    /\ worker \in [Workers -> {"none", "check", "take", "send", "done"}]
    /\ taken \in [Workers -> Motion]
    /\ service \in BOOLEAN
    /\ pushes \in 0 .. MaxPushes
    /\ pushed \in [Workers -> Motion]
    /\ sent \in [Workers -> Motion]
    /\ platform \in {"windows", "macos"}
    /\ emitted \in [Workers -> Motion]
    /\ lost \in [Workers -> Motion]
    /\ vertical \in BOOLEAN

\* No motion is lost or sent twice between the UI thread's add and the workers'
\* take and send: what was captured is what was sent, plus what a worker holds,
\* plus what is still accumulated (after stop, what is discarded).
MotionConserved ==
    \A w \in Workers : pushed[w] = Plus(sent[w], Plus(taken[w], agg[w]))

\* The receiver moves and scrolls by what the user did, save for what the network
\* lost and what the sender still holds.  Only the horizontal scrolling of a user
\* who also scrolls vertically is not kept on Windows: the aggregator turns events
\* along either axis into diagonal ones, of which the emitter uses the vertical part.
ReceiverEmulates ==
    \A w \in Workers, axis \in 1 .. 2 :
        \/ axis = 1 /\ w = "scroll" /\ platform = "windows" /\ vertical
        \/ pushed[w][axis] = emitted[w][axis] + lost[w][axis] + taken[w][axis] + agg[w][axis]

\* The service reference that the workers read without a lock is only cleared
\* when both worker threads have ended, so no taken motion is dropped for it.
ServiceOutlivesWorkers ==
    \A w \in Workers : worker[w] \in {"check", "take", "send"} => service

\* Once stop has returned, nothing is sent any more.
QuietAfterStop == [][ui = "stopped" => sent' = sent]_vars

\* stop always returns: both joins succeed whatever the workers were doing.
StopReturns == ui = "join_move" ~> ui = "stopped"

\* While the flow runs, accumulated motion never stays behind for good.
MotionFlushed == \A w \in Workers : []<>(agg[w] = Zero \/ ui # "started")
==============================================================================
