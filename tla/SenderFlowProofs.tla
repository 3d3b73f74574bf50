-------------------------- MODULE SenderFlowProofs --------------------------
(***************************************************************************)
(* Proofs about SenderFlow for any set of deltas and any number of events. *)
(***************************************************************************)
EXTENDS SenderFlow, TLAPS

\* What the place of the UI thread says about the workers and the service; a
\* worker holds motion only while it is about to send it.
Lifetime ==
    /\ ui = "new" => \A w \in Workers : worker[w] = "none"
    /\ ui \in {"started", "join_move", "join_scroll"} => service
    /\ ui = "join_scroll" => worker["move"] = "done"
    /\ ui = "stopped" => \A w \in Workers : worker[w] = "done"
    /\ ui \in {"join_move", "join_scroll"} =>
          \A w \in Workers : ~ keep[w] /\ worker[w] # "none"
    /\ ui = "started" => \A w \in Workers : worker[w] # "none"
    /\ \A w \in Workers : worker[w] # "send" => taken[w] = Zero

\* Without vertical scrolling nothing vertical is on its way.
NotVertical == ~ vertical => agg["scroll"][2] = 0 /\ taken["scroll"][2] = 0

IInv == TypeOK /\ Lifetime /\ MotionConserved /\ NotVertical /\ ReceiverEmulates

------------------------------------------------------------------------------
\* Adding deltas: closed, with a neutral element, associative.
LEMMA PlusFacts ==
    ASSUME NEW u \in Motion, NEW v \in Motion
    PROVE  Plus(u, v) \in Motion /\ Plus(u, Zero) = u /\ Plus(Zero, u) = u
  BY DEF Plus, Motion, Zero

\* Deltas may be added in any grouping: what a worker took and what came later
\* add up to the same total.
LEMMA PlusAssoc ==
    ASSUME NEW u \in Motion, NEW v \in Motion, NEW x \in Motion
    PROVE  Plus(Plus(u, v), x) = Plus(u, Plus(v, x))
  BY DEF Plus, Motion

\* An empty aggregator holds a motion.
LEMMA ZeroMotion == Zero \in Motion
  BY DEF Zero, Motion

\* What the emitter makes of a motion is one, with the same vertical part.
LEMMA EmitFacts ==
    ASSUME NEW w, NEW d \in Motion
    PROVE  /\ emit(w, d) \in Motion
           /\ emit(w, d)[2] = d[2]
           /\ platform # "windows" \/ w # "scroll" \/ d[2] = 0 => emit(w, d) = d
  BY DEF emit, Motion

\* Before SenderScene mounts, nothing runs and nothing was captured.
LEMMA InitIInv == Init => IInv
<1> SUFFICES ASSUME Init PROVE IInv
  OBVIOUS
<1> USE DEF Init, Workers
<1>1. TypeOK
  <2>1. pushes \in 0 .. MaxPushes
    BY PushesAssumption
  <2>2. [w \in Workers |-> Zero] \in [Workers -> Motion]
    BY ZeroMotion
  <2> QED
    BY <2>1, <2>2 DEF TypeOK
<1>2. MotionConserved
  BY ZeroMotion, PlusFacts DEF MotionConserved
<1>3. Lifetime
  BY DEF Lifetime
<1>4. NotVertical
  BY DEF NotVertical, Zero
<1>5. ReceiverEmulates
  BY DEF ReceiverEmulates, Zero
<1> QED
  BY <1>1, <1>2, <1>3, <1>4, <1>5 DEF IInv

\* Every step of the UI thread and of the workers keeps the types.
LEMMA TypeStep == TypeOK /\ [Next]_vars => TypeOK'
<1> SUFFICES ASSUME TypeOK, [Next]_vars PROVE TypeOK'
  OBVIOUS
<1> USE DEF TypeOK, history, receiver
<1>1. CASE Start
  BY <1>1 DEF Start
<1>2. CASE Stop
  BY <1>2 DEF Stop
<1>3. CASE JoinMove
  BY <1>3 DEF JoinMove
<1>4. CASE JoinScroll
  BY <1>4 DEF JoinScroll
<1>5. ASSUME NEW w \in Workers, Push(w) PROVE TypeOK'
  <2>1. PICK d \in Motion : /\ agg' = [agg EXCEPT ![w] = Plus(@, d)]
                            /\ pushed' = [pushed EXCEPT ![w] = Plus(@, d)]
    BY <1>5, DeltasAssumption DEF Push, Motion
  <2>2. Plus(agg[w], d) \in Motion /\ Plus(pushed[w], d) \in Motion
    BY PlusFacts
  <2>3. agg' \in [Workers -> Motion] /\ pushed' \in [Workers -> Motion]
    BY <2>1, <2>2
  <2>4. pushes' \in 0 .. MaxPushes
    BY <1>5, PushesAssumption DEF Push
  <2> QED
    BY <1>5, <2>3, <2>4 DEF Push
<1>6. ASSUME NEW w \in Workers, Check(w) PROVE TypeOK'
  BY <1>6 DEF Check
<1>7. ASSUME NEW w \in Workers, Take(w) PROVE TypeOK'
  BY <1>7, ZeroMotion DEF Take
<1>8. ASSUME NEW w \in Workers, Send(w) PROVE TypeOK'
  <2>1. /\ Plus(sent[w], taken[w]) \in Motion /\ Plus(lost[w], taken[w]) \in Motion
        /\ Plus(emitted[w], emit(w, taken[w])) \in Motion
    BY PlusFacts, EmitFacts
  <2>2. sent' \in [Workers -> Motion]
    BY <1>8, <2>1 DEF Send
  <2>3. emitted' \in [Workers -> Motion] /\ lost' \in [Workers -> Motion]
    BY <1>8, <2>1 DEF Send, Deliver
  <2> QED
    BY <1>8, <2>2, <2>3, ZeroMotion DEF Send
<1>9. CASE UNCHANGED vars
  BY <1>9 DEF vars
<1> QED
  BY <1>1, <1>2, <1>3, <1>4, <1>5, <1>6, <1>7, <1>8, <1>9 DEF Next, WorkerStep

\* No step lets a worker run while the service reference is null.
LEMMA LifetimeStep == TypeOK /\ Lifetime /\ [Next]_vars => Lifetime'
<1> SUFFICES ASSUME TypeOK, Lifetime, [Next]_vars PROVE Lifetime'
  OBVIOUS
<1> USE DEF TypeOK, Lifetime, Workers
<1>1. CASE Start
  BY <1>1 DEF Start
<1>2. CASE Stop
  BY <1>2 DEF Stop
<1>3. CASE JoinMove
  BY <1>3 DEF JoinMove
<1>4. CASE JoinScroll
  BY <1>4 DEF JoinScroll
<1>5. ASSUME NEW w \in Workers, Push(w) PROVE Lifetime'
  BY <1>5 DEF Push
<1>6. ASSUME NEW w \in Workers, Check(w) PROVE Lifetime'
  BY <1>6 DEF Check
<1>7. ASSUME NEW w \in Workers, Take(w) PROVE Lifetime'
  BY <1>7 DEF Take
<1>8. ASSUME NEW w \in Workers, Send(w) PROVE Lifetime'
  BY <1>8 DEF Send
<1>9. CASE UNCHANGED vars
  BY <1>9 DEF vars
<1> QED
  BY <1>1, <1>2, <1>3, <1>4, <1>5, <1>6, <1>7, <1>8, <1>9 DEF Next, WorkerStep

\* Every step moves deltas from one place to the next, and none vanish.
LEMMA ConservedStep == IInv /\ [Next]_vars => MotionConserved'
<1> SUFFICES ASSUME IInv, [Next]_vars, NEW v \in Workers
             PROVE  (pushed[v] = Plus(sent[v], Plus(taken[v], agg[v])))'
  BY DEF MotionConserved
<1>1. /\ pushed[v] = Plus(sent[v], Plus(taken[v], agg[v]))
      /\ pushed[v] \in Motion /\ sent[v] \in Motion
      /\ taken[v] \in Motion /\ agg[v] \in Motion /\ Zero \in Motion
  BY ZeroMotion DEF IInv, TypeOK, MotionConserved
<1>2. CASE UNCHANGED <<agg, taken, history>>
  BY <1>1, <1>2 DEF history
<1>3. ASSUME NEW w \in Workers, Push(w)
      PROVE  (pushed[v] = Plus(sent[v], Plus(taken[v], agg[v])))'
  <2>1. PICK d \in Motion : /\ agg' = [agg EXCEPT ![w] = Plus(@, d)]
                            /\ pushed' = [pushed EXCEPT ![w] = Plus(@, d)]
                            /\ UNCHANGED <<sent, taken>>
    BY <1>3, DeltasAssumption DEF Push, Motion
  <2>2. CASE v = w
    <3>1. agg'[v] = Plus(agg[v], d) /\ pushed'[v] = Plus(pushed[v], d)
      BY <2>1, <2>2 DEF IInv, TypeOK
    <3>2. Plus(Plus(sent[v], Plus(taken[v], agg[v])), d)
             = Plus(sent[v], Plus(taken[v], Plus(agg[v], d)))
      <4>1. Plus(taken[v], agg[v]) \in Motion
        BY <1>1, PlusFacts
      <4>2. Plus(Plus(sent[v], Plus(taken[v], agg[v])), d)
              = Plus(sent[v], Plus(Plus(taken[v], agg[v]), d))
        BY <1>1, <4>1, PlusAssoc
      <4> QED
        BY <1>1, <4>2, PlusAssoc
    <3> QED
      BY <1>1, <2>1, <3>1, <3>2
  <2>3. CASE v # w
    BY <1>1, <2>1, <2>3 DEF IInv, TypeOK
  <2> QED
    BY <2>2, <2>3
<1>4. ASSUME NEW w \in Workers, Take(w)
      PROVE  (pushed[v] = Plus(sent[v], Plus(taken[v], agg[v])))'
  <2>1. CASE v = w
    <3>1. taken[v] = Zero
      BY <1>4, <2>1 DEF Take, IInv, Lifetime
    <3> QED
      BY <1>1, <1>4, <2>1, <3>1, PlusFacts DEF Take, history, IInv, TypeOK
  <2>2. CASE v # w
    BY <1>1, <1>4, <2>2 DEF Take, history, IInv, TypeOK
  <2> QED
    BY <2>1, <2>2
<1>5. ASSUME NEW w \in Workers, Send(w)
      PROVE  (pushed[v] = Plus(sent[v], Plus(taken[v], agg[v])))'
  <2>1. service
    BY <1>5 DEF Send, IInv, TypeOK, Lifetime
  <2>2. CASE v = w
    <3>1. sent'[v] = Plus(sent[v], taken[v]) /\ taken'[v] = Zero
      BY <1>5, <2>1, <2>2 DEF Send, IInv, TypeOK
    <3>2. Plus(Zero, agg[v]) = agg[v]
      BY <1>1, PlusFacts
    <3>3. Plus(sent[v], Plus(taken[v], agg[v])) = Plus(Plus(sent[v], taken[v]), agg[v])
      BY <1>1, PlusAssoc
    <3> QED
      BY <1>1, <1>5, <3>1, <3>2, <3>3 DEF Send
  <2>3. CASE v # w
    BY <1>1, <1>5, <2>1, <2>3 DEF Send, IInv, TypeOK
  <2> QED
    BY <2>2, <2>3
<1> QED
  BY <1>2, <1>3, <1>4, <1>5 DEF Next, WorkerStep, Start, Stop, JoinMove, JoinScroll, Check,
     vars

\* Only a vertical event brings a vertical part into the aggregator of scrolling.
LEMMA NotVerticalStep == IInv /\ [Next]_vars => NotVertical'
<1> SUFFICES ASSUME IInv, [Next]_vars PROVE NotVertical'
  OBVIOUS
<1>1. /\ NotVertical /\ "scroll" \in Workers
      /\ agg \in [Workers -> Motion] /\ taken \in [Workers -> Motion]
      /\ vertical \in BOOLEAN
  BY DEF IInv, TypeOK, Workers
<1>2. CASE UNCHANGED <<agg, taken, vertical>>
  BY <1>1, <1>2 DEF NotVertical
<1>3. ASSUME NEW w \in Workers, Push(w) PROVE NotVertical'
  <2>1. PICK d \in Motion : /\ agg' = [agg EXCEPT ![w] = Plus(@, d)]
                            /\ vertical' = (vertical \/ (w = "scroll" /\ d[2] # 0))
                            /\ UNCHANGED taken
    BY <1>3, DeltasAssumption DEF Push, Motion
  <2>2. CASE w = "scroll"
    <3>1. agg'["scroll"] = Plus(agg["scroll"], d)
      BY <1>1, <2>1, <2>2
    <3>2. d[2] \in Int /\ agg["scroll"][2] \in Int
      BY <1>1 DEF Motion
    <3>3. agg'["scroll"][2] = agg["scroll"][2] + d[2]
      BY <3>1 DEF Plus
    <3>4. CASE vertical'
      BY <3>4 DEF NotVertical
    <3>5. CASE ~ vertical'
      <4>1. ~ vertical /\ d[2] = 0
        BY <2>1, <2>2, <3>5
      <4>2. agg["scroll"][2] = 0 /\ taken["scroll"][2] = 0
        BY <1>1, <4>1 DEF NotVertical
      <4> QED
        BY <2>1, <3>3, <4>1, <4>2 DEF NotVertical
    <3> QED
      BY <3>4, <3>5
  <2>3. CASE w # "scroll"
    BY <1>1, <2>1, <2>3 DEF NotVertical
  <2> QED
    BY <2>2, <2>3
<1>4. ASSUME NEW w \in Workers, Take(w) PROVE NotVertical'
  <2>1. /\ taken' = [taken EXCEPT ![w] = agg[w]] /\ agg' = [agg EXCEPT ![w] = Zero]
        /\ UNCHANGED vertical
    BY <1>4 DEF Take, history
  <2>2. CASE w = "scroll"
    <3>1. taken'["scroll"] = agg["scroll"] /\ agg'["scroll"][2] = 0
      BY <1>1, <2>1, <2>2 DEF Zero
    <3> QED
      BY <1>1, <2>1, <3>1 DEF NotVertical
  <2>3. CASE w # "scroll"
    <3>1. taken'["scroll"] = taken["scroll"] /\ agg'["scroll"] = agg["scroll"]
      BY <1>1, <2>1, <2>3
    <3> QED
      BY <1>1, <2>1, <3>1 DEF NotVertical
  <2> QED
    BY <2>2, <2>3
<1>5. ASSUME NEW w \in Workers, Send(w) PROVE NotVertical'
  BY <1>1, <1>5 DEF Send, NotVertical, Zero
<1> QED
  BY <1>2, <1>3, <1>4, <1>5 DEF Next, WorkerStep, Start, Stop, JoinMove, JoinScroll, Check,
     vars, history

\* Along an axis that the emitter keeps, every step conserves the motion.
LEMMA EmulatesStep == IInv /\ [Next]_vars => ReceiverEmulates'
<1> DEFINE Excepted(w, axis) ==
              axis = 1 /\ w = "scroll" /\ platform = "windows" /\ vertical
           Balanced(w, axis) ==
              pushed[w][axis] = emitted[w][axis] + lost[w][axis] + taken[w][axis] + agg[w][axis]
<1> SUFFICES ASSUME IInv, [Next]_vars, NEW v \in Workers, NEW axis \in 1 .. 2,
                    ~ Excepted(v, axis)'
             PROVE  Balanced(v, axis)'
  BY DEF ReceiverEmulates
<1>1. \A w \in Workers : /\ pushed[w] \in Motion /\ emitted[w] \in Motion
                         /\ lost[w] \in Motion /\ taken[w] \in Motion /\ agg[w] \in Motion
  BY DEF IInv, TypeOK
<1>2. \A d \in Motion : d[axis] \in Int
  BY DEF Motion
<1>3. \A u, d \in Motion : Plus(u, d)[axis] = u[axis] + d[axis]
  BY DEF Plus
<1>4. ~ Excepted(v, axis)
  BY DEF Next, WorkerStep, Start, Stop, JoinMove, JoinScroll, Check, Push, Take, Send,
     vars, history, receiver
<1>5. Balanced(v, axis)
  BY <1>4 DEF IInv, ReceiverEmulates
<1>6. CASE UNCHANGED <<agg, taken, pushed, lost, emitted>>
  BY <1>5, <1>6
<1>7. ASSUME NEW w \in Workers, Push(w) PROVE Balanced(v, axis)'
  <2>1. PICK d \in Motion : /\ agg' = [agg EXCEPT ![w] = Plus(@, d)]
                            /\ pushed' = [pushed EXCEPT ![w] = Plus(@, d)]
                            /\ UNCHANGED <<taken, lost, emitted>>
    BY <1>7, DeltasAssumption DEF Push, Motion, receiver
  <2>2. CASE v = w
    <3>1. agg'[v] = Plus(agg[v], d) /\ pushed'[v] = Plus(pushed[v], d)
      BY <2>1, <2>2 DEF IInv, TypeOK
    <3> QED
      BY <1>1, <1>2, <1>3, <1>5, <2>1, <3>1
  <2>3. CASE v # w
    <3>1. agg'[v] = agg[v] /\ pushed'[v] = pushed[v]
      BY <2>1, <2>3 DEF IInv, TypeOK
    <3> QED
      BY <1>5, <2>1, <3>1
  <2> QED
    BY <2>2, <2>3
<1>8. ASSUME NEW w \in Workers, Take(w) PROVE Balanced(v, axis)'
  <2>1. UNCHANGED <<pushed, lost, emitted>>
    BY <1>8 DEF Take, history, receiver
  <2>2. CASE v = w
    <3>1. taken[v] = Zero /\ taken'[v] = agg[v] /\ agg'[v] = Zero
      BY <1>8, <2>2 DEF Take, IInv, Lifetime, TypeOK
    <3>2. Zero[axis] = 0
      BY DEF Zero
    <3> QED
      BY <1>1, <1>2, <1>5, <2>1, <3>1, <3>2
  <2>3. CASE v # w
    <3>1. taken'[v] = taken[v] /\ agg'[v] = agg[v]
      BY <1>8, <2>3 DEF Take, IInv, TypeOK
    <3> QED
      BY <1>5, <2>1, <3>1
  <2> QED
    BY <2>2, <2>3
<1>9. ASSUME NEW w \in Workers, Send(w) PROVE Balanced(v, axis)'
  <2>1. /\ taken' = [taken EXCEPT ![w] = Zero]
        /\ UNCHANGED <<pushed, agg>>
        /\ Deliver(w, taken[w])
    BY <1>9 DEF Send, IInv, TypeOK, Lifetime
  <2>2. CASE v = w
    <3>1. taken'[v] = Zero /\ Zero[axis] = 0
      BY <2>1, <2>2 DEF IInv, TypeOK, Zero
    <3>2. emit(v, taken[v])[axis] = taken[v][axis] /\ emit(v, taken[v]) \in Motion
      BY <1>1, <1>4, EmitFacts DEF IInv, NotVertical
    <3>3. CASE emitted' = [emitted EXCEPT ![w] = Plus(@, emit(w, taken[w]))] /\ UNCHANGED lost
      <4>1. emitted'[v] = Plus(emitted[v], emit(v, taken[v]))
        BY <2>2, <3>3 DEF IInv, TypeOK
      <4>2. emitted'[v][axis] = emitted[v][axis] + taken[v][axis] /\ taken'[v][axis] = 0
        BY <1>1, <1>3, <3>1, <3>2, <4>1
      <4>3. /\ emitted[v][axis] \in Int /\ taken[v][axis] \in Int
            /\ lost[v][axis] \in Int /\ agg[v][axis] \in Int
        BY <1>1, <1>2
      <4> QED
        BY <1>5, <2>1, <3>3, <4>2, <4>3
    <3>4. CASE lost' = [lost EXCEPT ![w] = Plus(@, taken[w])] /\ UNCHANGED emitted
      <4>1. lost'[v] = Plus(lost[v], taken[v])
        BY <2>2, <3>4 DEF IInv, TypeOK
      <4>2. lost'[v][axis] = lost[v][axis] + taken[v][axis] /\ taken'[v][axis] = 0
        BY <1>1, <1>3, <3>1, <4>1
      <4>3. /\ emitted[v][axis] \in Int /\ taken[v][axis] \in Int
            /\ lost[v][axis] \in Int /\ agg[v][axis] \in Int
        BY <1>1, <1>2
      <4> QED
        BY <1>5, <2>1, <3>4, <4>2, <4>3
    <3> QED
      BY <2>1, <3>3, <3>4 DEF Deliver
  <2>3. CASE v # w
    <3>1. taken'[v] = taken[v] /\ emitted'[v] = emitted[v] /\ lost'[v] = lost[v]
      BY <2>1, <2>3 DEF Deliver, IInv, TypeOK
    <3> QED
      BY <1>5, <2>1, <3>1
  <2> QED
    BY <2>2, <2>3
<1> QED
  BY <1>6, <1>7, <1>8, <1>9 DEF Next, WorkerStep, Start, Stop, JoinMove, JoinScroll, Check,
     vars, history, receiver

\* IInv holds in every reachable state.
THEOREM Invariant == Spec => []IInv
<1>1. IInv /\ [Next]_vars => IInv'
  BY TypeStep, LifetimeStep, ConservedStep, NotVerticalStep, EmulatesStep DEF IInv
<1> QED
  BY <1>1, InitIInv, PTL DEF Spec

------------------------------------------------------------------------------
\* Every variable keeps its type.
THEOREM TypeCorrect == Spec => []TypeOK
<1>1. IInv => TypeOK
  BY DEF IInv
<1> QED
  BY <1>1, Invariant, PTL

\* No captured motion is lost or sent twice, whatever the deltas and however the
\* adds of the UI thread interleave with the workers' takes.
THEOREM MotionIsConserved == Spec => []MotionConserved
<1>1. IInv => MotionConserved
  BY DEF IInv
<1> QED
  BY <1>1, Invariant, PTL

\* The receiver's system gets what the user did, whatever the network loses, save for
\* the horizontal part of diagonal scrolling on Windows.
THEOREM ReceiverDoes == Spec => []ReceiverEmulates
<1>1. IInv => ReceiverEmulates
  BY DEF IInv
<1> QED
  BY <1>1, Invariant, PTL

\* The workers never meet a cleared service reference.
THEOREM ServiceSafe == Spec => []ServiceOutlivesWorkers
<1>1. IInv => ServiceOutlivesWorkers
  BY DEF IInv, TypeOK, Lifetime, ServiceOutlivesWorkers
<1> QED
  BY <1>1, Invariant, PTL

\* After stop has returned nothing is sent.
THEOREM Quiet == Spec => QuietAfterStop
<1>1. ASSUME IInv, [Next]_vars, ui = "stopped" PROVE sent' = sent
  <2>1. \A w \in Workers : ~ Send(w)
    BY <1>1 DEF IInv, Lifetime, Send
  <2> QED
    BY <1>1, <2>1 DEF Next, WorkerStep, Start, Push, Stop, JoinMove, JoinScroll, Check,
       Take, vars, history
<1>2. IInv /\ [Next]_vars => [ui = "stopped" => sent' = sent]_vars
  BY <1>1
<1> QED
  BY <1>2, Invariant, PTL DEF Spec, QuietAfterStop

------------------------------------------------------------------------------
(***************************************************************************)
(* Why stop returns.  That the steps are taken is a matter of fairness,    *)
(* which TLC checks (StopReturns); that they come to an end is proved.     *)
(***************************************************************************)
\* How many steps a worker whose flag is cleared has left, and the UI thread.
WorkerLeft(w) ==
    CASE worker[w] = "take" -> 3 [] worker[w] = "send" -> 2 [] worker[w] = "check" -> 1
      [] OTHER -> 0

UiLeft == CASE ui = "join_move" -> 2 [] ui = "join_scroll" -> 1 [] OTHER -> 0

StepsLeft == UiLeft + WorkerLeft("move") + WorkerLeft("scroll")

\* stop has told the workers to end and waits for them.
Stopping == ui \in {"join_move", "join_scroll"}

\* Once stop waits, every step of the flow brings its return nearer: at most eight are
\* left, whatever the workers were doing, and neither worker takes motion twice.
StopAdvances ==
    [][Stopping => StepsLeft' < StepsLeft]_vars

\* While stop waits, the thread it waits for exists and has not lost its way: it has
\* ended, or it stands at a step that it can take.
NoLostWorker ==
    Stopping =>
        /\ StepsLeft \in 1 .. 8
        /\ \A w \in Workers : worker[w] \in {"check", "take", "send", "done"}

\* The safety core of StopReturns: no step of a worker leads away from the end of stop.
THEOREM StopGetsNearer == Spec => StopAdvances
<1>1. ASSUME IInv, Next, Stopping PROVE StepsLeft' < StepsLeft
  <2> USE DEF Workers, Stopping
  <2>1. /\ \A w \in Workers : ~ keep[w]
        /\ worker \in [Workers -> {"none", "check", "take", "send", "done"}]
        /\ UiLeft \in Nat /\ \A w \in Workers : WorkerLeft(w) \in Nat
    BY <1>1 DEF IInv, TypeOK, Lifetime, UiLeft, WorkerLeft
  <2>2. CASE JoinMove \/ JoinScroll
    <3>1. UiLeft' < UiLeft /\ UNCHANGED worker
      BY <2>2 DEF JoinMove, JoinScroll, UiLeft
    <3>2. UiLeft' \in Nat /\ \A w \in Workers : WorkerLeft(w)' = WorkerLeft(w)
      BY <3>1 DEF WorkerLeft, UiLeft
    <3> QED  BY <2>1, <3>1, <3>2 DEF StepsLeft
  <2>3. ASSUME NEW w \in Workers, WorkerStep(w) PROVE StepsLeft' < StepsLeft
    <3>1. UNCHANGED ui /\ \A v \in Workers \ {w} : worker'[v] = worker[v]
      BY <2>1, <2>3 DEF WorkerStep, Check, Take, Send
    <3>2. UiLeft' = UiLeft
      BY <3>1 DEF UiLeft
    <3>3. \A v \in Workers \ {w} : WorkerLeft(v)' = WorkerLeft(v)
      BY <3>1 DEF WorkerLeft
    <3>4. WorkerLeft(w)' < WorkerLeft(w) /\ WorkerLeft(w)' \in Nat
      <4>1. CASE Check(w)
        BY <2>1, <4>1 DEF Check, WorkerLeft
      <4>2. CASE Take(w)
        BY <2>1, <4>2 DEF Take, WorkerLeft
      <4>3. CASE Send(w)
        BY <2>1, <4>3 DEF Send, WorkerLeft
      <4> QED  BY <2>3, <4>1, <4>2, <4>3 DEF WorkerStep
    <3>5. CASE w = "move"
      BY <2>1, <3>2, <3>3, <3>4, <3>5 DEF StepsLeft
    <3>6. CASE w = "scroll"
      BY <2>1, <3>2, <3>3, <3>4, <3>6 DEF StepsLeft
    <3> QED  BY <3>5, <3>6
  <2>4. ~ Start /\ ~ Stop /\ \A w \in Workers : ~ Push(w)
    BY <1>1 DEF Start, Stop, Push
  <2> QED  BY <1>1, <2>2, <2>3, <2>4 DEF Next
<1>2. IInv /\ [Next]_vars => [Stopping => StepsLeft' < StepsLeft]_vars
  BY <1>1
<1> QED  BY <1>2, Invariant, PTL DEF Spec, StopAdvances

\* No worker is missing when it is joined, and the count is in range.
THEOREM WorkersAreThere == Spec => []NoLostWorker
<1>1. IInv => NoLostWorker
  BY DEF IInv, TypeOK, Lifetime, NoLostWorker, Stopping, Workers, StepsLeft,
     UiLeft, WorkerLeft
<1> QED  BY <1>1, Invariant, PTL
==============================================================================
