------------------------------- MODULE Pairing -------------------------------
(***************************************************************************)
(* What pairing promises, without threads, scenes and messages: every user *)
(* chooses at most once, a device whose user has not chosen gives itself   *)
(* to the first device that invites it and to no other, and input comes    *)
(* only from devices whose users have chosen.  Session implements this.    *)
(***************************************************************************)
CONSTANTS
    Nodes,   \* the devices on the local network
    None     \* no device

VARIABLES
    chosen,    \* the device each user wants to send input to
    peer,      \* the device each device is pinned to
    injected   \* the devices whose input each device has injected

vars == <<chosen, peer, injected>>

Init ==
    /\ chosen = [n \in Nodes |-> None]
    /\ peer = [n \in Nodes |-> None]
    /\ injected = [n \in Nodes |-> {}]

\* The device d asks n to be its receiver: its user has chosen, and chosen n if no
\* other user has chosen anything.
Invites(d, n) ==
    /\ chosen[d] # None
    /\ (\A m \in Nodes \ {d} : chosen[m] = None) => chosen[d] = n

Choose(n) ==
    /\ chosen[n] = None
    /\ \E d \in Nodes \ {n} : chosen' = [chosen EXCEPT ![n] = d]
    /\ UNCHANGED <<peer, injected>>

\* A device whose user has not chosen accepts the first invitation for good.
Accept(n) ==
    /\ chosen[n] = None /\ peer[n] = None
    /\ \E d \in Nodes : Invites(d, n) /\ peer' = [peer EXCEPT ![n] = d]
    /\ UNCHANGED <<chosen, injected>>

\* A device whose user has chosen turns to the choice, or to an invitation.
Turn(n) ==
    /\ chosen[n] # None
    /\ \E d \in Nodes : /\ d = chosen[n] \/ Invites(d, n)
                        /\ peer' = [peer EXCEPT ![n] = d]
    /\ UNCHANGED <<chosen, injected>>

\* Input of a device whose user has chosen; only the peer's until this device's
\* own user chooses.
Inject(n) ==
    /\ \E d \in Nodes : /\ chosen[d] # None
                        /\ chosen[n] = None => d = peer[n]
                        /\ injected' = [injected EXCEPT ![n] = @ \cup {d}]
    /\ UNCHANGED <<chosen, peer>>

Next == \E n \in Nodes : Choose(n) \/ Accept(n) \/ Turn(n) \/ Inject(n)

Spec == Init /\ [][Next]_vars
==============================================================================
