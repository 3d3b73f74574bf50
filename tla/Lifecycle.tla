------------------------------ MODULE Lifecycle ------------------------------
(***************************************************************************)
(* What the main loop promises to every service, without threads, scenes   *)
(* and the repository: it is made, then initialised, then visited while it *)
(* lives, and ends once, by cleanup or by its destruction.  The services   *)
(* do not see each other half way: no visit and no end before all of them  *)
(* live, no end of the one that is visited, no visit once cleanup has      *)
(* begun.  MainLoop implements this.                                       *)
(***************************************************************************)
CONSTANT Services

VARIABLES
    life,      \* what has become of each service
    visited    \* the service that is updated or comes next, if any

vars == <<life, visited>>

Init ==
    /\ life = [s \in Services |-> "unborn"]
    /\ visited = {}

AllBegun == \A s \in Services : life[s] \notin {"unborn", "made"}

Make ==
    /\ \A s \in Services : life[s] = "unborn"
    /\ life' = [s \in Services |-> "made"]
    /\ UNCHANGED visited

\* service_lifecycle_listener::init.
Begin(s) ==
    /\ life[s] = "made"
    /\ life' = [life EXCEPT ![s] = "live"]
    /\ UNCHANGED visited

\* The next update is that of s.
Visit(s) ==
    /\ AllBegun /\ life[s] = "live"
    /\ \A u \in Services : life[u] # "cleaned"
    /\ visited' = {s}
    /\ UNCHANGED life

\* A pass over the services ends.
Rest ==
    /\ visited' = {}
    /\ UNCHANGED life

\* service_lifecycle_listener::cleanup; no update is under way or comes after it.
Clean(s) ==
    /\ AllBegun /\ life[s] = "live" /\ visited = {}
    /\ life' = [life EXCEPT ![s] = "cleaned"]
    /\ UNCHANGED visited

\* The last reference to s goes, while another service may be visited.
Destroy(s) ==
    /\ AllBegun /\ life[s] = "live" /\ s \notin visited
    /\ life' = [life EXCEPT ![s] = "destroyed"]
    /\ UNCHANGED visited

Next ==
    \/ Make \/ Rest
    \/ \E s \in Services : Begin(s) \/ Visit(s) \/ Clean(s) \/ Destroy(s)

Spec == Init /\ [][Next]_vars
==============================================================================
