------------------------------ MODULE Membership ------------------------------
(***************************************************************************)
(* What discovery promises, without vectors, timestamps and datagrams:     *)
(* every device keeps a set of members, of each device_id the address it   *)
(* was last heard from and for how long it has been silent, drops those    *)
(* that have left or are overdue, and offers exactly the addresses of the  *)
(* members it keeps.  Discovery implements this.                           *)
(***************************************************************************)
EXTENDS Integers

CONSTANTS
    Nodes,   \* the devices, by address
    Ids,     \* device ids
    Stale    \* how long a silent member is kept

VARIABLES
    members,   \* what each device knows: ids, addresses and ages
    offered    \* the addresses each device offers to its user

vars == <<members, offered>>

Init ==
    /\ members = [n \in Nodes |-> {}]
    /\ offered = [n \in Nodes |-> {}]

\* An age is negative when the clock went back behind the member's last message.
Overdue(m) == m.age < 0 \/ m.age > Stale

Present(S) == {m \in S : ~ Overdue(m)}

\* The device knows S from now on and offers it.
Publish(n, S) ==
    /\ members' = [members EXCEPT ![n] = S]
    /\ offered' = [offered EXCEPT ![n] = {m.ip : m \in S}]

\* A message of another device: its member is replaced or added.
Meet(n) ==
    \E i \in Ids, a \in Nodes :
        Publish(n, Present({m \in members[n] : m.id # i} \cup {[id |-> i, ip |-> a, age |-> 0]}))

\* A departure.
Part(n) == \E i \in Ids : Publish(n, {m \in members[n] : m.id # i})

Review(n) == Publish(n, Present(members[n]))

\* The device starts with nothing to offer.
Begin(n) == members[n] = {} /\ Publish(n, {})

\* The device ends; what it offered last stays on its screen.
End(n) ==
    /\ members' = [members EXCEPT ![n] = {}]
    /\ UNCHANGED offered

Aged(S, by) == {[m EXCEPT !.age = @ + by] : m \in S}

\* Time passes for all devices; an overdue member does not age any further.
Pass ==
    /\ members' = [n \in Nodes |->
          {m \in members[n] : m.age > Stale} \cup Aged({m \in members[n] : m.age <= Stale}, 1)]
    /\ UNCHANGED offered

\* A device's clock is set back.
SetBack(n) ==
    /\ members' = [members EXCEPT ![n] = Aged(@, -1)]
    /\ UNCHANGED offered

Next ==
    \/ \E n \in Nodes : \/ Meet(n) \/ Part(n) \/ Review(n)
                        \/ Begin(n) \/ End(n) \/ SetBack(n)
    \/ Pass

Spec == Init /\ [][Next]_vars
==============================================================================
