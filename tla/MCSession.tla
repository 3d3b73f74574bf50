----------------------------- MODULE MCSession -----------------------------
(***************************************************************************)
(* Session for TLC.  In the runs with three devices the users' clicks are  *)
(* bounded to a few pairs, so that two requests for one device, and a      *)
(* request that meets a click, still happen in every order.                *)
(***************************************************************************)
EXTENDS Session

CONSTANTS a, b, c

\* Clicks outside the given pairs are not explored, and discovery has found
\* every other device or none yet.
Only(pairs) ==
    \A n \in Nodes : /\ clicked[n] # None => <<n, clicked[n]>> \in pairs
                     /\ available[n] \in {{}, Nodes \ {n}}

\* Two devices ask the same third one.  Its user may click one of them when the
\* other already shows its sender scene; from then on only requests are followed.
Rivals ==
    /\ Only({<<a, c>>, <<b, c>>, <<c, b>>})
    /\ clicked[c] # None => /\ scene[a] = "sender"
                           /\ \A m \in net : m.kind = "become_receiver"
                           /\ \A n \in Nodes : available[n] = Nodes \ {n}

\* A device is asked to become a receiver while its user clicks another one.
Chain == Only({<<a, b>>, <<b, c>>})
=============================================================================
