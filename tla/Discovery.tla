------------------------------ MODULE Discovery ------------------------------
(***************************************************************************)
(* services::discovery_service: every device broadcasts its state to the   *)
(* local network and keeps the devices it heard of recently.               *)
(*                                                                         *)
(* One tick stands for the broadcast interval of 5 s; the services thread  *)
(* polls and updates every millisecond, so between two ticks every running *)
(* service has handled its datagrams and run update.  A timestamp is       *)
(* represented by what the code computes from it, now - timestamp; the     *)
(* difference is unsigned in the code, so a clock that was set back makes  *)
(* it larger than any timeout.                                             *)
(*                                                                         *)
(* A device_id is drawn when the program starts, from a generator seeded   *)
(* with the time in seconds: it is fresh, or the id of another program     *)
(* that was started since the last tick and may share its second.  A       *)
(* peer's IP address is the device, since the handler overwrites it with   *)
(* the datagram's sender.                                                  *)
(***************************************************************************)
EXTENDS Integers, Sequences, FiniteSets

CONSTANTS
    Nodes,        \* the devices, by IP address
    Interval,     \* state_broadcast_interval_ms_, in ticks
    Stale,        \* peer_stale_timeout_ms_, in ticks
    Lossy,        \* whether the network may lose a broadcast
    MaxStarts,    \* bound: how often the program is started, on all devices
    MaxSteps      \* bound: how often any system clock is set back

ASSUME IntervalAssumption == Interval \in Nat \ {0}
ASSUME StaleAssumption == Stale \in Nat /\ Stale > Interval
ASSUME LossyAssumption == Lossy \in BOOLEAN
ASSUME BoundsAssumption == MaxStarts \in Nat /\ MaxSteps \in Nat

\* Device ids, numbered by the start that drew them first.
Ids == 1 .. MaxStarts
Peer == [id : Ids, ip : Nodes]
Message == [id : Ids, ip : Nodes, state : {"idle", "gone"}]

\* last_broadcast_time_ms_ is 0.
Never == Stale + 2

VARIABLES
    starts,      \* how often the program was started
    recent,      \* the ids drawn since the last tick
    device_id,   \* self_peer.device_id, 0 before the first start
    running,     \* the service is registered and its sockets are open
    peers,       \* discovered_peers
    seen,        \* peer_last_seen_timestamps_, as now - timestamp
    last,        \* last_broadcast_time_ms_, as now - time
    candidates,  \* store: the IPs of available_devices
    inbox,       \* datagrams waiting in each device's socket
    updated,     \* update has run since the last tick
    clock_steps, \* how often a clock was set back
    heard,       \* history: true ticks since a device last heard of an id
    heard_from   \* history: the address it heard that from

programs == <<starts, recent, device_id, running>>
histories == <<heard, heard_from>>
clocks == <<clock_steps, histories>>
vars == <<programs, peers, seen, last, candidates, inbox, updated, clocks>>

\* Mutant of Exceeds: a timeout is reached one tick early.
Reaches(age, timeout) == age < 0 \/ age >= timeout

\* The unsigned difference now - timestamp against a timeout.
Exceeds(age, timeout) == age < 0 \/ age > timeout

\* Once beyond every timeout an age need not be counted on.
Older(age) == IF age > Stale THEN age ELSE age + 1

Unheard == Stale + 1

\* The histories of a device n that starts or ends.
Nothing(n) ==
    /\ heard' = [heard EXCEPT ![n] = [i \in Ids |-> Unheard]]
    /\ heard_from' = [heard_from EXCEPT ![n] = [i \in Ids |-> n]]

Init ==
    /\ starts = 0
    /\ recent = {}
    /\ device_id = [n \in Nodes |-> 0]
    /\ running = [n \in Nodes |-> FALSE]
    /\ peers = [n \in Nodes |-> <<>>]
    /\ seen = [n \in Nodes |-> <<>>]
    /\ last = [n \in Nodes |-> Never]
    /\ candidates = [n \in Nodes |-> <<>>]
    /\ inbox = [n \in Nodes |-> {}]
    /\ updated = [n \in Nodes |-> FALSE]
    /\ clock_steps = 0
    /\ heard = [n \in Nodes |-> [i \in Ids |-> Unheard]]
    /\ heard_from = [n \in Nodes |-> [i \in Ids |-> n]]

------------------------------------------------------------------------------
\* The vectors.

\* The r-th smallest of a set of indices.
Nth(S, r) == CHOOSE i \in S : Cardinality({k \in S : k <= i}) = r

\* What erase leaves of a vector: the elements at the indices S, in their order.
Keep(s, S) == [r \in 1 .. Cardinality(S) |-> s[Nth(S, r)]]

\* remove_stale_peers walks both vectors in step; what lies beyond the shorter
\* one stays.
remove_stale_peers(ps, ts) ==
    LET stale == {i \in DOMAIN ps \cap DOMAIN ts : Exceeds(ts[i], Stale)}
    IN  [ps |-> Keep(ps, DOMAIN ps \ stale), ts |-> Keep(ts, DOMAIN ts \ stale)]

\* find_if by device_id: the first index, if there is one.
Find(ps, id) == {i \in DOMAIN ps : ps[i].id = id /\ \A j \in 1 .. i - 1 : ps[j].id # id}

\* Mutant of remove_peer_by_device_id: the timestamp is not erased.
remove_peer_only(ps, ts, id) ==
    [ps |-> Keep(ps, DOMAIN ps \ Find(ps, id)), ts |-> ts]

remove_peer_by_device_id(ps, ts, id) ==
    [ps |-> Keep(ps, DOMAIN ps \ Find(ps, id)), ts |-> Keep(ts, DOMAIN ts \ Find(ps, id))]

\* Mutant of update_peer_state: a known peer keeps its address.
update_timestamp_only(ps, ts, p) ==
    LET known == Find(ps, p.id)
    IN  IF known = {}
        THEN remove_stale_peers(Append(ps, p), Append(ts, 0))
        ELSE remove_stale_peers(ps, [i \in DOMAIN ts |-> IF i \in known THEN 0 ELSE ts[i]])

update_peer_state(ps, ts, p) ==
    LET known == Find(ps, p.id)
    IN  IF known = {}
        THEN remove_stale_peers(Append(ps, p), Append(ts, 0))
        ELSE remove_stale_peers([i \in DOMAIN ps |-> IF i \in known THEN p ELSE ps[i]],
                                [i \in DOMAIN ts |-> IF i \in known THEN 0 ELSE ts[i]])

\* Mutant of CandidatesOf: a candidate's address is its device_id.
CandidateIds(ps) == [j \in DOMAIN ps |-> ps[j].id]

\* update_connection_candidates; a peer with this device's own address
\* (127.0.0.1 in the code, so none on the network) would be skipped.
CandidatesOf(ps) == [j \in DOMAIN ps |-> ps[j].ip]

\* broadcast_own_state, once it has decided to send: the datagram reaches some
\* of the sockets that are open.  The copy in the device's own socket, which its
\* handler ignores, is left out.
Broadcast(boxes, n, id, state) ==
    LET open == {m \in Nodes \ {n} : running[m]}
    IN  \E to \in SUBSET open :
            /\ Lossy \/ to = open
            /\ inbox' = [m \in Nodes |-> IF m \in to
                            THEN boxes[m] \cup {[id |-> id, ip |-> n, state |-> state]}
                            ELSE boxes[m]]

------------------------------------------------------------------------------
\* init: a new device_id, new sockets and the startup burst of two forced
\* broadcasts, of which some device may miss both.
Start(n) ==
    /\ ~ running[n]
    /\ starts < MaxStarts
    /\ starts' = starts + 1
    /\ \E id \in recent \cup {starts'} :
          /\ recent' = recent \cup {id}
          /\ device_id' = [device_id EXCEPT ![n] = id]
          /\ Broadcast([inbox EXCEPT ![n] = {}], n, id, "idle")
    /\ running' = [running EXCEPT ![n] = TRUE]
    /\ last' = [last EXCEPT ![n] = 0]
    /\ candidates' = [candidates EXCEPT ![n] = <<>>]
    /\ updated' = [updated EXCEPT ![n] = FALSE]
    /\ Nothing(n)
    /\ UNCHANGED <<peers, seen, clock_steps>>

\* The on_message handler for a datagram of another device.
HearIdle(n) ==
    /\ running[n]
    /\ \E m \in inbox[n] :
          /\ m.state = "idle" /\ m.id # device_id[n]
          /\ LET known == update_peer_state(peers[n], seen[n], [id |-> m.id, ip |-> m.ip])
                 rest == [inbox EXCEPT ![n] = @ \ {m}]
             IN  /\ peers' = [peers EXCEPT ![n] = known.ps]
                 /\ seen' = [seen EXCEPT ![n] = known.ts]
                 /\ candidates' = [candidates EXCEPT ![n] = CandidatesOf(known.ps)]
                 /\ IF Find(peers[n], m.id) = {}
                    THEN /\ Broadcast(rest, n, device_id[n], "idle")
                         /\ last' = [last EXCEPT ![n] = 0]
                    ELSE inbox' = rest /\ UNCHANGED last
          /\ heard' = [heard EXCEPT ![n][m.id] = 0]
          /\ heard_from' = [heard_from EXCEPT ![n][m.id] = m.ip]
    /\ UNCHANGED <<programs, updated, clock_steps>>

\* Mutant of HearGone: the store is not told.
HearGoneUnpublished(n) ==
    /\ running[n]
    /\ \E m \in inbox[n] :
          /\ m.state = "gone" /\ m.id # device_id[n]
          /\ inbox' = [inbox EXCEPT ![n] = @ \ {m}]
          /\ LET known == remove_peer_by_device_id(peers[n], seen[n], m.id)
             IN  /\ peers' = [peers EXCEPT ![n] = known.ps]
                 /\ seen' = [seen EXCEPT ![n] = known.ts]
          /\ heard' = [heard EXCEPT ![n][m.id] = Unheard]
          /\ heard_from' = [heard_from EXCEPT ![n][m.id] = n]
    /\ UNCHANGED <<programs, last, candidates, updated, clock_steps>>

HearGone(n) ==
    /\ running[n]
    /\ \E m \in inbox[n] :
          /\ m.state = "gone" /\ m.id # device_id[n]
          /\ inbox' = [inbox EXCEPT ![n] = @ \ {m}]
          /\ LET known == remove_peer_by_device_id(peers[n], seen[n], m.id)
             IN  /\ peers' = [peers EXCEPT ![n] = known.ps]
                 /\ seen' = [seen EXCEPT ![n] = known.ts]
                 /\ candidates' = IF Find(peers[n], m.id) = {} THEN candidates
                       ELSE [candidates EXCEPT ![n] = CandidatesOf(known.ps)]
          /\ heard' = [heard EXCEPT ![n][m.id] = Unheard]
          /\ heard_from' = [heard_from EXCEPT ![n][m.id] = n]
    /\ UNCHANGED <<programs, last, updated, clock_steps>>

\* The handler's early return for datagrams with the device's own id: here,
\* those of another device that drew the same one.
IgnoreOwn(n) ==
    /\ running[n]
    /\ \E m \in inbox[n] :
          /\ m.id = device_id[n]
          /\ inbox' = [inbox EXCEPT ![n] = @ \ {m}]
    /\ UNCHANGED <<programs, peers, seen, last, candidates, updated, clocks>>

\* Mutant of Update: stale peers are only dropped when a datagram arrives.
UpdateKeepsStale(n) ==
    /\ running[n]
    /\ IF last[n] = Never \/ Exceeds(last[n], Interval)
       THEN /\ last' = [last EXCEPT ![n] = 0]
            /\ Broadcast(inbox, n, device_id[n], "idle")
       ELSE UNCHANGED <<last, inbox>>
    /\ candidates' = [candidates EXCEPT ![n] = CandidatesOf(peers[n])]
    /\ updated' = [updated EXCEPT ![n] = TRUE]
    /\ UNCHANGED <<programs, peers, seen, clocks>>

\* Mutant of Update: the device only announces itself when it starts or hears of
\* a new one.
UpdateSilent(n) ==
    /\ running[n]
    /\ LET known == remove_stale_peers(peers[n], seen[n])
       IN  /\ peers' = [peers EXCEPT ![n] = known.ps]
           /\ seen' = [seen EXCEPT ![n] = known.ts]
           /\ candidates' = [candidates EXCEPT ![n] = CandidatesOf(known.ps)]
    /\ updated' = [updated EXCEPT ![n] = TRUE]
    /\ UNCHANGED <<programs, last, inbox, clocks>>

\* The rest of update: broadcast when due, drop stale peers, publish.
Update(n) ==
    /\ running[n]
    /\ IF last[n] = Never \/ Exceeds(last[n], Interval)
       THEN /\ last' = [last EXCEPT ![n] = 0]
            /\ Broadcast(inbox, n, device_id[n], "idle")
       ELSE UNCHANGED <<last, inbox>>
    /\ LET known == remove_stale_peers(peers[n], seen[n])
       IN  /\ peers' = [peers EXCEPT ![n] = known.ps]
           /\ seen' = [seen EXCEPT ![n] = known.ts]
           /\ candidates' = [candidates EXCEPT ![n] = CandidatesOf(known.ps)]
    /\ updated' = [updated EXCEPT ![n] = TRUE]
    /\ UNCHANGED <<programs, clocks>>

\* The service is gone with all it kept; the store still shows its candidates.
Forget(n) ==
    /\ running' = [running EXCEPT ![n] = FALSE]
    /\ peers' = [peers EXCEPT ![n] = <<>>]
    /\ seen' = [seen EXCEPT ![n] = <<>>]
    /\ last' = [last EXCEPT ![n] = Never]
    /\ Nothing(n)
    /\ UNCHANGED <<starts, recent, device_id, candidates, updated, clock_steps>>

\* cleanup announces that the device goes away.
Cleanup(n) ==
    /\ running[n]
    /\ Broadcast([inbox EXCEPT ![n] = {}], n, device_id[n], "gone")
    /\ Forget(n)

\* HomeScene::willUnmount drops the service without cleanup; a crash does too.
Drop(n) ==
    /\ running[n]
    /\ inbox' = [inbox EXCEPT ![n] = {}]
    /\ Forget(n)

------------------------------------------------------------------------------
\* A tick passes once every running service has emptied its socket and updated.
Tick ==
    /\ \E n \in Nodes : running[n]
    /\ \A n \in Nodes : running[n] => updated[n] /\ inbox[n] = {}
    /\ seen' = [n \in Nodes |-> [i \in DOMAIN seen[n] |-> Older(seen[n][i])]]
    /\ last' = [n \in Nodes |-> IF last[n] = Never THEN Never ELSE Older(last[n])]
    /\ heard' = [n \in Nodes |-> [i \in Ids |-> Older(heard[n][i])]]
    /\ heard_from' = [n \in Nodes |-> [i \in Ids |->
          IF heard'[n][i] = Unheard THEN n ELSE heard_from[n][i]]]
    /\ updated' = [n \in Nodes |-> FALSE]
    /\ recent' = {}
    /\ UNCHANGED <<starts, device_id, running, peers, candidates, inbox, clock_steps>>

\* utils::date::now reads the system clock, which may be set back.
SetClockBack(n) ==
    /\ running[n]
    /\ clock_steps < MaxSteps
    /\ clock_steps' = clock_steps + 1
    /\ seen' = [seen EXCEPT ![n] = [i \in DOMAIN @ |-> @[i] - 1]]
    /\ last' = [last EXCEPT ![n] = IF @ = Never THEN Never ELSE @ - 1]
    /\ UNCHANGED <<programs, peers, candidates, inbox, updated, histories>>

Hear(n) == HearIdle(n) \/ HearGone(n) \/ IgnoreOwn(n)

Next ==
    \/ \E n \in Nodes : \/ Start(n) \/ Hear(n) \/ Update(n) \/ Cleanup(n) \/ Drop(n)
                        \/ SetClockBack(n)
    \/ Tick

Spec == Init /\ [][Next]_vars

\* Services threads keep polling and updating, and time passes.
FairSpec ==
    /\ Spec
    /\ WF_vars(Tick)
    /\ \A n \in Nodes : WF_vars(Hear(n)) /\ WF_vars(Update(n) /\ ~ updated[n])

------------------------------------------------------------------------------
Ages == -MaxSteps .. Stale + 1

\* The type of every variable.
TypeOK ==
    /\ starts \in 0 .. MaxStarts
    /\ recent \in SUBSET Ids
    /\ device_id \in [Nodes -> 0 .. MaxStarts]
    /\ running \in [Nodes -> BOOLEAN]
    /\ peers \in [Nodes -> Seq(Peer)]
    /\ seen \in [Nodes -> Seq(Ages)]
    /\ last \in [Nodes -> Ages \cup {Never}]
    /\ candidates \in [Nodes -> Seq(Nodes)]
    /\ inbox \in [Nodes -> SUBSET Message]
    /\ updated \in [Nodes -> BOOLEAN]
    /\ clock_steps \in 0 .. MaxSteps
    /\ heard \in [Nodes -> [Ids -> 0 .. Unheard]]
    /\ heard_from \in [Nodes -> [Ids -> Nodes]]

Listed(n) == {peers[n][i].id : i \in DOMAIN peers[n]}

\* The two parallel vectors stay aligned through every insertion, erasure and
\* stale removal: the age kept at a peer's index is that of this very peer, and
\* no device_id is listed twice.
VectorsAligned ==
    \A n \in Nodes :
        /\ Len(peers[n]) = Len(seen[n])
        /\ \A i, j \in DOMAIN peers[n] : peers[n][i].id = peers[n][j].id => i = j
        /\ clock_steps = 0 => \A i \in DOMAIN peers[n] : seen[n][i] = heard[n][peers[n][i].id]

\* After update, and while nobody's clock was set back, a service lists exactly
\* the ids it has heard of, and not of their departure, within the stale timeout,
\* each with the address it came from last: when two devices have drawn the same
\* id, the entry they share names the one that spoke last.
ListsWhatItHeard ==
    \A n \in Nodes : running[n] /\ updated[n] /\ clock_steps = 0
        => {peers[n][i] : i \in DOMAIN peers[n]}
               = {[id |-> i, ip |-> heard_from[n][i]] : i \in {j \in Ids : heard[n][j] <= Stale}}

\* What the home scene offers is what the service knows: publishing is never
\* forgotten, and a device never offers itself.
CandidatesCurrent ==
    \A n \in Nodes : running[n] =>
        /\ candidates[n] = CandidatesOf(peers[n])
        /\ device_id[n] \notin Listed(n)

\* What two aligned vectors say of each peer.
Entries(ps, ts) == {[id |-> ps[i].id, ip |-> ps[i].ip, age |-> ts[i]] : i \in DOMAIN ps}

M == INSTANCE Membership WITH
        members <- [n \in Nodes |-> Entries(peers[n], seen[n])],
        offered <- [n \in Nodes |-> {candidates[n][i] : i \in DOMAIN candidates[n]}]

\* Discovery implements Membership: whatever datagrams are lost, reordered or come
\* from a device that shares an id, the two vectors are a set of members with
\* distinct ids of which exactly the overdue and the departed ones are dropped, and
\* the store's candidates are the addresses of the members at that moment.
ImplementsMembership == M!Spec

\* A device that is gone for good, announced or not, is eventually not offered
\* any more by a device that keeps running.
DepartedAreForgotten ==
    \A n, m \in Nodes :
        <>[](running[n] /\ ~ running[m]) => <>[](\A i \in DOMAIN candidates[n] : candidates[n][i] # m)

\* Whatever ids were drawn and in whatever order the devices were started, on a
\* network that delivers broadcasts a device that keeps running is offered for
\* good by every other one, as long as no running device has the same id.
MutualDiscovery ==
    \A n, m \in Nodes :
        <>[](/\ n # m /\ running[n] /\ running[m]
             /\ \A k \in Nodes \ {m} : running[k] => device_id[k] # device_id[m])
        => <>[](\E i \in DOMAIN candidates[n] : candidates[n][i] = m)
==============================================================================
