--------------------------- MODULE DiscoveryProofs ---------------------------
(***************************************************************************)
(* Proofs about Discovery: the two vectors stay aligned and list what was  *)
(* heard, for any devices, timeout and bounds, and they implement a set of *)
(* members.                                                                *)
(***************************************************************************)
EXTENDS Discovery, FiniteSetTheorems, TLAPS

USE IntervalAssumption, StaleAssumption, LossyAssumption, BoundsAssumption

Rank(S, i) == Cardinality({k \in S : k <= i})

\* The elements of a set of indices are ranked from 1 to their number, each rank
\* exactly once: Nth and Rank are inverse to each other.
LEMMA Ranks ==
    ASSUME NEW n \in Nat, NEW S \in SUBSET (1 .. n)
    PROVE  /\ IsFiniteSet(S) /\ Cardinality(S) \in Nat
           /\ \A i \in S : Rank(S, i) \in 1 .. Cardinality(S) /\ Nth(S, Rank(S, i)) = i
           /\ \A r \in 1 .. Cardinality(S) : Nth(S, r) \in S /\ Rank(S, Nth(S, r)) = r
<1> DEFINE below(i) == {k \in S : k <= i}
<1> DEFINE f == [i \in S |-> Rank(S, i)]
<1>1. IsFiniteSet(S) /\ Cardinality(S) \in Nat
  <2>1. IsFiniteSet(1 .. n)
    BY FS_Interval
  <2> QED  BY <2>1, FS_Subset, FS_CardinalityType
<1>2. \A i \in S : IsFiniteSet(below(i)) /\ Rank(S, i) \in 1 .. Cardinality(S)
  <2> TAKE i \in S
  <2>1. below(i) \in SUBSET S /\ i \in below(i)
    OBVIOUS
  <2>2. IsFiniteSet(below(i)) /\ Cardinality(below(i)) <= Cardinality(S)
    BY <1>1, <2>1, FS_Subset
  <2>3. Cardinality(below(i)) \in Nat /\ Cardinality(below(i)) # 0
    BY <2>1, <2>2, FS_CardinalityType, FS_EmptySet
  <2> QED  BY <1>1, <2>2, <2>3 DEF Rank
<1>3. \A i, j \in S : i < j => Rank(S, i) # Rank(S, j)
  <2> SUFFICES ASSUME NEW i \in S, NEW j \in S, i < j
               PROVE  Rank(S, i) # Rank(S, j)
    OBVIOUS
  <2> i \in Nat /\ j \in Nat /\ \A k \in S : k \in Nat
    OBVIOUS
  <2>1. below(i) \in SUBSET below(j) /\ j \in below(j) /\ j \notin below(i)
    <3>1. \A k \in S : k <= i => k <= j
      OBVIOUS
    <3>2. j <= j /\ ~ (j <= i)
      OBVIOUS
    <3> QED  BY <3>1, <3>2, Zenon
  <2>2. IsFiniteSet(below(j)) /\ below(i) # below(j)
    BY <1>2, <2>1
  <2>3. Cardinality(below(i)) # Cardinality(below(j))
    BY <2>1, <2>2, FS_Subset
  <2> QED  BY <2>3 DEF Rank
<1>4. \A i, j \in S : Rank(S, i) = Rank(S, j) => i = j
  BY <1>3
<1>5. f \in Injection(S, 1 .. Cardinality(S))
  BY <1>2, <1>4 DEF Injection, IsInjective
<1>6. IsFiniteSet(1 .. Cardinality(S)) /\ Cardinality(1 .. Cardinality(S)) = Cardinality(S)
  BY <1>1, FS_Interval
<1>7. f \in Surjection(S, 1 .. Cardinality(S))
  BY <1>5, <1>6, FS_Injection
<1>8. \A r \in 1 .. Cardinality(S) : \E i \in S : Rank(S, i) = r
  BY <1>7 DEF Surjection
<1>9. \A r \in 1 .. Cardinality(S) : Nth(S, r) \in S /\ Rank(S, Nth(S, r)) = r
  BY <1>8 DEF Nth, Rank
<1> QED  BY <1>1, <1>2, <1>4, <1>9

\* Nothing is erased from a vector of which all is kept.
LEMMA Identity ==
    ASSUME NEW n \in Nat
    PROVE  Cardinality(1 .. n) = n /\ \A r \in 1 .. n : Nth(1 .. n, r) = r
<1>1. \A m \in Nat : Cardinality(1 .. m) = m
  BY FS_Interval
<1>2. ASSUME NEW i \in 1 .. n PROVE Rank(1 .. n, i) = i
  <2>1. {k \in 1 .. n : k <= i} = 1 .. i
    OBVIOUS
  <2>2. Cardinality(1 .. i) = i
    BY <1>1
  <2> QED  BY <2>1, <2>2 DEF Rank
<1>3. \A i \in 1 .. n : Nth(1 .. n, Rank(1 .. n, i)) = i
  BY Ranks
<1> QED  BY <1>1, <1>2, <1>3

LEMMA KeepAll ==
    ASSUME NEW T, NEW s \in Seq(T)
    PROVE  Keep(s, DOMAIN s) = s
<1>1. Len(s) \in Nat /\ DOMAIN s = 1 .. Len(s)
  OBVIOUS
<1> QED  BY <1>1, Identity DEF Keep

\* Keep yields a vector of the elements that are kept.
LEMMA KeepType ==
    ASSUME NEW T, NEW s \in Seq(T), NEW S \in SUBSET DOMAIN s
    PROVE  /\ Keep(s, S) \in Seq(T)
           /\ Len(Keep(s, S)) = Cardinality(S)
           /\ DOMAIN Keep(s, S) = 1 .. Cardinality(S)
           /\ Cardinality(S) \in Nat
<1>1. Len(s) \in Nat /\ DOMAIN s = 1 .. Len(s)
  OBVIOUS
<1>2. Cardinality(S) \in Nat /\ \A r \in 1 .. Cardinality(S) : Nth(S, r) \in S
  BY <1>1, Ranks
<1>3. \A r \in 1 .. Cardinality(S) : s[Nth(S, r)] \in T
  BY <1>2
<1>4. Keep(s, S) \in [1 .. Cardinality(S) -> T]
  BY <1>3 DEF Keep
<1> QED  BY <1>2, <1>4

\* Two aligned vectors that list no id twice.
Aligned(ps, ts) ==
    /\ ps \in Seq(Peer) /\ ts \in Seq(Ages)
    /\ Len(ps) = Len(ts)
    /\ \A i, j \in DOMAIN ps : ps[i].id = ps[j].id => i = j

\* Erasing the same indices from both vectors keeps them aligned, and leaves the
\* entries of the other indices.
LEMMA KeepEntries ==
    ASSUME NEW ps, NEW ts, Aligned(ps, ts), NEW S \in SUBSET DOMAIN ps
    PROVE  /\ Aligned(Keep(ps, S), Keep(ts, S))
           /\ Entries(Keep(ps, S), Keep(ts, S))
                 = {[id |-> ps[i].id, ip |-> ps[i].ip, age |-> ts[i]] : i \in S}
<1> DEFINE qs == Keep(ps, S)
           us == Keep(ts, S)
<1>1. DOMAIN ps = DOMAIN ts /\ DOMAIN ps = 1 .. Len(ps) /\ Len(ps) \in Nat
  BY DEF Aligned
<1>2. /\ Cardinality(S) \in Nat
      /\ \A i \in S : Rank(S, i) \in 1 .. Cardinality(S) /\ Nth(S, Rank(S, i)) = i
      /\ \A r \in 1 .. Cardinality(S) : Nth(S, r) \in S /\ Rank(S, Nth(S, r)) = r
  BY <1>1, Ranks
<1>3. /\ qs \in Seq(Peer) /\ us \in Seq(Ages) /\ Len(qs) = Len(us)
      /\ DOMAIN qs = 1 .. Cardinality(S)
  BY <1>1, KeepType DEF Aligned
<1>4. \A r \in 1 .. Cardinality(S) : qs[r] = ps[Nth(S, r)] /\ us[r] = ts[Nth(S, r)]
  BY DEF Keep
<1>5. \A r, t \in 1 .. Cardinality(S) : qs[r].id = qs[t].id => r = t
  <2> SUFFICES ASSUME NEW r \in 1 .. Cardinality(S), NEW t \in 1 .. Cardinality(S),
                      qs[r].id = qs[t].id
               PROVE  r = t
    OBVIOUS
  <2>1. ps[Nth(S, r)].id = ps[Nth(S, t)].id
    BY <1>4
  <2>2. Nth(S, r) = Nth(S, t)
    BY <1>2, <2>1 DEF Aligned
  <2> QED  BY <1>2, <2>2
<1>6. Entries(qs, us) = {[id |-> ps[i].id, ip |-> ps[i].ip, age |-> ts[i]] : i \in S}
  <2> DEFINE entry(i) == [id |-> ps[i].id, ip |-> ps[i].ip, age |-> ts[i]]
  <2>1. Entries(qs, us) = {entry(Nth(S, r)) : r \in 1 .. Cardinality(S)}
    BY <1>3, <1>4 DEF Entries
  <2> HIDE DEF entry
  <2>2. {entry(Nth(S, r)) : r \in 1 .. Cardinality(S)} = {entry(i) : i \in S}
    BY <1>2
  <2> QED  BY <2>1, <2>2 DEF entry
<1> QED  BY <1>3, <1>5, <1>6 DEF Aligned

\* The ages that remove_stale_peers drops are those Membership calls overdue.
LEMMA StaleRemoved ==
    ASSUME NEW ps, NEW ts, Aligned(ps, ts)
    PROVE  /\ Aligned(remove_stale_peers(ps, ts).ps, remove_stale_peers(ps, ts).ts)
           /\ Entries(remove_stale_peers(ps, ts).ps, remove_stale_peers(ps, ts).ts)
                 = M!Present(Entries(ps, ts))
<1> DEFINE stale == {i \in DOMAIN ps \cap DOMAIN ts : Exceeds(ts[i], Stale)}
           S == DOMAIN ps \ stale
           entry(i) == [id |-> ps[i].id, ip |-> ps[i].ip, age |-> ts[i]]
<1>1. DOMAIN ps = DOMAIN ts
  BY DEF Aligned
<1>2. S \in SUBSET DOMAIN ps
  OBVIOUS
<1>3. remove_stale_peers(ps, ts) = [ps |-> Keep(ps, S), ts |-> Keep(ts, S)]
  BY <1>1 DEF remove_stale_peers
<1>4. S = {i \in DOMAIN ps : ~ Exceeds(ts[i], Stale)}
  BY <1>1
<1>5. {entry(i) : i \in S} = M!Present({entry(i) : i \in DOMAIN ps})
  <2>1. \A i \in DOMAIN ps : M!Overdue(entry(i)) <=> Exceeds(ts[i], Stale)
    BY DEF M!Overdue, Exceeds
  <2> HIDE DEF entry
  <2> QED  BY <1>4, <2>1 DEF M!Present
<1>6. Entries(ps, ts) = {entry(i) : i \in DOMAIN ps}
  BY DEF Entries
<1>7. /\ Aligned(Keep(ps, S), Keep(ts, S))
      /\ Entries(Keep(ps, S), Keep(ts, S)) = {entry(i) : i \in S}
  BY <1>2, KeepEntries
<1> HIDE DEF S, entry
<1> QED  BY <1>3, <1>5, <1>6, <1>7

\* In aligned vectors find_if finds the only index of an id, or none.
LEMMA Found ==
    ASSUME NEW ps, NEW ts, Aligned(ps, ts), NEW id
    PROVE  Find(ps, id) = {i \in DOMAIN ps : ps[i].id = id}
<1>1. DOMAIN ps = 1 .. Len(ps) /\ Len(ps) \in Nat
  BY DEF Aligned
<1>2. \A i \in DOMAIN ps : \A j \in 1 .. i - 1 : j \in DOMAIN ps /\ j # i
  BY <1>1
<1> QED  BY <1>2 DEF Find, Aligned

\* remove_peer_by_device_id drops the entry of that id.
LEMMA PeerRemoved ==
    ASSUME NEW ps, NEW ts, Aligned(ps, ts), NEW id
    PROVE  LET R == remove_peer_by_device_id(ps, ts, id)
           IN  /\ Aligned(R.ps, R.ts)
               /\ Entries(R.ps, R.ts) = {m \in Entries(ps, ts) : m.id # id}
               /\ Find(ps, id) = {} => R.ps = ps /\ R.ts = ts
<1> DEFINE S == DOMAIN ps \ Find(ps, id)
           entry(i) == [id |-> ps[i].id, ip |-> ps[i].ip, age |-> ts[i]]
<1>1. DOMAIN ps = DOMAIN ts
  BY DEF Aligned
<1>2. S \in SUBSET DOMAIN ps
  OBVIOUS
<1>3. remove_peer_by_device_id(ps, ts, id) = [ps |-> Keep(ps, S), ts |-> Keep(ts, S)]
  BY <1>1 DEF remove_peer_by_device_id
<1>4. /\ Aligned(Keep(ps, S), Keep(ts, S))
      /\ Entries(Keep(ps, S), Keep(ts, S)) = {entry(i) : i \in S}
  BY <1>2, KeepEntries
<1>5. S = {i \in DOMAIN ps : ps[i].id # id}
  BY Found
<1>6. {entry(i) : i \in S} = {m \in {entry(i) : i \in DOMAIN ps} : m.id # id}
  <2>1. \A i \in DOMAIN ps : entry(i).id = ps[i].id
    OBVIOUS
  <2> HIDE DEF entry
  <2> QED  BY <1>5, <2>1
<1>7. Entries(ps, ts) = {entry(i) : i \in DOMAIN ps}
  BY DEF Entries
<1>8. Find(ps, id) = {} => Keep(ps, S) = ps /\ Keep(ts, S) = ts
  BY <1>1, KeepAll DEF Aligned
<1> HIDE DEF S, entry
<1> QED  BY <1>3, <1>4, <1>6, <1>7, <1>8

\* update_peer_state replaces or adds the peer's entry with a new age, and drops
\* what is stale.
LEMMA PeerUpdated ==
    ASSUME NEW ps, NEW ts, Aligned(ps, ts), NEW p \in Peer
    PROVE  LET R == update_peer_state(ps, ts, p)
           IN  /\ Aligned(R.ps, R.ts)
               /\ Entries(R.ps, R.ts)
                     = M!Present({m \in Entries(ps, ts) : m.id # p.id}
                                   \cup {[id |-> p.id, ip |-> p.ip, age |-> 0]})
<1> DEFINE known == Find(ps, p.id)
           qs == IF known = {} THEN Append(ps, p)
                 ELSE [i \in DOMAIN ps |-> IF i \in known THEN p ELSE ps[i]]
           us == IF known = {} THEN Append(ts, 0)
                 ELSE [i \in DOMAIN ts |-> IF i \in known THEN 0 ELSE ts[i]]
           entry(i) == [id |-> ps[i].id, ip |-> ps[i].ip, age |-> ts[i]]
           new == [id |-> p.id, ip |-> p.ip, age |-> 0]
<1>1. /\ DOMAIN ps = DOMAIN ts /\ DOMAIN ps = 1 .. Len(ps) /\ Len(ps) \in Nat
      /\ ps \in Seq(Peer) /\ ts \in Seq(Ages) /\ 0 \in Ages
  BY DEF Aligned, Ages
<1>2. known = {i \in DOMAIN ps : ps[i].id = p.id}
  BY Found
<1>3. update_peer_state(ps, ts, p) = remove_stale_peers(qs, us)
  BY DEF update_peer_state
<1>4. CASE known = {}
  <2>1. /\ qs = Append(ps, p) /\ us = Append(ts, 0)
        /\ qs \in Seq(Peer) /\ us \in Seq(Ages) /\ Len(qs) = Len(us)
        /\ Len(qs) = Len(ps) + 1 /\ DOMAIN qs = 1 .. Len(ps) + 1
        /\ qs[Len(ps) + 1] = p /\ us[Len(ps) + 1] = 0
        /\ \A i \in DOMAIN ps : qs[i] = ps[i] /\ us[i] = ts[i]
    BY <1>1, <1>4 DEF Aligned
  <2>2. \A i \in DOMAIN ps : ps[i].id # p.id
    BY <1>2, <1>4
  <2>3. DOMAIN qs = DOMAIN ps \cup {Len(ps) + 1}
    <3>1. \A l \in Nat : 1 .. l + 1 = (1 .. l) \cup {l + 1}
      OBVIOUS
    <3> QED  BY <1>1, <2>1, <3>1
  <2> HIDE DEF qs, us
  <2>4. \A i, j \in DOMAIN qs : qs[i].id = qs[j].id => i = j
    BY <2>1, <2>2, <2>3 DEF Aligned
  <2>5. Aligned(qs, us)
    BY <2>1, <2>4 DEF Aligned
  <2>6. Entries(qs, us) = {entry(i) : i \in DOMAIN ps} \cup {new}
    BY <2>1, <2>3 DEF Entries
  <2>7. {m \in Entries(ps, ts) : m.id # p.id} = {entry(i) : i \in DOMAIN ps}
    <3>1. \A i \in DOMAIN ps : entry(i).id # p.id
      BY <2>2
    <3>2. Entries(ps, ts) = {entry(i) : i \in DOMAIN ps}
      BY DEF Entries
    <3> HIDE DEF entry
    <3> QED  BY <3>1, <3>2
  <2> QED  BY <1>3, <2>5, <2>6, <2>7, StaleRemoved
<1>5. CASE known # {}
  <2>1. PICK k \in DOMAIN ps : known = {k} /\ ps[k].id = p.id
    BY <1>2, <1>5 DEF Aligned
  <2>2. /\ qs = [i \in DOMAIN ps |-> IF i = k THEN p ELSE ps[i]]
        /\ us = [i \in DOMAIN ps |-> IF i = k THEN 0 ELSE ts[i]]
    BY <1>1, <1>5, <2>1
  <2> HIDE DEF qs, us
  <2>3. /\ qs \in Seq(Peer) /\ us \in Seq(Ages) /\ Len(qs) = Len(us)
        /\ DOMAIN qs = DOMAIN ps
    <3> DEFINE n == Len(ps)
    <3>1. n \in Nat /\ DOMAIN ps = 1 .. n /\ Len(ts) = n
      BY <1>1 DEF Aligned
    <3> HIDE DEF n
    <3>2. \A i \in 1 .. n : ps[i] \in Peer /\ ts[i] \in Ages
      BY <1>1, <3>1
    <3>3. qs \in [1 .. n -> Peer]
      BY <2>2, <3>1, <3>2
    <3>4. us \in [1 .. n -> Ages]
      BY <1>1, <2>2, <3>1, <3>2
    <3>5. qs \in Seq(Peer) /\ Len(qs) = n /\ DOMAIN qs = 1 .. n
      BY <3>1, <3>3
    <3>6. us \in Seq(Ages) /\ Len(us) = n
      BY <3>1, <3>4
    <3> QED  BY <3>1, <3>5, <3>6
  <2>4. \A i \in DOMAIN ps : qs[i].id = ps[i].id
    BY <2>1, <2>2
  <2>5. Aligned(qs, us)
    BY <2>3, <2>4 DEF Aligned
  <2> DEFINE fresh(i) == [id |-> qs[i].id, ip |-> qs[i].ip, age |-> us[i]]
  <2>6. Entries(qs, us) = {fresh(i) : i \in DOMAIN ps}
    BY <2>3 DEF Entries
  <2>7. fresh(k) = new /\ \A i \in DOMAIN ps \ {k} : fresh(i) = entry(i)
    BY <2>1, <2>2
  <2>8. \A i \in DOMAIN ps : entry(i).id = p.id <=> i = k
    BY <2>1 DEF Aligned
  <2>9. Entries(ps, ts) = {entry(i) : i \in DOMAIN ps}
    BY DEF Entries
  <2> HIDE DEF fresh, entry, new
  <2>10. Entries(qs, us) = {m \in Entries(ps, ts) : m.id # p.id} \cup {new}
    BY <2>6, <2>7, <2>8, <2>9
  <2> QED  BY <1>3, <2>5, <2>10, StaleRemoved DEF new
<1> QED  BY <1>4, <1>5

------------------------------------------------------------------------------
Known(n) == Entries(peers[n], seen[n])

\* What holds of one device between two actions.
Recorded(n) ==
    /\ running[n] =>
          /\ device_id[n] \in Ids
          /\ candidates[n] = CandidatesOf(peers[n])
          /\ \A e \in Known(n) : e.id # device_id[n]
    /\ ~ running[n] => /\ peers[n] = <<>> /\ seen[n] = <<>>
                       /\ \A i \in Ids : heard[n][i] = Unheard
    /\ last[n] >= - clock_steps
    /\ \A e \in Known(n) : e.age >= - clock_steps
    /\ clock_steps = 0 =>
          /\ \A e \in Known(n) : /\ e.age = heard[n][e.id]
                                 /\ e.age <= Stale => e.ip = heard_from[n][e.id]
          /\ \A i \in Ids : heard[n][i] <= Stale => \E e \in Known(n) : e.id = i
          /\ running[n] /\ updated[n] => \A e \in Known(n) : e.age <= Stale

IInv ==
    /\ TypeOK
    /\ \A n \in Nodes : Aligned(peers[n], seen[n]) /\ Recorded(n)

LEMMA EntryTypes ==
    ASSUME NEW ps, NEW ts, Aligned(ps, ts)
    PROVE  /\ \A m \in Entries(ps, ts) : m.id \in Ids /\ m.ip \in Nodes /\ m.age \in Ages
           /\ \A m \in Entries(ps, ts) : m = [id |-> m.id, ip |-> m.ip, age |-> m.age]
           /\ \A m, k \in Entries(ps, ts) : m.id = k.id => m = k
<1>1. DOMAIN ps = DOMAIN ts /\ \A i \in DOMAIN ps : ps[i] \in Peer /\ ts[i] \in Ages
  BY DEF Aligned
<1> QED  BY <1>1 DEF Entries, Peer, Aligned

LEMMA NothingKnown ==
    /\ Aligned(<<>>, <<>>) /\ Entries(<<>>, <<>>) = {}
    /\ CandidatesOf(<<>>) = <<>>
<1>1. Aligned(<<>>, <<>>)
  BY DEF Aligned
<1>2. Entries(<<>>, <<>>) = {}
  BY DEF Entries
<1>3. CandidatesOf(<<>>) = <<>>
  BY DEF CandidatesOf
<1> QED  BY <1>1, <1>2, <1>3

LEMMA CandidatesType ==
    ASSUME NEW ps \in Seq(Peer)
    PROVE  /\ CandidatesOf(ps) \in Seq(Nodes)
           /\ DOMAIN CandidatesOf(ps) = DOMAIN ps
           /\ \A i \in DOMAIN ps : CandidatesOf(ps)[i] = ps[i].ip
<1>1. Len(ps) \in Nat /\ DOMAIN ps = 1 .. Len(ps)
  OBVIOUS
<1>2. \A i \in 1 .. Len(ps) : ps[i].ip \in Nodes
  <2>1. \A i \in 1 .. Len(ps) : ps[i] \in Peer
    BY <1>1
  <2> QED  BY <2>1 DEF Peer
<1>3. CandidatesOf(ps) \in [1 .. Len(ps) -> Nodes]
  BY <1>1, <1>2 DEF CandidatesOf
<1> QED  BY <1>1, <1>3 DEF CandidatesOf

\* A broadcast only puts messages into sockets.
LEMMA BroadcastType ==
    ASSUME NEW boxes \in [Nodes -> SUBSET Message], NEW n \in Nodes, NEW id \in Ids,
           NEW state \in {"idle", "gone"}, Broadcast(boxes, n, id, state)
    PROVE  inbox' \in [Nodes -> SUBSET Message]
<1>1. [id |-> id, ip |-> n, state |-> state] \in Message
  BY DEF Message
<1> QED  BY <1>1 DEF Broadcast

\* A device that a step does not touch stays as it was, a clock set back or not.
LEMMA Untouched ==
    ASSUME IInv, NEW n \in Nodes, clock_steps' \in Nat, clock_steps <= clock_steps',
           running'[n] = running[n], device_id'[n] = device_id[n],
           peers'[n] = peers[n], seen'[n] = seen[n], last'[n] = last[n],
           candidates'[n] = candidates[n], updated'[n] = updated[n],
           heard'[n] = heard[n], heard_from'[n] = heard_from[n]
    PROVE  Aligned(peers[n], seen[n])' /\ Recorded(n)'
<1>1. Aligned(peers[n], seen[n]) /\ Recorded(n) /\ clock_steps \in Nat /\ last[n] \in Int
  BY DEF IInv, TypeOK, Ages, Never
<1>2. Known(n)' = Known(n)
  BY DEF Known
<1>3. \A m \in Known(n) : m.age \in Int
  BY <1>1, EntryTypes DEF Known, Ages
<1>4. clock_steps' = 0 => clock_steps = 0
  BY <1>1
<1>5. \A a \in Int : a >= - clock_steps => a >= - clock_steps'
  <2>1. \A a \in Int, c, d \in Nat : a >= - c /\ c <= d => a >= - d
    OBVIOUS
  <2> QED  BY <1>1, <2>1
<1>6. Aligned(peers[n], seen[n])'
  BY <1>1
<1>7. Recorded(n)'
  BY <1>1, <1>2, <1>3, <1>4, <1>5 DEF Recorded
<1> QED  BY <1>6, <1>7

LEMMA Initially == Init => IInv
<1> SUFFICES ASSUME Init PROVE IInv
  OBVIOUS
<1>1. TypeOK
  BY DEF Init, TypeOK, Never, Unheard, Ids
<1>2. \A n \in Nodes : peers[n] = <<>> /\ seen[n] = <<>> /\ ~ running[n] /\ last[n] = Never
  BY DEF Init
<1>3. \A n \in Nodes : Aligned(peers[n], seen[n]) /\ Known(n) = {}
  BY <1>2, NothingKnown DEF Known
<1>4. \A n \in Nodes : Recorded(n)
  BY <1>2, <1>3 DEF Init, Recorded, Never, Unheard
<1> QED  BY <1>1, <1>3, <1>4 DEF IInv

------------------------------------------------------------------------------
\* Every action leaves the rows of the other devices alone.
Others(n) == \A k \in Nodes \ {n} :
    /\ running'[k] = running[k] /\ device_id'[k] = device_id[k]
    /\ peers'[k] = peers[k] /\ seen'[k] = seen[k] /\ last'[k] = last[k]
    /\ candidates'[k] = candidates[k] /\ updated'[k] = updated[k]
    /\ heard'[k] = heard[k] /\ heard_from'[k] = heard_from[k]

\* So a step of a device keeps the invariant if it keeps the types and that
\* device's row.
LEMMA RowStep ==
    ASSUME IInv, NEW n \in Nodes, Others(n), clock_steps <= clock_steps',
           TypeOK', Aligned(peers[n], seen[n])', Recorded(n)'
    PROVE  IInv'
<1>1. clock_steps' \in Nat
  BY DEF TypeOK
<1>2. \A k \in Nodes \ {n} : Aligned(peers[k], seen[k])' /\ Recorded(k)'
  BY <1>1, Untouched DEF Others
<1> QED  BY <1>2 DEF IInv

\* A member that is not overdue has an age within the timeout.
LEMMA PresentAges ==
    ASSUME NEW S, \A m \in S : m.age \in Int
    PROVE  \A m : m \in M!Present(S) <=> m \in S /\ 0 <= m.age /\ m.age <= Stale
BY DEF M!Present, M!Overdue

\* The types of what one row holds, and of a row that is replaced.
LEMMA RowTypes ==
    ASSUME IInv, NEW n \in Nodes
    PROVE  /\ Aligned(peers[n], seen[n]) /\ Recorded(n)
           /\ clock_steps \in Nat /\ last[n] \in Int
           /\ \A i \in Ids : heard[n][i] \in 0 .. Unheard
           /\ \A m \in Known(n) : m.id \in Ids /\ m.ip \in Nodes /\ m.age \in Int
           /\ \A m \in inbox[n] : m.id \in Ids /\ m.ip \in Nodes
           /\ inbox \in [Nodes -> SUBSET Message]
           /\ 0 \in Ages
<1>1. Aligned(peers[n], seen[n]) /\ Recorded(n) /\ TypeOK
  BY DEF IInv
<1>2. clock_steps \in Nat /\ last[n] \in Int /\ 0 \in Ages
  BY <1>1 DEF TypeOK, Ages, Never
<1>3. \A i \in Ids : heard[n][i] \in 0 .. Unheard
  BY <1>1 DEF TypeOK
<1>4. \A m \in Known(n) : m.id \in Ids /\ m.ip \in Nodes /\ m.age \in Int
  <2>1. \A a \in Ages : a \in Int
    BY DEF Ages
  <2> QED  BY <1>1, <2>1, EntryTypes DEF Known
<1>5. inbox \in [Nodes -> SUBSET Message] /\ \A m \in inbox[n] : m \in Message
  BY <1>1 DEF TypeOK
<1>6. \A m \in Message : m.id \in Ids /\ m.ip \in Nodes
  BY DEF Message
<1> QED  BY <1>1, <1>2, <1>3, <1>4, <1>5, <1>6

\* The vectors and the candidates keep their types when one row of them changes.
LEMMA VectorTypes ==
    ASSUME IInv, NEW n \in Nodes, NEW ps, NEW ts, Aligned(ps, ts),
           peers' = [peers EXCEPT ![n] = ps], seen' = [seen EXCEPT ![n] = ts],
           \/ candidates' = candidates
           \/ candidates' = [candidates EXCEPT ![n] = CandidatesOf(ps)]
    PROVE  /\ peers' \in [Nodes -> Seq(Peer)] /\ seen' \in [Nodes -> Seq(Ages)]
           /\ candidates' \in [Nodes -> Seq(Nodes)]
<1>1. /\ peers \in [Nodes -> Seq(Peer)] /\ seen \in [Nodes -> Seq(Ages)]
      /\ candidates \in [Nodes -> Seq(Nodes)]
  BY DEF IInv, TypeOK
<1>2. ps \in Seq(Peer) /\ ts \in Seq(Ages)
  BY DEF Aligned
<1>3. CandidatesOf(ps) \in Seq(Nodes)
  BY <1>2, CandidatesType
<1> QED
  BY <1>1, <1>2, <1>3

LEMMA StartKeeps ==
    ASSUME IInv, NEW n \in Nodes, Start(n)
    PROVE  IInv'
<1>1. /\ TypeOK /\ Aligned(peers[n], seen[n]) /\ Recorded(n)
      /\ ~ running[n] /\ peers[n] = <<>> /\ seen[n] = <<>>
  BY RowTypes DEF IInv, Recorded, Start
<1>2. PICK id \in recent \cup {starts'} :
          /\ recent' = recent \cup {id}
          /\ device_id' = [device_id EXCEPT ![n] = id]
          /\ Broadcast([inbox EXCEPT ![n] = {}], n, id, "idle")
  BY DEF Start
<1>3. /\ starts < MaxStarts /\ starts' = starts + 1
      /\ running' = [running EXCEPT ![n] = TRUE]
      /\ last' = [last EXCEPT ![n] = 0]
      /\ candidates' = [candidates EXCEPT ![n] = <<>>]
      /\ updated' = [updated EXCEPT ![n] = FALSE]
      /\ heard' = [heard EXCEPT ![n] = [i \in Ids |-> Unheard]]
      /\ heard_from' = [heard_from EXCEPT ![n] = [i \in Ids |-> n]]
      /\ peers' = peers /\ seen' = seen /\ clock_steps' = clock_steps
  BY DEF Start, Nothing
<1>4. starts' \in 1 .. MaxStarts /\ recent \in SUBSET Ids
  <2>1. starts \in 0 .. MaxStarts /\ recent \in SUBSET Ids
    BY <1>1 DEF TypeOK
  <2> QED  BY <1>3, <2>1
<1>5. id \in Ids
  BY <1>4 DEF Ids
<1>6. inbox' \in [Nodes -> SUBSET Message]
  <2>1. [inbox EXCEPT ![n] = {}] \in [Nodes -> SUBSET Message]
    BY RowTypes
  <2> QED  BY <1>2, <1>5, <2>1, BroadcastType
<1>7. TypeOK'
  <2>1. recent' \in SUBSET Ids /\ device_id' \in [Nodes -> 0 .. MaxStarts]
    <3>1. id \in 0 .. MaxStarts
      BY <1>5 DEF Ids
    <3> QED  BY <1>1, <1>2, <1>4, <1>5, <3>1 DEF TypeOK
  <2>2. last' \in [Nodes -> Ages \cup {Never}]
    BY <1>1, <1>3, RowTypes DEF TypeOK
  <2>3. running' \in [Nodes -> BOOLEAN] /\ updated' \in [Nodes -> BOOLEAN]
    BY <1>1, <1>3 DEF TypeOK
  <2>4. candidates' \in [Nodes -> Seq(Nodes)]
    <3>1. <<>> \in Seq(Nodes)
      OBVIOUS
    <3> QED  BY <1>1, <1>3, <3>1 DEF TypeOK
  <2>5. heard' \in [Nodes -> [Ids -> 0 .. Unheard]]
    <3>1. Unheard \in 0 .. Unheard
      BY DEF Unheard
    <3> QED  BY <1>1, <1>3, <3>1 DEF TypeOK
  <2>6. heard_from' \in [Nodes -> [Ids -> Nodes]]
    BY <1>1, <1>3 DEF TypeOK
  <2>7. starts' \in 0 .. MaxStarts
    BY <1>4
  <2>8. /\ peers' \in [Nodes -> Seq(Peer)] /\ seen' \in [Nodes -> Seq(Ages)]
        /\ clock_steps' \in 0 .. MaxSteps
    BY <1>1, <1>3 DEF TypeOK
  <2> QED  BY <1>6, <2>1, <2>2, <2>3, <2>4, <2>5, <2>6, <2>7, <2>8 DEF TypeOK
<1>8. Others(n)
  BY <1>1, <1>2, <1>3 DEF Others, TypeOK
<1>9. Aligned(peers[n], seen[n])' /\ Known(n)' = {} /\ peers'[n] = <<>>
  BY <1>1, <1>3, NothingKnown DEF Known
<1>10. Recorded(n)'
  <2>1. running'[n] /\ device_id'[n] = id /\ last'[n] = 0 /\ candidates'[n] = <<>>
        /\ ~ updated'[n]
    BY <1>1, <1>2, <1>3 DEF TypeOK
  <2>2. \A i \in Ids : heard'[n][i] = Unheard
    BY <1>1, <1>3 DEF TypeOK
  <2>3. 0 >= - clock_steps' /\ ~ (Unheard <= Stale)
    <3>1. clock_steps' = clock_steps /\ clock_steps \in Nat
      BY <1>3, RowTypes
    <3>2. 0 >= - clock_steps
      BY <3>1
    <3> QED  BY <3>1, <3>2 DEF Unheard
  <2>4. CandidatesOf(peers'[n]) = <<>>
    BY <1>9, NothingKnown
  <2> QED  BY <1>5, <1>9, <2>1, <2>2, <2>3, <2>4 DEF Recorded
<1>11. clock_steps <= clock_steps'
  BY <1>3, RowTypes
<1> QED  BY <1>7, <1>8, <1>9, <1>10, <1>11, RowStep

LEMMA HearIdleKeeps ==
    ASSUME IInv, NEW n \in Nodes, HearIdle(n)
    PROVE  IInv'
<1>1. TypeOK /\ Aligned(peers[n], seen[n]) /\ Recorded(n)
  BY DEF IInv
<1>2. PICK m \in inbox[n] :
          /\ m.state = "idle" /\ m.id # device_id[n]
          /\ LET known == update_peer_state(peers[n], seen[n], [id |-> m.id, ip |-> m.ip])
                 rest == [inbox EXCEPT ![n] = @ \ {m}]
             IN  /\ peers' = [peers EXCEPT ![n] = known.ps]
                 /\ seen' = [seen EXCEPT ![n] = known.ts]
                 /\ candidates' = [candidates EXCEPT ![n] = CandidatesOf(known.ps)]
                 /\ IF Find(peers[n], m.id) = {}
                    THEN /\ Broadcast(rest, n, device_id[n], "idle")
                         /\ last' = [last EXCEPT ![n] = 0]
                    ELSE inbox' = rest /\ UNCHANGED last
          /\ heard' = [heard EXCEPT ![n][m.id] = 0]
          /\ heard_from' = [heard_from EXCEPT ![n][m.id] = m.ip]
  BY DEF HearIdle
<1>3. /\ running[n] /\ starts' = starts /\ recent' = recent /\ device_id' = device_id
      /\ running' = running /\ updated' = updated /\ clock_steps' = clock_steps
  BY DEF HearIdle, programs
<1> DEFINE p == [id |-> m.id, ip |-> m.ip]
           R == update_peer_state(peers[n], seen[n], p)
           rest == [inbox EXCEPT ![n] = @ \ {m}]
           new == [id |-> m.id, ip |-> m.ip, age |-> 0]
           others == {k \in Known(n) : k.id # m.id}
<1>4. m.id \in Ids /\ m.ip \in Nodes /\ p \in Peer /\ device_id[n] \in Ids
  BY <1>1, <1>3, RowTypes DEF Peer, Recorded
<1>5. Aligned(R.ps, R.ts) /\ Entries(R.ps, R.ts) = M!Present(others \cup {new})
  BY <1>1, <1>4, PeerUpdated DEF Known
<1>6. /\ peers' = [peers EXCEPT ![n] = R.ps] /\ seen' = [seen EXCEPT ![n] = R.ts]
      /\ candidates' = [candidates EXCEPT ![n] = CandidatesOf(R.ps)]
  BY <1>2
<1>7. /\ inbox' \in [Nodes -> SUBSET Message]
      /\ last' \in [Nodes -> Ages \cup {Never}] /\ last'[n] >= - clock_steps
      /\ \A k \in Nodes \ {n} : last'[k] = last[k]
  <2>1. rest \in [Nodes -> SUBSET Message]
    BY RowTypes
  <2>2. 0 \in Ages \cup {Never} /\ 0 >= - clock_steps
    BY RowTypes
  <2>3. CASE Find(peers[n], m.id) = {}
    <3>1. Broadcast(rest, n, device_id[n], "idle") /\ last' = [last EXCEPT ![n] = 0]
      BY <1>2, <2>3
    <3> QED  BY <1>1, <1>4, <2>1, <2>2, <3>1, BroadcastType DEF TypeOK
  <2>4. CASE Find(peers[n], m.id) # {}
    <3>1. inbox' = rest /\ last' = last
      BY <1>2, <2>4
    <3> QED  BY <1>1, <2>1, <3>1 DEF TypeOK, Recorded
  <2> QED  BY <2>3, <2>4
<1> HIDE DEF R, rest, p
<1>8. /\ peers'[n] = R.ps /\ seen'[n] = R.ts /\ candidates'[n] = CandidatesOf(R.ps)
      /\ \A i \in Ids : heard'[n][i] = IF i = m.id THEN 0 ELSE heard[n][i]
      /\ \A i \in Ids : heard_from'[n][i] = IF i = m.id THEN m.ip ELSE heard_from[n][i]
  <2>1. /\ peers'[n] = R.ps /\ seen'[n] = R.ts /\ candidates'[n] = CandidatesOf(R.ps)
    BY <1>1, <1>6 DEF TypeOK
  <2>2. heard'[n] = [heard[n] EXCEPT ![m.id] = 0]
    BY <1>1, <1>2 DEF TypeOK
  <2>3. heard_from'[n] = [heard_from[n] EXCEPT ![m.id] = m.ip]
    BY <1>1, <1>2 DEF TypeOK
  <2>4. heard[n] \in [Ids -> 0 .. Unheard] /\ heard_from[n] \in [Ids -> Nodes]
    BY <1>1 DEF TypeOK
  <2> QED  BY <2>1, <2>2, <2>3, <2>4
<1>9. TypeOK'
  <2>1. 0 \in 0 .. Unheard
    BY DEF Unheard
  <2>2. heard' \in [Nodes -> [Ids -> 0 .. Unheard]]
    <3>1. [heard[n] EXCEPT ![m.id] = 0] \in [Ids -> 0 .. Unheard]
      BY <1>1, <2>1 DEF TypeOK
    <3> QED  BY <1>1, <1>2, <3>1 DEF TypeOK
  <2>3. heard_from' \in [Nodes -> [Ids -> Nodes]]
    <3>1. [heard_from[n] EXCEPT ![m.id] = m.ip] \in [Ids -> Nodes]
      BY <1>1, <1>4 DEF TypeOK
    <3> QED  BY <1>1, <1>2, <3>1 DEF TypeOK
  <2>4. /\ peers' \in [Nodes -> Seq(Peer)] /\ seen' \in [Nodes -> Seq(Ages)]
        /\ candidates' \in [Nodes -> Seq(Nodes)]
    BY <1>5, <1>6, VectorTypes
  <2> QED  BY <1>1, <1>3, <1>7, <2>2, <2>3, <2>4 DEF TypeOK
<1>10. Others(n)
  BY <1>1, <1>2, <1>3, <1>6, <1>7 DEF Others, TypeOK
<1>11. Aligned(peers[n], seen[n])' /\ Known(n)' = M!Present(others \cup {new})
  BY <1>5, <1>8 DEF Known
<1>12. Recorded(n)'
  <2>1. \A k \in others \cup {new} : k.age \in Int /\ k.id \in Ids
    BY <1>4, RowTypes
  <2>2. \A k : k \in Known(n)' <=> k \in others \cup {new} /\ 0 <= k.age /\ k.age <= Stale
    BY <1>11, <2>1, PresentAges
  <2>3. new \in Known(n)' /\ new.id = m.id /\ new.age = 0 /\ new.ip = m.ip
    BY <2>2
  <2>4. \A k \in Known(n)' : k.age >= 0 /\ k.age <= Stale /\ k.age >= - clock_steps
    BY <2>1, <2>2, RowTypes
  <2>5. \A k \in Known(n)' : k.id # device_id[n]
    BY <1>1, <1>2, <1>3, <2>2 DEF Recorded
  <2>6. ASSUME clock_steps = 0
        PROVE  /\ \A e \in Known(n)' : e.age = heard'[n][e.id]
               /\ \A e \in Known(n)' : e.age <= Stale => e.ip = heard_from'[n][e.id]
               /\ \A i \in Ids : heard'[n][i] <= Stale => \E k \in Known(n)' : k.id = i
    <3>1. \A k \in others : /\ k.age = heard'[n][k.id]
                            /\ k.age <= Stale => k.ip = heard_from'[n][k.id]
      BY <1>1, <1>8, <2>1, <2>6 DEF Recorded
    <3>2. new.age = heard'[n][new.id] /\ new.ip = heard_from'[n][new.id]
      BY <1>4, <1>8
    <3>3. ASSUME NEW i \in Ids, i # m.id, heard'[n][i] <= Stale
          PROVE  \E k \in Known(n)' : k.id = i
      <4>1. PICK k \in Known(n) : k.id = i
        BY <1>1, <1>8, <2>6, <3>3 DEF Recorded
      <4>2. k.age = heard[n][i] /\ 0 <= k.age /\ k.age <= Stale
        BY <1>1, <1>8, <2>6, <3>3, <4>1, RowTypes DEF Recorded
      <4>3. k \in others
        BY <3>3, <4>1
      <4> QED  BY <2>2, <4>1, <4>2, <4>3
    <3> QED  BY <2>2, <2>3, <3>1, <3>2, <3>3
  <2>7. candidates'[n] = CandidatesOf(peers'[n]) /\ running'[n] /\ device_id'[n] \in Ids
    BY <1>3, <1>4, <1>8
  <2>8. \A k \in Known(n)' : k.id # device_id'[n]
    BY <1>3, <2>5
  <2>9. last'[n] >= - clock_steps' /\ \A k \in Known(n)' : k.age >= - clock_steps'
    BY <1>3, <1>7, <2>4
  <2>10. clock_steps' = clock_steps
    BY <1>3
  <2> HIDE DEF new, others
  <2>11. ASSUME clock_steps' = 0
         PROVE  /\ \A e \in Known(n)' : e.age = heard'[n][e.id]
                /\ \A e \in Known(n)' : e.age <= Stale => e.ip = heard_from'[n][e.id]
                /\ \A i \in Ids : heard'[n][i] <= Stale => \E e \in Known(n)' : e.id = i
    BY <2>6, <2>10, <2>11
  <2>12. \A k \in Known(n)' : k.age <= Stale
    BY <2>4
  <2> HIDE DEF R, rest, p
  <2>13. (running[n] =>
            /\ device_id[n] \in Ids
            /\ candidates[n] = CandidatesOf(peers[n])
            /\ \A k \in Known(n) : k.id # device_id[n])'
    BY <2>7, <2>8
  <2>14. (~ running[n] => /\ peers[n] = <<>> /\ seen[n] = <<>>
                         /\ \A i \in Ids : heard[n][i] = Unheard)'
    BY <2>7
  <2>15. (/\ last[n] >= - clock_steps
          /\ \A k \in Known(n) : k.age >= - clock_steps)'
    BY <2>9
  <2>16. (clock_steps = 0 =>
            /\ \A e \in Known(n) : /\ e.age = heard[n][e.id]
                                   /\ e.age <= Stale => e.ip = heard_from[n][e.id]
            /\ \A i \in Ids : heard[n][i] <= Stale => \E e \in Known(n) : e.id = i
            /\ running[n] /\ updated[n] => \A e \in Known(n) : e.age <= Stale)'
    BY <2>11, <2>12
  <2> QED  BY <2>13, <2>14, <2>15, <2>16 DEF Recorded
<1>13. clock_steps <= clock_steps'
  BY <1>3, RowTypes
<1> QED  BY <1>9, <1>10, <1>11, <1>5, <1>8, <1>12, <1>13, RowStep

LEMMA HearGoneKeeps ==
    ASSUME IInv, NEW n \in Nodes, HearGone(n)
    PROVE  IInv'
<1>1. TypeOK /\ Aligned(peers[n], seen[n]) /\ Recorded(n)
  BY DEF IInv
<1>2. PICK m \in inbox[n] :
          /\ m.state = "gone" /\ m.id # device_id[n]
          /\ inbox' = [inbox EXCEPT ![n] = @ \ {m}]
          /\ LET known == remove_peer_by_device_id(peers[n], seen[n], m.id)
             IN  /\ peers' = [peers EXCEPT ![n] = known.ps]
                 /\ seen' = [seen EXCEPT ![n] = known.ts]
                 /\ candidates' = IF Find(peers[n], m.id) = {} THEN candidates
                       ELSE [candidates EXCEPT ![n] = CandidatesOf(known.ps)]
          /\ heard' = [heard EXCEPT ![n][m.id] = Unheard]
          /\ heard_from' = [heard_from EXCEPT ![n][m.id] = n]
  BY DEF HearGone
<1>3. /\ running[n] /\ starts' = starts /\ recent' = recent /\ device_id' = device_id
      /\ running' = running /\ last' = last /\ updated' = updated /\ clock_steps' = clock_steps
  BY DEF HearGone, programs
<1> DEFINE R == remove_peer_by_device_id(peers[n], seen[n], m.id)
           others == {k \in Known(n) : k.id # m.id}
<1>4. m.id \in Ids /\ device_id[n] \in Ids
  BY <1>1, <1>3, RowTypes DEF Recorded
<1>5. /\ Aligned(R.ps, R.ts) /\ Entries(R.ps, R.ts) = others
      /\ Find(peers[n], m.id) = {} => R.ps = peers[n]
  BY <1>1, PeerRemoved DEF Known
<1>6. peers' = [peers EXCEPT ![n] = R.ps] /\ seen' = [seen EXCEPT ![n] = R.ts]
  BY <1>2
<1>7. \/ candidates' = candidates /\ Find(peers[n], m.id) = {}
      \/ candidates' = [candidates EXCEPT ![n] = CandidatesOf(R.ps)]
  BY <1>2
<1> HIDE DEF R
<1>8. /\ peers'[n] = R.ps /\ seen'[n] = R.ts /\ candidates'[n] = CandidatesOf(R.ps)
      /\ \A i \in Ids : heard'[n][i] = IF i = m.id THEN Unheard ELSE heard[n][i]
      /\ \A i \in Ids : heard_from'[n][i] = IF i = m.id THEN n ELSE heard_from[n][i]
  <2>1. peers'[n] = R.ps /\ seen'[n] = R.ts
    BY <1>1, <1>6 DEF TypeOK
  <2>2. heard'[n] = [heard[n] EXCEPT ![m.id] = Unheard]
    BY <1>1, <1>2 DEF TypeOK
  <2>3. heard_from'[n] = [heard_from[n] EXCEPT ![m.id] = n]
    BY <1>1, <1>2 DEF TypeOK
  <2>4. heard[n] \in [Ids -> 0 .. Unheard] /\ heard_from[n] \in [Ids -> Nodes]
    BY <1>1 DEF TypeOK
  <2>5. candidates'[n] = CandidatesOf(R.ps)
    <3>1. candidates[n] = CandidatesOf(peers[n])
      BY <1>1, <1>3 DEF Recorded
    <3> QED  BY <1>1, <1>5, <1>7, <3>1 DEF TypeOK
  <2> QED  BY <2>1, <2>2, <2>3, <2>4, <2>5
<1>9. TypeOK'
  <2>1. Unheard \in 0 .. Unheard
    BY DEF Unheard
  <2>2. heard' \in [Nodes -> [Ids -> 0 .. Unheard]]
    <3>1. [heard[n] EXCEPT ![m.id] = Unheard] \in [Ids -> 0 .. Unheard]
      BY <1>1, <2>1 DEF TypeOK
    <3> QED  BY <1>1, <1>2, <3>1 DEF TypeOK
  <2>3. heard_from' \in [Nodes -> [Ids -> Nodes]]
    <3>1. [heard_from[n] EXCEPT ![m.id] = n] \in [Ids -> Nodes]
      BY <1>1, <1>4 DEF TypeOK
    <3> QED  BY <1>1, <1>2, <3>1 DEF TypeOK
  <2>4. /\ peers' \in [Nodes -> Seq(Peer)] /\ seen' \in [Nodes -> Seq(Ages)]
        /\ candidates' \in [Nodes -> Seq(Nodes)]
    BY <1>5, <1>6, <1>7, VectorTypes
  <2>5. inbox' \in [Nodes -> SUBSET Message]
    BY <1>2, RowTypes
  <2> QED  BY <1>1, <1>3, <2>2, <2>3, <2>4, <2>5 DEF TypeOK
<1>10. Others(n)
  BY <1>1, <1>2, <1>3, <1>6, <1>7 DEF Others, TypeOK
<1>11. Aligned(peers[n], seen[n])' /\ Known(n)' = others
  BY <1>5, <1>8 DEF Known
<1>12. Recorded(n)'
  <2>1. \A k \in others : k \in Known(n) /\ k.id # m.id /\ k.id \in Ids
    BY RowTypes
  <2>2. ASSUME clock_steps = 0
        PROVE  /\ \A k \in others : /\ k.age = heard'[n][k.id]
                                  /\ k.age <= Stale => k.ip = heard_from'[n][k.id]
               /\ \A i \in Ids : heard'[n][i] <= Stale => \E k \in others : k.id = i
    <3>1. \A k \in others : /\ k.age = heard'[n][k.id]
                            /\ k.age <= Stale => k.ip = heard_from'[n][k.id]
      BY <1>1, <1>8, <2>1, <2>2 DEF Recorded
    <3>2. ASSUME NEW i \in Ids, heard'[n][i] <= Stale
          PROVE  \E k \in others : k.id = i
      <4>1. i # m.id
        BY <1>8, <3>2 DEF Unheard
      <4>2. PICK k \in Known(n) : k.id = i
        BY <1>1, <1>8, <2>2, <3>2, <4>1 DEF Recorded
      <4> QED  BY <4>1, <4>2
    <3> QED  BY <3>1, <3>2
  <2> HIDE DEF others
  <2> QED  BY <1>1, <1>3, <1>4, <1>8, <1>11, <2>1, <2>2 DEF Recorded
<1>13. clock_steps <= clock_steps'
  BY <1>3, RowTypes
<1> QED  BY <1>9, <1>10, <1>11, <1>5, <1>8, <1>12, <1>13, RowStep

LEMMA IgnoreOwnKeeps ==
    ASSUME IInv, NEW n \in Nodes, IgnoreOwn(n)
    PROVE  IInv'
<1>1. PICK m \in inbox[n] : inbox' = [inbox EXCEPT ![n] = @ \ {m}]
  BY DEF IgnoreOwn
<1>2. inbox' \in [Nodes -> SUBSET Message]
  BY <1>1, RowTypes
<1>3. UNCHANGED <<programs, peers, seen, last, candidates, updated, clocks>>
  BY DEF IgnoreOwn
<1>4. TypeOK'
  BY <1>2, <1>3 DEF IInv, TypeOK, programs, clocks, histories
<1>5. \A k \in Nodes : Aligned(peers[k], seen[k])' /\ Recorded(k)'
  BY <1>3 DEF IInv, Recorded, Known, programs, clocks, histories
<1> QED  BY <1>4, <1>5 DEF IInv

LEMMA UpdateKeeps ==
    ASSUME IInv, NEW n \in Nodes, Update(n)
    PROVE  IInv'
<1>1. TypeOK /\ Aligned(peers[n], seen[n]) /\ Recorded(n)
  BY DEF IInv
<1> DEFINE R == remove_stale_peers(peers[n], seen[n])
<1>2. /\ running[n] /\ starts' = starts /\ recent' = recent /\ device_id' = device_id
      /\ running' = running /\ updated' = [updated EXCEPT ![n] = TRUE]
      /\ heard' = heard /\ heard_from' = heard_from /\ clock_steps' = clock_steps
      /\ peers' = [peers EXCEPT ![n] = R.ps] /\ seen' = [seen EXCEPT ![n] = R.ts]
      /\ candidates' = [candidates EXCEPT ![n] = CandidatesOf(R.ps)]
  BY DEF Update, programs, clocks, histories
<1>3. \/ last' = [last EXCEPT ![n] = 0] /\ Broadcast(inbox, n, device_id[n], "idle")
      \/ last' = last /\ inbox' = inbox
  BY DEF Update
<1>4. device_id[n] \in Ids
  BY <1>1, <1>2 DEF Recorded
<1>5. Aligned(R.ps, R.ts) /\ Entries(R.ps, R.ts) = M!Present(Known(n))
  BY <1>1, StaleRemoved DEF Known
<1> HIDE DEF R
<1>6. /\ inbox' \in [Nodes -> SUBSET Message]
      /\ last' \in [Nodes -> Ages \cup {Never}] /\ last'[n] >= - clock_steps
      /\ \A k \in Nodes \ {n} : last'[k] = last[k]
  <2>1. 0 \in Ages \cup {Never} /\ 0 >= - clock_steps
    BY RowTypes
  <2>2. inbox \in [Nodes -> SUBSET Message]
    BY RowTypes
  <2> QED  BY <1>1, <1>3, <1>4, <2>1, <2>2, BroadcastType DEF TypeOK, Recorded
<1>7. TypeOK'
  <2>1. /\ peers' \in [Nodes -> Seq(Peer)] /\ seen' \in [Nodes -> Seq(Ages)]
        /\ candidates' \in [Nodes -> Seq(Nodes)]
    BY <1>2, <1>5, VectorTypes
  <2>2. updated' \in [Nodes -> BOOLEAN]
    BY <1>1, <1>2 DEF TypeOK
  <2> QED  BY <1>1, <1>2, <1>6, <2>1, <2>2 DEF TypeOK
<1>8. Others(n)
  BY <1>1, <1>2, <1>6 DEF Others, TypeOK
<1>9. /\ peers'[n] = R.ps /\ seen'[n] = R.ts /\ candidates'[n] = CandidatesOf(R.ps)
      /\ Aligned(peers[n], seen[n])' /\ Known(n)' = M!Present(Known(n))
  <2>1. peers'[n] = R.ps /\ seen'[n] = R.ts /\ candidates'[n] = CandidatesOf(R.ps)
    BY <1>1, <1>2 DEF TypeOK
  <2> QED  BY <1>5, <2>1 DEF Known
<1>10. Recorded(n)'
  <2>1. \A k : k \in Known(n)' <=> k \in Known(n) /\ 0 <= k.age /\ k.age <= Stale
    BY <1>9, PresentAges, RowTypes
  <2>2. ASSUME clock_steps = 0, NEW i \in Ids, heard[n][i] <= Stale
        PROVE  \E k \in Known(n)' : k.id = i
    <3>1. PICK k \in Known(n) : k.id = i /\ k.age = heard[n][i]
      BY <1>1, <2>2 DEF Recorded
    <3>2. 0 <= heard[n][i]
      BY RowTypes
    <3> QED  BY <2>1, <2>2, <3>1, <3>2
  <2> QED  BY <1>1, <1>2, <1>4, <1>6, <1>9, <2>1, <2>2 DEF Recorded
<1>11. clock_steps <= clock_steps'
  BY <1>2, RowTypes
<1> QED  BY <1>7, <1>8, <1>9, <1>10, <1>11, RowStep

\* A device that ends forgets everything but what its screen offers.
LEMMA ForgetKeeps ==
    ASSUME IInv, NEW n \in Nodes, Forget(n), inbox' \in [Nodes -> SUBSET Message]
    PROVE  IInv'
<1>1. TypeOK /\ Aligned(peers[n], seen[n]) /\ Recorded(n)
  BY DEF IInv
<1>2. /\ running' = [running EXCEPT ![n] = FALSE]
      /\ peers' = [peers EXCEPT ![n] = <<>>] /\ seen' = [seen EXCEPT ![n] = <<>>]
      /\ last' = [last EXCEPT ![n] = Never]
      /\ heard' = [heard EXCEPT ![n] = [i \in Ids |-> Unheard]]
      /\ heard_from' = [heard_from EXCEPT ![n] = [i \in Ids |-> n]]
      /\ starts' = starts /\ recent' = recent /\ device_id' = device_id
      /\ candidates' = candidates /\ updated' = updated /\ clock_steps' = clock_steps
  BY DEF Forget, Nothing
<1>3. TypeOK'
  <2>1. /\ peers' \in [Nodes -> Seq(Peer)] /\ seen' \in [Nodes -> Seq(Ages)]
        /\ candidates' \in [Nodes -> Seq(Nodes)]
    BY <1>2, NothingKnown, VectorTypes
  <2>2. running' \in [Nodes -> BOOLEAN] /\ last' \in [Nodes -> Ages \cup {Never}]
    BY <1>1, <1>2 DEF TypeOK
  <2>3. heard' \in [Nodes -> [Ids -> 0 .. Unheard]]
    <3>1. Unheard \in 0 .. Unheard
      BY DEF Unheard
    <3> QED  BY <1>1, <1>2, <3>1 DEF TypeOK
  <2>4. heard_from' \in [Nodes -> [Ids -> Nodes]]
    BY <1>1, <1>2 DEF TypeOK
  <2> QED  BY <1>1, <1>2, <2>1, <2>2, <2>3, <2>4 DEF TypeOK
<1>4. Others(n)
  BY <1>1, <1>2 DEF Others, TypeOK
<1>5. /\ ~ running'[n] /\ peers'[n] = <<>> /\ seen'[n] = <<>> /\ last'[n] = Never
      /\ \A i \in Ids : heard'[n][i] = Unheard
  BY <1>1, <1>2 DEF TypeOK
<1>6. Aligned(peers[n], seen[n])' /\ Known(n)' = {}
  BY <1>5, NothingKnown DEF Known
<1>7. Recorded(n)'
  <2>1. Never >= - clock_steps' /\ ~ (Unheard <= Stale)
    <3>1. clock_steps' = clock_steps /\ clock_steps \in Nat
      BY <1>2, RowTypes
    <3>2. Never >= - clock_steps
      BY <3>1 DEF Never
    <3> QED  BY <3>1, <3>2 DEF Unheard
  <2> QED  BY <1>5, <1>6, <2>1 DEF Recorded
<1>8. clock_steps <= clock_steps'
  BY <1>2, RowTypes
<1> QED  BY <1>3, <1>4, <1>6, <1>7, <1>8, RowStep

LEMMA EndKeeps ==
    ASSUME IInv, NEW n \in Nodes, Cleanup(n) \/ Drop(n)
    PROVE  IInv'
<1>1. Forget(n) /\ running[n]
  BY DEF Cleanup, Drop
<1>2. device_id[n] \in Ids /\ [inbox EXCEPT ![n] = {}] \in [Nodes -> SUBSET Message]
  BY <1>1, RowTypes DEF Recorded
<1>3. inbox' \in [Nodes -> SUBSET Message]
  BY <1>2, BroadcastType DEF Cleanup, Drop
<1> QED  BY <1>1, <1>3, ForgetKeeps

\* Timestamps that change together with the clock stay with their peers.
LEMMA Shifted ==
    ASSUME NEW ps, NEW ts, Aligned(ps, ts), NEW us \in [DOMAIN ts -> Ages]
    PROVE  /\ Aligned(ps, us)
           /\ \A m \in Entries(ps, us) : \E k \in Entries(ps, ts), i \in DOMAIN ts :
                 k.id = m.id /\ k.ip = m.ip /\ k.age = ts[i] /\ m.age = us[i]
           /\ \A k \in Entries(ps, ts) : \E m \in Entries(ps, us) : m.id = k.id
<1>1. /\ Len(ps) \in Nat /\ DOMAIN ps = 1 .. Len(ps) /\ DOMAIN ts = DOMAIN ps
  BY DEF Aligned
<1>2. us \in Seq(Ages) /\ Len(us) = Len(ps)
  BY <1>1
<1>3. Aligned(ps, us)
  BY <1>2 DEF Aligned
<1>4. ASSUME NEW m \in Entries(ps, us)
      PROVE  \E k \in Entries(ps, ts), i \in DOMAIN ts :
                k.id = m.id /\ k.ip = m.ip /\ k.age = ts[i] /\ m.age = us[i]
  <2>1. PICK i \in DOMAIN ps : m = [id |-> ps[i].id, ip |-> ps[i].ip, age |-> us[i]]
    BY <1>4 DEF Entries
  <2>2. [id |-> ps[i].id, ip |-> ps[i].ip, age |-> ts[i]] \in Entries(ps, ts)
    BY DEF Entries
  <2> QED  BY <1>1, <2>1, <2>2
<1>5. ASSUME NEW k \in Entries(ps, ts)
      PROVE  \E m \in Entries(ps, us) : m.id = k.id
  <2>1. PICK i \in DOMAIN ps : k = [id |-> ps[i].id, ip |-> ps[i].ip, age |-> ts[i]]
    BY <1>5 DEF Entries
  <2>2. [id |-> ps[i].id, ip |-> ps[i].ip, age |-> us[i]] \in Entries(ps, us)
    BY DEF Entries
  <2> QED  BY <2>1, <2>2
<1> QED  BY <1>3, <1>4, <1>5

LEMMA TickKeeps ==
    ASSUME IInv, Tick
    PROVE  IInv'
<1>1. TypeOK
  BY DEF IInv
<1>2. /\ seen' = [n \in Nodes |-> [i \in DOMAIN seen[n] |-> Older(seen[n][i])]]
      /\ last' = [n \in Nodes |-> IF last[n] = Never THEN Never ELSE Older(last[n])]
      /\ heard' = [n \in Nodes |-> [i \in Ids |-> Older(heard[n][i])]]
      /\ heard_from' = [n \in Nodes |-> [i \in Ids |->
            IF heard'[n][i] = Unheard THEN n ELSE heard_from[n][i]]]
      /\ updated' = [n \in Nodes |-> FALSE]
      /\ recent' = {} /\ starts' = starts /\ device_id' = device_id /\ running' = running
      /\ peers' = peers /\ candidates' = candidates /\ inbox' = inbox
      /\ clock_steps' = clock_steps
  BY DEF Tick
<1>3. \A a \in Ages : Older(a) \in Ages /\ Older(a) >= a
  BY DEF Older, Ages
<1>4. \A a \in 0 .. Unheard : Older(a) \in 0 .. Unheard
  BY DEF Older, Unheard
<1>5. ASSUME NEW n \in Nodes PROVE Aligned(peers[n], seen[n])' /\ Recorded(n)'
  <2> DEFINE us == [i \in DOMAIN seen[n] |-> Older(seen[n][i])]
  <2>1. /\ Aligned(peers[n], seen[n]) /\ Recorded(n) /\ clock_steps \in Nat
    BY RowTypes
  <2>2. seen[n] \in Seq(Ages) /\ \A i \in DOMAIN seen[n] : seen[n][i] \in Ages
    BY <2>1 DEF Aligned
  <2>3. us \in [DOMAIN seen[n] -> Ages]
    BY <1>3, <2>2
  <2>4. seen'[n] = us /\ peers'[n] = peers[n]
    BY <1>2
  <2>5. Aligned(peers[n], us)
    BY <2>1, <2>3, Shifted
  <2>6. \A m \in Known(n)' : \E k \in Known(n) :
           k.id = m.id /\ k.ip = m.ip /\ k.age \in Ages /\ m.age = Older(k.age)
    <3>1. Known(n)' = Entries(peers[n], us)
      BY <2>4 DEF Known
    <3>2. us \in [DOMAIN seen[n] -> Ages] /\ Aligned(peers[n], seen[n])
      BY <2>1, <2>3
    <3>3. \A i \in DOMAIN seen[n] : us[i] = Older(seen[n][i])
      OBVIOUS
    <3> HIDE DEF us
    <3> TAKE m \in Known(n)'
    <3>4. PICK k \in Entries(peers[n], seen[n]), i \in DOMAIN seen[n] :
             k.id = m.id /\ k.ip = m.ip /\ k.age = seen[n][i] /\ m.age = us[i]
      <4>1. m \in Entries(peers[n], us)
        BY <3>1
      <4>2. \A e \in Entries(peers[n], us) : \E k \in Entries(peers[n], seen[n]), i \in DOMAIN seen[n] :
               k.id = e.id /\ k.ip = e.ip /\ k.age = seen[n][i] /\ e.age = us[i]
        BY <3>2, Shifted, SMTT(30)
      <4> QED  BY <4>1, <4>2
    <3>5. k \in Known(n)
      BY <3>4 DEF Known
    <3> QED  BY <2>2, <3>3, <3>4, <3>5
  <2>7. \A k \in Known(n) : \E m \in Known(n)' : m.id = k.id
    <3>1. Known(n)' = Entries(peers[n], us)
      BY <2>4 DEF Known
    <3> HIDE DEF us
    <3> QED  BY <2>1, <2>3, <3>1, Shifted DEF Known
  <2>8. /\ \A i \in Ids : heard'[n][i] = Older(heard[n][i])
        /\ \A i \in Ids : heard_from'[n][i] =
              IF heard'[n][i] = Unheard THEN n ELSE heard_from[n][i]
        /\ last'[n] = IF last[n] = Never THEN Never ELSE Older(last[n])
        /\ ~ updated'[n] /\ running'[n] = running[n] /\ candidates'[n] = candidates[n]
        /\ device_id'[n] = device_id[n] /\ clock_steps' = clock_steps
    BY <1>2
  <2>9. \A i \in Ids : heard[n][i] \in 0 .. Unheard
    BY RowTypes
  <2>10. /\ last'[n] >= - clock_steps
         /\ \A m \in Known(n)' : m.age >= - clock_steps
    <3>1. last[n] \in Ages \cup {Never}
      BY <1>1 DEF TypeOK
    <3>2. \A a \in Ages : a >= - clock_steps => Older(a) >= - clock_steps
      BY <1>3, <2>1 DEF Ages
    <3>3. \A m \in Known(n) : m.age >= - clock_steps
      BY <2>1 DEF Recorded
    <3> QED  BY <2>1, <2>6, <2>8, <3>1, <3>2, <3>3 DEF Recorded
  <2>11. running[n] => \A m \in Known(n)' : m.id # device_id[n]
    BY <2>1, <2>6 DEF Recorded
  <2>12. ~ running[n] => /\ peers'[n] = <<>> /\ seen'[n] = <<>>
                        /\ \A i \in Ids : heard'[n][i] = Unheard
    <3>1. ASSUME ~ running[n] PROVE seen'[n] = <<>>
      BY <2>1, <2>4, <3>1 DEF Recorded
    <3>2. Older(Unheard) = Unheard
      BY DEF Older, Unheard
    <3> QED  BY <2>1, <2>4, <2>8, <3>1, <3>2 DEF Recorded
  <2>13. ASSUME clock_steps = 0
         PROVE  \A i \in Ids : heard'[n][i] <= Stale => \E m \in Known(n)' : m.id = i
    <3>1. \A i \in Ids : heard'[n][i] <= Stale => heard[n][i] <= Stale
      BY <2>8, <2>9 DEF Older, Unheard
    <3> QED  BY <2>1, <2>7, <2>13, <3>1 DEF Recorded
  <2>14. ASSUME clock_steps = 0, NEW m \in Known(n)'
         PROVE  m.age = heard'[n][m.id] /\ (m.age <= Stale => m.ip = heard_from'[n][m.id])
    <3>1. PICK k \in Known(n) : k.id = m.id /\ k.ip = m.ip /\ m.age = Older(k.age)
      BY <2>6
    <3>2. k.age = heard[n][k.id] /\ k.id \in Ids /\ (k.age <= Stale => k.ip = heard_from[n][k.id])
      BY <2>1, <2>14, RowTypes DEF Recorded
    <3>3. m.age = heard'[n][m.id]
      BY <2>8, <3>1, <3>2
    <3>4. m.age <= Stale => k.age <= Stale /\ heard'[n][m.id] # Unheard
      BY <2>9, <3>1, <3>2, <3>3 DEF Older, Unheard
    <3> QED  BY <2>8, <3>1, <3>2, <3>3, <3>4
  <2> HIDE DEF us
  <2>15. Aligned(peers[n], seen[n])'
    BY <2>4, <2>5
  <2>16. Recorded(n)'
    BY <2>1, <2>4, <2>8, <2>10, <2>11, <2>12, <2>13, <2>14 DEF Recorded
  <2> QED  BY <2>15, <2>16
<1>6. TypeOK'
  <2>1. seen' \in [Nodes -> Seq(Ages)]
    BY <1>2, <1>5 DEF Aligned
  <2>2. last' \in [Nodes -> Ages \cup {Never}]
    BY <1>1, <1>2, <1>3 DEF TypeOK
  <2>3. heard' \in [Nodes -> [Ids -> 0 .. Unheard]]
    <3>1. \A n \in Nodes, i \in Ids : Older(heard[n][i]) \in 0 .. Unheard
      BY <1>4, RowTypes
    <3> QED  BY <1>2, <3>1
  <2>4. heard_from' \in [Nodes -> [Ids -> Nodes]]
    <3>1. \A n \in Nodes, i \in Ids : heard_from[n][i] \in Nodes
      BY <1>1 DEF TypeOK
    <3> QED  BY <1>2, <3>1
  <2> QED  BY <1>1, <1>2, <2>1, <2>2, <2>3, <2>4 DEF TypeOK
<1> QED  BY <1>5, <1>6 DEF IInv

LEMMA SetClockBackKeeps ==
    ASSUME IInv, NEW n \in Nodes, SetClockBack(n)
    PROVE  IInv'
<1> DEFINE us == [i \in DOMAIN seen[n] |-> seen[n][i] - 1]
<1>1. TypeOK /\ Aligned(peers[n], seen[n]) /\ Recorded(n) /\ clock_steps \in Nat
  BY RowTypes DEF IInv
<1>2. /\ running[n] /\ clock_steps < MaxSteps /\ clock_steps' = clock_steps + 1
      /\ seen' = [seen EXCEPT ![n] = us]
      /\ last' = [last EXCEPT ![n] = IF @ = Never THEN Never ELSE @ - 1]
      /\ starts' = starts /\ recent' = recent /\ device_id' = device_id /\ running' = running
      /\ peers' = peers /\ candidates' = candidates /\ inbox' = inbox /\ updated' = updated
      /\ heard' = heard /\ heard_from' = heard_from
  BY DEF SetClockBack, programs, histories
<1>3. clock_steps' \in 1 .. MaxSteps /\ clock_steps <= clock_steps'
  BY <1>1, <1>2
<1>4. \A a \in Ages : a >= - clock_steps => a - 1 \in Ages /\ a - 1 >= - clock_steps'
  BY <1>1, <1>2 DEF Ages
<1>5. seen[n] \in Seq(Ages) /\ \A i \in DOMAIN seen[n] : seen[n][i] \in Ages
  BY <1>1 DEF Aligned
<1>6. \A i \in DOMAIN seen[n] : seen[n][i] >= - clock_steps
  <2> SUFFICES ASSUME NEW i \in DOMAIN seen[n] PROVE seen[n][i] >= - clock_steps
    OBVIOUS
  <2>1. [id |-> peers[n][i].id, ip |-> peers[n][i].ip, age |-> seen[n][i]] \in Known(n)
    BY <1>1 DEF Known, Entries, Aligned
  <2> QED  BY <1>1, <2>1 DEF Recorded
<1>7. us \in [DOMAIN seen[n] -> Ages] /\ \A i \in DOMAIN seen[n] : us[i] >= - clock_steps'
  BY <1>4, <1>5, <1>6
<1>8. Aligned(peers[n], us)
  BY <1>1, <1>7, Shifted
<1>9. seen'[n] = us /\ peers'[n] = peers[n] /\ Known(n)' = Entries(peers[n], us)
  BY <1>1, <1>2 DEF TypeOK, Known
<1>10. \A m \in Entries(peers[n], us) : \E k \in Known(n), i \in DOMAIN seen[n] :
           k.id = m.id /\ m.age = us[i]
  <2> HIDE DEF us
  <2> QED  BY <1>1, <1>7, Shifted DEF Known
<1> HIDE DEF us
<1>11. last' \in [Nodes -> Ages \cup {Never}] /\ last'[n] >= - clock_steps'
  <2>1. last[n] \in Ages \cup {Never} /\ last[n] >= - clock_steps
    BY <1>1 DEF TypeOK, Recorded
  <2>2. Never >= - clock_steps'
    <3>1. \A c \in Nat : Never >= - c
      BY DEF Never
    <3>2. clock_steps' \in Nat
      BY <1>3
    <3> QED  BY <3>1, <3>2
  <2> QED  BY <1>1, <1>2, <1>4, <2>1, <2>2 DEF TypeOK
<1>12. TypeOK'
  <2>1. seen' \in [Nodes -> Seq(Ages)]
    BY <1>1, <1>2, <1>8 DEF TypeOK, Aligned
  <2>2. clock_steps' \in 0 .. MaxSteps
    BY <1>3
  <2> QED  BY <1>1, <1>2, <1>11, <2>1, <2>2 DEF TypeOK
<1>13. Others(n)
  BY <1>1, <1>2 DEF Others, TypeOK
<1>14. Recorded(n)'
  <2>1. \A m \in Known(n)' : m.age >= - clock_steps'
    BY <1>7, <1>9, <1>10
  <2>2. running[n] => \A m \in Known(n)' : m.id # device_id[n]
    BY <1>1, <1>9, <1>10 DEF Recorded
  <2>3. clock_steps' # 0
    BY <1>3
  <2> QED  BY <1>1, <1>2, <1>9, <1>11, <2>1, <2>2, <2>3 DEF Recorded
<1> QED  BY <1>3, <1>8, <1>9, <1>12, <1>13, <1>14, RowStep

LEMMA Inductive == IInv /\ [Next]_vars => IInv'
<1> SUFFICES ASSUME IInv, [Next]_vars PROVE IInv'
  OBVIOUS
<1>1. CASE Tick
  BY <1>1, TickKeeps
<1>2. ASSUME NEW n \in Nodes,
             \/ Start(n) \/ Hear(n) \/ Update(n) \/ Cleanup(n) \/ Drop(n) \/ SetClockBack(n)
      PROVE  IInv'
  BY <1>2, StartKeeps, HearIdleKeeps, HearGoneKeeps, IgnoreOwnKeeps, UpdateKeeps, EndKeeps,
     SetClockBackKeeps DEF Hear
<1>3. CASE UNCHANGED vars
  <2>1. TypeOK'
    BY <1>3 DEF IInv, TypeOK, vars, programs, clocks, histories
  <2>2. \A k \in Nodes : Aligned(peers[k], seen[k])' /\ Recorded(k)'
    BY <1>3 DEF IInv, Recorded, Known, vars, programs, clocks, histories
  <2> QED  BY <2>1, <2>2 DEF IInv
<1> QED  BY <1>1, <1>2, <1>3 DEF Next

LEMMA Invariance == Spec => []IInv
BY Initially, Inductive, PTL DEF Spec

------------------------------------------------------------------------------
\* Every variable of Discovery keeps its type, for any devices, timeouts and bounds
\* (discovery_service and the broadcast sockets).
THEOREM TypeCorrect == Spec => []TypeOK
<1>1. IInv => TypeOK
  BY DEF IInv
<1> QED  BY <1>1, Invariance, PTL

\* discovered_peers and peer_last_seen_timestamps_ stay aligned through every
\* insertion, erasure and stale removal.
THEOREM StayAligned == Spec => []VectorsAligned
<1>1. ASSUME IInv PROVE VectorsAligned
  <2> SUFFICES ASSUME NEW n \in Nodes
               PROVE  /\ Len(peers[n]) = Len(seen[n])
                      /\ \A i, j \in DOMAIN peers[n] : peers[n][i].id = peers[n][j].id => i = j
                      /\ clock_steps = 0 =>
                            \A i \in DOMAIN peers[n] : seen[n][i] = heard[n][peers[n][i].id]
    BY DEF VectorsAligned
  <2>1. Aligned(peers[n], seen[n]) /\ Recorded(n)
    BY <1>1 DEF IInv
  <2>2. \A i \in DOMAIN peers[n] :
           [id |-> peers[n][i].id, ip |-> peers[n][i].ip, age |-> seen[n][i]] \in Known(n)
    BY DEF Known, Entries
  <2> QED  BY <2>1, <2>2 DEF Aligned, Recorded
<1> QED  BY <1>1, Invariance, PTL

\* After update the service lists exactly the ids it heard of within the timeout,
\* with the address each came from last, shared ids included.
THEOREM ListsExactly == Spec => []ListsWhatItHeard
<1>1. ASSUME IInv PROVE ListsWhatItHeard
  <2> SUFFICES ASSUME NEW n \in Nodes, running[n], updated[n], clock_steps = 0
               PROVE  {peers[n][i] : i \in DOMAIN peers[n]}
                        = {[id |-> i, ip |-> heard_from[n][i]] : i \in {j \in Ids : heard[n][j] <= Stale}}
    BY DEF ListsWhatItHeard
  <2>1. Aligned(peers[n], seen[n]) /\ Recorded(n)
    BY <1>1 DEF IInv
  <2> DEFINE entry(i) == [id |-> peers[n][i].id, ip |-> peers[n][i].ip, age |-> seen[n][i]]
  <2>2. Known(n) = {entry(i) : i \in DOMAIN peers[n]}
    BY DEF Known, Entries
  <2>3. \A i \in DOMAIN peers[n] : peers[n][i] \in Peer
    BY <2>1 DEF Aligned
  <2>4. \A q \in Peer : q = [id |-> q.id, ip |-> q.ip] /\ q.id \in Ids
    BY DEF Peer
  <2>5. \A i \in DOMAIN peers[n] :
           entry(i) \in Known(n) /\ entry(i).id = peers[n][i].id /\ entry(i).ip = peers[n][i].ip
    BY <2>2
  <2> HIDE DEF entry
  <2>6. \A k \in Known(n) : heard[n][k.id] <= Stale /\ k.ip = heard_from[n][k.id]
    BY <2>1 DEF Recorded
  <2>7. \A j \in Ids : heard[n][j] <= Stale => \E k \in Known(n) : k.id = j
    BY <2>1 DEF Recorded
  <2>8. \A j \in Ids : heard[n][j] <= Stale => \E i \in DOMAIN peers[n] : peers[n][i].id = j
    BY <2>2, <2>5, <2>7
  <2>9. \A i \in DOMAIN peers[n] :
           /\ peers[n][i] = [id |-> peers[n][i].id, ip |-> heard_from[n][peers[n][i].id]]
           /\ peers[n][i].id \in {j \in Ids : heard[n][j] <= Stale}
    BY <2>3, <2>4, <2>5, <2>6
  <2> DEFINE L == {peers[n][i] : i \in DOMAIN peers[n]}
             H == {[id |-> i, ip |-> heard_from[n][i]] : i \in {j \in Ids : heard[n][j] <= Stale}}
  <2>10. ASSUME NEW q \in L PROVE q \in H
    <3>1. PICK i \in DOMAIN peers[n] : q = peers[n][i]
      BY <2>10
    <3> QED  BY <2>9, <3>1
  <2>11. ASSUME NEW q \in H PROVE q \in L
    <3>1. PICK j \in Ids : heard[n][j] <= Stale /\ q = [id |-> j, ip |-> heard_from[n][j]]
      OBVIOUS
    <3>2. PICK i \in DOMAIN peers[n] : peers[n][i].id = j
      BY <2>8, <3>1
    <3> QED  BY <2>9, <3>1, <3>2
  <2> QED  BY <2>10, <2>11
<1> QED  BY <1>1, Invariance, PTL

\* The store's candidates are always those of the service's present list, which
\* never holds the device itself.
THEOREM StaysPublished == Spec => []CandidatesCurrent
<1>1. ASSUME IInv PROVE CandidatesCurrent
  <2> SUFFICES ASSUME NEW n \in Nodes, running[n]
               PROVE  candidates[n] = CandidatesOf(peers[n]) /\ device_id[n] \notin Listed(n)
    BY DEF CandidatesCurrent
  <2>1. candidates[n] = CandidatesOf(peers[n]) /\ \A m \in Known(n) : m.id # device_id[n]
    BY <1>1 DEF IInv, Recorded
  <2>2. \A i \in DOMAIN peers[n] :
           [id |-> peers[n][i].id, ip |-> peers[n][i].ip, age |-> seen[n][i]] \in Known(n)
    BY DEF Known, Entries
  <2> QED  BY <2>1, <2>2 DEF Listed
<1> QED  BY <1>1, Invariance, PTL

------------------------------------------------------------------------------
(***************************************************************************)
(* The refinement.  A running device's candidates are the addresses of its *)
(* members, so a step that replaces the row of one device and leaves it    *)
(* running is a step of Membership as soon as it gives the right members.  *)
(***************************************************************************)
Offered(n) == {candidates[n][i] : i \in DOMAIN candidates[n]}

\* Every row but that of n is left alone, as far as Membership can see.
OthersAlone(n) == \A k \in Nodes \ {n} :
    peers'[k] = peers[k] /\ seen'[k] = seen[k] /\ candidates'[k] = candidates[k]

LEMMA OfferedAreMembers ==
    ASSUME NEW ps, NEW ts, Aligned(ps, ts), NEW cs, cs = CandidatesOf(ps)
    PROVE  {cs[i] : i \in DOMAIN cs} = {m.ip : m \in Entries(ps, ts)}
<1>1. DOMAIN cs = DOMAIN ps /\ \A i \in DOMAIN ps : cs[i] = ps[i].ip
  BY CandidatesType DEF Aligned
<1>2. {cs[i] : i \in DOMAIN cs} = {ps[i].ip : i \in DOMAIN ps}
  BY <1>1
<1> DEFINE entry(i) == [id |-> ps[i].id, ip |-> ps[i].ip, age |-> ts[i]]
<1>3. \A i \in DOMAIN ps : entry(i).ip = ps[i].ip
  OBVIOUS
<1>4. Entries(ps, ts) = {entry(i) : i \in DOMAIN ps}
  BY DEF Entries
<1> HIDE DEF entry
<1>5. {m.ip : m \in Entries(ps, ts)} = {entry(i).ip : i \in DOMAIN ps}
  BY <1>4
<1>6. {entry(i).ip : i \in DOMAIN ps} = {ps[i].ip : i \in DOMAIN ps}
  BY <1>3
<1> QED  BY <1>2, <1>5, <1>6

\* A step that leaves n running is what Membership calls publishing n's members.
LEMMA Publishes ==
    ASSUME IInv', NEW n \in Nodes, running'[n], OthersAlone(n)
    PROVE  LET members == [k \in Nodes |-> Entries(peers[k], seen[k])]
               offered == [k \in Nodes |-> {candidates[k][i] : i \in DOMAIN candidates[k]}]
           IN  /\ members' = [members EXCEPT ![n] = Known(n)']
               /\ offered' = [offered EXCEPT ![n] = {m.ip : m \in Known(n)'}]
<1>1. Aligned(peers'[n], seen'[n]) /\ candidates'[n] = CandidatesOf(peers'[n])
  BY DEF IInv, Recorded
<1>2. Offered(n)' = {m.ip : m \in Known(n)'}
  BY <1>1, OfferedAreMembers DEF Offered, Known
<1>3. \A k \in Nodes \ {n} : Known(k)' = Known(k) /\ Offered(k)' = Offered(k)
  BY DEF OthersAlone, Known, Offered
<1>4. [k \in Nodes |-> Known(k)'] = [[k \in Nodes |-> Known(k)] EXCEPT ![n] = Known(n)']
  BY <1>3
<1>5. [k \in Nodes |-> Offered(k)']
         = [[k \in Nodes |-> Offered(k)] EXCEPT ![n] = {m.ip : m \in Known(n)'}]
  BY <1>2, <1>3
<1> QED  BY <1>4, <1>5 DEF Known, Offered

LEMMA HearIdleMeets ==
    ASSUME IInv, IInv', NEW n \in Nodes, HearIdle(n)
    PROVE  M!Meet(n)
<1>1. TypeOK /\ Aligned(peers[n], seen[n]) /\ running'[n]
  BY DEF IInv, HearIdle, programs
<1>2. PICK m \in inbox[n] :
          LET known == update_peer_state(peers[n], seen[n], [id |-> m.id, ip |-> m.ip])
          IN  /\ peers' = [peers EXCEPT ![n] = known.ps]
              /\ seen' = [seen EXCEPT ![n] = known.ts]
              /\ candidates' = [candidates EXCEPT ![n] = CandidatesOf(known.ps)]
  BY DEF HearIdle
<1> DEFINE p == [id |-> m.id, ip |-> m.ip]
           R == update_peer_state(peers[n], seen[n], p)
           S == M!Present({k \in Known(n) : k.id # m.id} \cup {[id |-> m.id, ip |-> m.ip, age |-> 0]})
<1>3. m.id \in Ids /\ m.ip \in Nodes /\ p \in Peer
  BY RowTypes DEF Peer
<1>4. Entries(R.ps, R.ts) = S
  BY <1>1, <1>3, PeerUpdated DEF Known
<1>5. /\ peers' = [peers EXCEPT ![n] = R.ps] /\ seen' = [seen EXCEPT ![n] = R.ts]
      /\ candidates' = [candidates EXCEPT ![n] = CandidatesOf(R.ps)]
  BY <1>2
<1> HIDE DEF R, S
<1>6. Known(n)' = S
  BY <1>1, <1>4, <1>5 DEF Known, TypeOK
<1>7. OthersAlone(n)
  BY <1>1, <1>5 DEF OthersAlone, TypeOK
<1> DEFINE members == [k \in Nodes |-> Entries(peers[k], seen[k])]
           offered == [k \in Nodes |-> {candidates[k][i] : i \in DOMAIN candidates[k]}]
           T == M!Present({k \in members[n] : k.id # m.id} \cup {[id |-> m.id, ip |-> m.ip, age |-> 0]})
<1>8. members[n] = Known(n)
  BY DEF Known
<1>9. Known(n)' = T
  BY <1>6, <1>8 DEF S
<1> HIDE DEF T
<1>10. members' = [members EXCEPT ![n] = T] /\ offered' = [offered EXCEPT ![n] = {k.ip : k \in T}]
  BY <1>1, <1>7, <1>9, Publishes
<1> QED  BY <1>3, <1>10 DEF T, M!Meet, M!Publish

LEMMA HearGoneParts ==
    ASSUME IInv, IInv', NEW n \in Nodes, HearGone(n)
    PROVE  M!Part(n)
<1>1. TypeOK /\ Aligned(peers[n], seen[n]) /\ running'[n]
  BY DEF IInv, HearGone, programs
<1>2. PICK m \in inbox[n] :
          LET known == remove_peer_by_device_id(peers[n], seen[n], m.id)
          IN  /\ peers' = [peers EXCEPT ![n] = known.ps]
              /\ seen' = [seen EXCEPT ![n] = known.ts]
              /\ candidates' = IF Find(peers[n], m.id) = {} THEN candidates
                    ELSE [candidates EXCEPT ![n] = CandidatesOf(known.ps)]
  BY DEF HearGone
<1> DEFINE R == remove_peer_by_device_id(peers[n], seen[n], m.id)
           S == {k \in Known(n) : k.id # m.id}
<1>3. m.id \in Ids
  BY RowTypes
<1>4. Entries(R.ps, R.ts) = S
  BY <1>1, PeerRemoved DEF Known
<1>5. /\ peers' = [peers EXCEPT ![n] = R.ps] /\ seen' = [seen EXCEPT ![n] = R.ts]
      /\ \/ candidates' = candidates
         \/ candidates' = [candidates EXCEPT ![n] = CandidatesOf(R.ps)]
  BY <1>2
<1> HIDE DEF R, S
<1>6. Known(n)' = S
  BY <1>1, <1>4, <1>5 DEF Known, TypeOK
<1>7. OthersAlone(n)
  BY <1>1, <1>5 DEF OthersAlone, TypeOK
<1> DEFINE members == [k \in Nodes |-> Entries(peers[k], seen[k])]
           offered == [k \in Nodes |-> {candidates[k][i] : i \in DOMAIN candidates[k]}]
           T == {k \in members[n] : k.id # m.id}
<1>8. members[n] = Known(n)
  BY DEF Known
<1>9. Known(n)' = T
  BY <1>6, <1>8 DEF S
<1> HIDE DEF T
<1>10. members' = [members EXCEPT ![n] = T] /\ offered' = [offered EXCEPT ![n] = {k.ip : k \in T}]
  BY <1>1, <1>7, <1>9, Publishes
<1> QED  BY <1>3, <1>10 DEF T, M!Part, M!Publish

LEMMA UpdateReviews ==
    ASSUME IInv, IInv', NEW n \in Nodes, Update(n)
    PROVE  M!Review(n)
<1>1. TypeOK /\ Aligned(peers[n], seen[n]) /\ running'[n]
  BY DEF IInv, Update, programs
<1> DEFINE R == remove_stale_peers(peers[n], seen[n])
<1>2. /\ peers' = [peers EXCEPT ![n] = R.ps] /\ seen' = [seen EXCEPT ![n] = R.ts]
      /\ candidates' = [candidates EXCEPT ![n] = CandidatesOf(R.ps)]
  BY DEF Update
<1>3. Entries(R.ps, R.ts) = M!Present(Known(n))
  BY <1>1, StaleRemoved DEF Known
<1> HIDE DEF R
<1>4. Known(n)' = M!Present(Known(n))
  BY <1>1, <1>2, <1>3 DEF Known, TypeOK
<1>5. OthersAlone(n)
  BY <1>1, <1>2 DEF OthersAlone, TypeOK
<1> DEFINE members == [k \in Nodes |-> Entries(peers[k], seen[k])]
           offered == [k \in Nodes |-> {candidates[k][i] : i \in DOMAIN candidates[k]}]
           T == M!Present(members[n])
<1>6. members[n] = Known(n)
  BY DEF Known
<1>7. Known(n)' = T
  BY <1>4, <1>6
<1> HIDE DEF T
<1>8. members' = [members EXCEPT ![n] = T] /\ offered' = [offered EXCEPT ![n] = {k.ip : k \in T}]
  BY <1>1, <1>5, <1>7, Publishes
<1> QED  BY <1>8 DEF T, M!Review, M!Publish

LEMMA StartBegins ==
    ASSUME IInv, IInv', NEW n \in Nodes, Start(n)
    PROVE  M!Begin(n)
<1>1. TypeOK /\ peers[n] = <<>> /\ seen[n] = <<>>
  BY DEF IInv, Start, Recorded
<1>2. /\ peers' = peers /\ seen' = seen /\ running'[n]
      /\ candidates' = [candidates EXCEPT ![n] = <<>>]
  BY <1>1 DEF Start, TypeOK
<1>3. Known(n) = {} /\ Known(n)' = {}
  BY <1>1, <1>2, NothingKnown DEF Known
<1>4. OthersAlone(n)
  BY <1>1, <1>2 DEF OthersAlone, TypeOK
<1>5. M!Publish(n, {})
  BY <1>2, <1>3, <1>4, Publishes DEF M!Publish
<1>6. [k \in Nodes |-> Entries(peers[k], seen[k])][n] = {}
  BY <1>3 DEF Known
<1> QED  BY <1>5, <1>6 DEF M!Begin

LEMMA ForgetEnds ==
    ASSUME IInv, NEW n \in Nodes, Forget(n)
    PROVE  M!End(n)
<1>1. /\ peers' = [peers EXCEPT ![n] = <<>>] /\ seen' = [seen EXCEPT ![n] = <<>>]
      /\ candidates' = candidates /\ TypeOK
  BY DEF Forget, IInv
<1>2. \A k \in Nodes : Known(k)' = IF k = n THEN {} ELSE Known(k)
  BY <1>1, NothingKnown DEF Known, TypeOK
<1>3. [k \in Nodes |-> Known(k)'] = [[k \in Nodes |-> Known(k)] EXCEPT ![n] = {}]
  BY <1>2
<1> QED  BY <1>1, <1>3 DEF M!End, Known

\* The entries of vectors whose timestamps have moved on or back.
LEMMA EntriesShifted ==
    ASSUME NEW ps, NEW ts, Aligned(ps, ts), NEW us \in [DOMAIN ts -> Ages]
    PROVE  /\ (\A i \in DOMAIN ts : us[i] = ts[i] - 1)
                 => Entries(ps, us) = M!Aged(Entries(ps, ts), -1)
           /\ (\A i \in DOMAIN ts : us[i] = Older(ts[i]))
                 => Entries(ps, us) = {m \in Entries(ps, ts) : m.age > Stale}
                        \cup M!Aged({m \in Entries(ps, ts) : m.age <= Stale}, 1)
<1> DEFINE entry(i) == [id |-> ps[i].id, ip |-> ps[i].ip, age |-> ts[i]]
           later(i) == [id |-> ps[i].id, ip |-> ps[i].ip, age |-> us[i]]
<1>1. /\ DOMAIN ps = DOMAIN ts /\ DOMAIN ps = DOMAIN us
      /\ \A i \in DOMAIN ps : ts[i] \in Ages
  BY DEF Aligned
<1>2. Entries(ps, ts) = {entry(i) : i \in DOMAIN ps} /\ Entries(ps, us) = {later(i) : i \in DOMAIN ps}
  BY DEF Entries
<1>3. \A i \in DOMAIN ps : entry(i).age = ts[i] /\ ts[i] \in Int
  BY <1>1 DEF Ages
<1>4. \A i \in DOMAIN ps : us[i] = ts[i] - 1 => later(i) = [entry(i) EXCEPT !.age = @ + (-1)]
  BY <1>3
<1>5. \A i \in DOMAIN ps : us[i] = Older(ts[i])
         => later(i) = IF entry(i).age > Stale THEN entry(i) ELSE [entry(i) EXCEPT !.age = @ + 1]
  BY <1>3 DEF Older
<1>6. \A i \in DOMAIN ps : entry(i).age \in Int
  BY <1>3
<1>7. \A a \in Int : a <= Stale <=> ~ (a > Stale)
  OBVIOUS
<1> HIDE DEF entry, later
<1>8. ASSUME \A i \in DOMAIN ts : us[i] = ts[i] - 1
      PROVE  Entries(ps, us) = M!Aged(Entries(ps, ts), -1)
  BY <1>1, <1>2, <1>4, <1>8 DEF M!Aged
<1>9. ASSUME \A i \in DOMAIN ts : us[i] = Older(ts[i])
      PROVE  Entries(ps, us) = {m \in Entries(ps, ts) : m.age > Stale}
                 \cup M!Aged({m \in Entries(ps, ts) : m.age <= Stale}, 1)
  <2> DEFINE older(m) == [m EXCEPT !.age = @ + 1]
             E == Entries(ps, ts)
             New == {m \in E : m.age > Stale} \cup {older(m) : m \in {k \in E : k.age <= Stale}}
  <2>1. \A i \in DOMAIN ps : later(i) = IF entry(i).age > Stale THEN entry(i) ELSE older(entry(i))
    BY <1>1, <1>5, <1>9
  <2> HIDE DEF older
  <2>2. \A i \in DOMAIN ps : later(i) \in New
    BY <1>2, <1>6, <1>7, <2>1
  <2>3. \A m \in New : m \in Entries(ps, us)
    BY <1>2, <1>6, <1>7, <2>1
  <2> QED  BY <1>2, <2>2, <2>3 DEF M!Aged, older
<1> QED  BY <1>8, <1>9

LEMMA TickPasses ==
    ASSUME IInv, Tick
    PROVE  M!Pass
<1>1. /\ seen' = [n \in Nodes |-> [i \in DOMAIN seen[n] |-> Older(seen[n][i])]]
      /\ peers' = peers /\ candidates' = candidates
  BY DEF Tick
<1>2. ASSUME NEW n \in Nodes
      PROVE  Known(n)' = {m \in Known(n) : m.age > Stale}
                            \cup M!Aged({m \in Known(n) : m.age <= Stale}, 1)
  <2> DEFINE us == [i \in DOMAIN seen[n] |-> Older(seen[n][i])]
  <2>1. Aligned(peers[n], seen[n]) /\ Known(n)' = Entries(peers[n], us)
    BY <1>1, RowTypes DEF Known
  <2>2. \A a \in Ages : Older(a) \in Ages
    BY DEF Older, Ages
  <2>3. us \in [DOMAIN seen[n] -> Ages] /\ \A i \in DOMAIN seen[n] : us[i] = Older(seen[n][i])
    BY <2>1, <2>2 DEF Aligned
  <2> HIDE DEF us
  <2> QED  BY <2>1, <2>3, EntriesShifted DEF Known
<1> DEFINE members == [n \in Nodes |-> Entries(peers[n], seen[n])]
<1>3. \A n \in Nodes : members[n] = Known(n)
  BY DEF Known
<1>4. ASSUME NEW n \in Nodes
      PROVE  Entries(peers[n], seen[n])' = {m \in members[n] : m.age > Stale}
                            \cup M!Aged({m \in members[n] : m.age <= Stale}, 1)
  BY <1>2, <1>3 DEF Known
<1>5. members' = [n \in Nodes |-> {m \in members[n] : m.age > Stale}
                                     \cup M!Aged({m \in members[n] : m.age <= Stale}, 1)]
  <2> HIDE DEF members
  <2> QED  BY <1>4 DEF members
<1>6. UNCHANGED [n \in Nodes |-> {candidates[n][i] : i \in DOMAIN candidates[n]}]
  BY <1>1
<1> QED  BY <1>5, <1>6 DEF M!Pass

LEMMA SetClockBackSetsBack ==
    ASSUME IInv, IInv', NEW n \in Nodes, SetClockBack(n)
    PROVE  M!SetBack(n)
<1> DEFINE us == [i \in DOMAIN seen[n] |-> seen[n][i] - 1]
<1>1. /\ seen' = [seen EXCEPT ![n] = us] /\ peers' = peers /\ candidates' = candidates
      /\ TypeOK
  BY DEF SetClockBack, IInv
<1>2. seen'[n] = us /\ Aligned(peers[n], seen[n]) /\ Aligned(peers[n], seen[n])'
  BY <1>1 DEF IInv, TypeOK
<1>3. us \in [DOMAIN seen[n] -> Ages]
  <2>1. us \in Seq(Ages)
    BY <1>2 DEF Aligned
  <2> QED  BY <2>1
<1>4. Known(n)' = M!Aged(Known(n), -1)
  <2>1. \A i \in DOMAIN seen[n] : us[i] = seen[n][i] - 1
    OBVIOUS
  <2> HIDE DEF us
  <2> QED  BY <1>1, <1>2, <1>3, <2>1, EntriesShifted DEF Known
<1>5. \A k \in Nodes \ {n} : Known(k)' = Known(k)
  BY <1>1 DEF Known, TypeOK
<1>6. [k \in Nodes |-> Known(k)'] = [[k \in Nodes |-> Known(k)] EXCEPT ![n] = M!Aged(@, -1)]
  BY <1>4, <1>5
<1> QED  BY <1>1, <1>6 DEF M!SetBack, Known

\* Discovery implements Membership, for any devices, timeout and bounds, whatever
\* datagrams are lost and whichever devices share an id.
THEOREM Refinement == Spec => ImplementsMembership
<1>1. Init => M!Init
  <2>1. ASSUME Init, NEW n \in Nodes PROVE Known(n) = {} /\ Offered(n) = {}
    BY <2>1, NothingKnown DEF Init, Known, Offered
  <2> QED  BY <2>1 DEF M!Init, Known, Offered
<1>2. IInv /\ IInv' /\ [Next]_vars => [M!Next]_(M!vars)
  <2> SUFFICES ASSUME IInv, IInv', [Next]_vars PROVE M!Next \/ UNCHANGED M!vars
    BY DEF M!vars
  <2>1. CASE Tick
    BY <2>1, TickPasses DEF M!Next
  <2>2. ASSUME NEW n \in Nodes, IgnoreOwn(n) PROVE UNCHANGED M!vars
    BY <2>2 DEF IgnoreOwn, M!vars
  <2>3. ASSUME NEW n \in Nodes, Cleanup(n) \/ Drop(n) PROVE M!Next
    BY <2>3, ForgetEnds DEF M!Next, Cleanup, Drop
  <2>4. ASSUME NEW n \in Nodes, Start(n) \/ HearIdle(n) \/ HearGone(n) \/ Update(n) \/ SetClockBack(n)
        PROVE  M!Next
    BY <2>4, StartBegins, HearIdleMeets, HearGoneParts, UpdateReviews, SetClockBackSetsBack
       DEF M!Next
  <2>5. CASE UNCHANGED vars
    BY <2>5 DEF vars, M!vars
  <2> QED  BY <2>1, <2>2, <2>3, <2>4, <2>5 DEF Next, Hear
<1>3. Init => IInv
  BY Initially
<1> QED  BY <1>1, <1>2, <1>3, Inductive, PTL DEF Spec, ImplementsMembership, M!Spec
==============================================================================
