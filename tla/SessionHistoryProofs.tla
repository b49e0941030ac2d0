------------------------ MODULE SessionHistoryProofs -------------------------
(***************************************************************************)
(* Theorems about SessionHistory, for every configuration and keyed hash:  *)
(* on_packet completes a knock only when the source's own last packets are *)
(* one (soundness), and whenever they are one whose beginning cannot be    *)
(* mistaken (completeness).  A candidate stands for the end of what its    *)
(* source sent; that is the invariant which carries both.                  *)
(***************************************************************************)
EXTENDS SessionHistory, SessionProofs

PacketType == [port : KnockPorts, captured_at : Int, at : Nat]

-----------------------------------------------------------------------------
(***************************************************************************)
(* What Record does to the packets of a source, and which packets the      *)
(* later part of them were before.                                         *)
(***************************************************************************)
LEMMA LastOfProperties ==
    ASSUME NEW S, NEW seq \in Seq(S), NEW n \in Nat
    PROVE  /\ LastOf(seq, n) \in Seq(S)
           /\ Len(LastOf(seq, n)) = IF Len(seq) <= n THEN Len(seq) ELSE n
           /\ \A i \in 1..Len(LastOf(seq, n)) :
                 LastOf(seq, n)[i] = seq[i + (Len(seq) - Len(LastOf(seq, n)))]
<1>1. Len(seq) \in Nat /\ \A i \in 1..Len(seq) : seq[i] \in S
  BY ElementOfSeq
<1>2. CASE Len(seq) <= n
  <2>1. LastOf(seq, n) = seq
    BY <1>2 DEF LastOf
  <2>2. \A i \in 1..Len(seq) : i + (Len(seq) - Len(seq)) = i
    BY <1>1
  <2> QED BY <1>2, <2>1, <2>2
<1>3. CASE Len(seq) > n
  <2> DEFINE first == Len(seq) - n + 1
  <2>1. LastOf(seq, n) = SubSeq(seq, first, Len(seq))
    BY <1>1, <1>3 DEF LastOf
  <2>2. first \in 1..(Len(seq) + 1) /\ Len(seq) - first + 1 = n /\ Len(seq) - n = first - 1
    BY <1>1, <1>3
  <2>3. SubSeq(seq, first, Len(seq)) = [i \in 1..(Len(seq) - first + 1) |-> seq[i + first - 1]]
    BY <1>1, <2>2
  <2> HIDE DEF first
  <2>4. SubSeq(seq, first, Len(seq)) = [i \in 1..n |-> seq[i + first - 1]]
    BY <2>2, <2>3
  <2>5. \A i \in 1..n : i + first - 1 \in 1..Len(seq) /\ i + first - 1 = i + (first - 1)
    BY <1>1, <2>2
  <2>6. /\ LastOf(seq, n) \in Seq(S) /\ Len(LastOf(seq, n)) = n
        /\ \A i \in 1..n : LastOf(seq, n)[i] = seq[i + (first - 1)]
    BY <1>1, <2>1, <2>4, <2>5
  <2> QED BY <1>1, <1>3, <2>2, <2>6
<1> QED BY <1>1, <1>2, <1>3

\* The packets a source had before, as Record sees them.
Before(s) == IF s \in completed THEN <<>> ELSE recent[s]

LEMMA RecordShape ==
    ASSUME HistoryTypeOK, clock \in Nat, n_ports > 0,
           NEW s \in Sources, NEW p \in KnockPorts,
           NEW captured_at \in (clock - LAG)..(clock + LEAD), Record(s, p, captured_at)
    PROVE  LET old == Before(s)
               new == recent'[s]
               d   == Len(old) + 1 - Len(new)
           IN  /\ old \in Seq(PacketType) /\ new \in Seq(PacketType)
               /\ Len(old) \in Nat /\ Len(old) <= n_ports
               /\ Len(new) \in 1..n_ports
               /\ Len(new) = IF Len(old) < n_ports THEN Len(old) + 1 ELSE n_ports
               /\ new[Len(new)] = Packet(p, captured_at)
               /\ \A i \in 1..(Len(new) - 1) : i + d \in 1..Len(old) /\ new[i] = old[i + d]
<1> DEFINE old == Before(s)
           pk == Packet(p, captured_at)
           full == Append(old, pk)
<1>1. n_ports \in Nat /\ captured_at \in Int
  BY DerivationAssumption, SessionAssumption
<1>2. pk \in PacketType
  BY <1>1 DEF Packet, PacketType
<1>3. old \in Seq(PacketType) /\ Len(old) \in Nat /\ Len(old) <= n_ports
  <2>1. CASE s \in completed
    BY <1>1, <2>1 DEF Before
  <2>2. CASE s \notin completed
    <3>1. recent[s] \in Seq(PacketType) /\ Len(recent[s]) <= n_ports
      BY DEF HistoryTypeOK, PacketType
    <3> QED BY <2>2, <3>1 DEF Before
  <2> QED BY <2>1, <2>2
<1>4. recent'[s] = LastOf(full, n_ports)
  BY DEF Record, HistoryTypeOK, Before
<1> HIDE DEF old, pk
<1>5. /\ full \in Seq(PacketType) /\ Len(full) = Len(old) + 1
      /\ \A i \in 1..Len(old) : full[i] = old[i]
      /\ full[Len(old) + 1] = pk
  BY <1>2, <1>3, AppendProperties
<1> HIDE DEF full
<1> DEFINE new == LastOf(full, n_ports)
<1>6. /\ new \in Seq(PacketType)
      /\ Len(new) = IF Len(full) <= n_ports THEN Len(full) ELSE n_ports
      /\ \A i \in 1..Len(new) : new[i] = full[i + (Len(full) - Len(new))]
  BY <1>1, <1>5, LastOfProperties
<1> HIDE DEF new
<1>7. /\ Len(new) \in 1..n_ports
      /\ Len(new) = IF Len(old) < n_ports THEN Len(old) + 1 ELSE n_ports
  BY <1>1, <1>3, <1>5, <1>6
<1>8. new[Len(new)] = pk
  <2>1. Len(new) \in 1..Len(new) /\ Len(new) + (Len(full) - Len(new)) = Len(old) + 1
    BY <1>1, <1>3, <1>5, <1>7
  <2> QED BY <1>5, <1>6, <2>1
<1>9. ASSUME NEW i \in 1..(Len(new) - 1)
      PROVE  LET d == Len(old) + 1 - Len(new)
             IN  i + d \in 1..Len(old) /\ new[i] = old[i + d]
  <2>1. /\ i \in 1..Len(new) /\ i + (Len(old) + 1 - Len(new)) \in 1..Len(old)
        /\ Len(full) - Len(new) = Len(old) + 1 - Len(new)
    BY <1>1, <1>3, <1>5, <1>7
  <2> QED BY <1>5, <1>6, <2>1
<1> QED BY <1>3, <1>4, <1>6, <1>7, <1>8, <1>9 DEF new, old, pk

-----------------------------------------------------------------------------
(***************************************************************************)
(* The candidate that a step leaves stands for the end of the packets that *)
(* Record leaves.                                                          *)
(***************************************************************************)
LEMMA FreshStands ==
    ASSUME HistoryTypeOK, clock \in Nat, n_ports > 0,
           NEW s \in Sources, NEW p \in KnockPorts,
           NEW captured_at \in (clock - LAG)..(clock + LEAD), Record(s, p, captured_at)
    PROVE  /\ StandsFor(Fresh(p, captured_at), recent'[s], Len(recent'[s]))
           /\ Len(recent'[s]) \in 1..n_ports
<1> DEFINE new == recent'[s]
           cand == Fresh(p, captured_at)
<1>1. Len(new) \in 1..n_ports /\ new[Len(new)] = Packet(p, captured_at)
  BY RecordShape
<1>2. /\ cand.ports = <<p>> /\ Len(cand.ports) = 1 /\ cand.ports[1] = p
      /\ cand.first_seen_wall = captured_at /\ cand.last_seen_mono = clock
  BY DEF Fresh
<1>3. /\ Packet(p, captured_at).port = p
      /\ Packet(p, captured_at).captured_at = captured_at
      /\ Packet(p, captured_at).at = clock
  BY DEF Packet
<1> HIDE DEF new, cand
<1>4. StandsFor(cand, new, Len(new))
  BY <1>1, <1>2, <1>3, DerivationAssumption DEF StandsFor
<1> QED BY <1>1, <1>4 DEF new, cand

\* Where position b of the packets before is among the packets after.
LEMMA ShiftedPosition ==
    \A N, lo, b, ln \in Nat :
        /\ b \in 1..lo /\ lo <= N /\ lo - b + 2 <= N
        /\ ln = IF lo < N THEN lo + 1 ELSE N
        => \E d \in Nat, m \in 1..N :
              /\ d = lo + 1 - ln /\ m \in 1..(ln - 1) /\ m + d = b
              /\ ln + d = lo + 1 /\ (lo - b + 1) + 1 = ln - m + 1
<1> SUFFICES ASSUME NEW N \in Nat, NEW lo \in Nat, NEW b \in Nat, NEW ln \in Nat,
                    b \in 1..lo, lo <= N, lo - b + 2 <= N,
                    ln = IF lo < N THEN lo + 1 ELSE N
             PROVE  \E d \in Nat, m \in 1..N :
                      /\ d = lo + 1 - ln /\ m \in 1..(ln - 1) /\ m + d = b
                      /\ ln + d = lo + 1 /\ (lo - b + 1) + 1 = ln - m + 1
  OBVIOUS
<1>1. lo + 1 - ln \in Nat /\ b - (lo + 1 - ln) \in 1..N
  OBVIOUS
<1> WITNESS lo + 1 - ln \in Nat, b - (lo + 1 - ln) \in 1..N
<1> QED OBVIOUS

LEMMA ExtensionStands ==
    ASSUME IInv, HistoryTypeOK, CandidatesStand, n_ports > 0,
           NEW s \in Sources, NEW p \in KnockPorts,
           NEW captured_at \in (clock - LAG)..(clock + LEAD), Record(s, p, captured_at),
           Extends(s), Len(Extended(s, p)) <= n_ports,
           NEW cand, cand.ports = Extended(s, p), cand.last_seen_mono = clock,
           cand.first_seen_wall = candidates[s].first_seen_wall
    PROVE  /\ \E b \in 1..n_ports : StandsFor(cand, recent'[s], b)
           /\ s \notin completed
<1> DEFINE old == recent[s]
           new == recent'[s]
           n == Len(candidates[s].ports)
<1>1. /\ s \in DOMAIN candidates /\ s \in DOMAIN sweep_expired
      /\ clock - candidates[s].last_seen_mono <= inactivity_timeout
  BY SweptCandidates DEF Extends
<1>2. /\ candidates[s].ports \in Seq(KnockPorts) /\ n \in Nat /\ n > 0 /\ clock \in Nat
  BY <1>1 DEF IInv, TypeOK, CandidateInv, KeepsPace, Candidate
<1>3. /\ Len(cand.ports) = n + 1 /\ cand.ports[n + 1] = p
      /\ \A i \in 1..n : cand.ports[i] = candidates[s].ports[i]
  BY <1>2 DEF Extended
<1>4. s \notin completed /\ \E b \in 1..n_ports : StandsFor(candidates[s], old, b)
  BY <1>1 DEF CandidatesStand, Extends
<1>5. PICK b \in 1..n_ports : StandsFor(candidates[s], old, b)
  BY <1>4
<1>6. /\ b \in 1..Len(old) /\ n = Len(old) - b + 1
      /\ candidates[s].first_seen_wall = old[b].captured_at
      /\ candidates[s].last_seen_mono = old[Len(old)].at
      /\ \A i \in b..Len(old) : candidates[s].ports[i - b + 1] = old[i].port
      /\ \A i \in b..(Len(old) - 1) : old[i + 1].at - old[i].at <= inactivity_timeout
  BY <1>5 DEF StandsFor
<1>7. /\ Len(old) \in Nat /\ Len(old) <= n_ports /\ Len(new) \in 1..n_ports
      /\ Len(new) = IF Len(old) < n_ports THEN Len(old) + 1 ELSE n_ports
      /\ new[Len(new)] = Packet(p, captured_at)
      /\ \A i \in 1..(Len(new) - 1) : new[i] = old[i + (Len(old) + 1 - Len(new))]
  BY <1>2, <1>4, RecordShape DEF Before
<1>8. /\ new[Len(new)].port = p /\ new[Len(new)].at = clock
  BY <1>7 DEF Packet
<1>9. n + 1 <= n_ports /\ n_ports \in Nat
  BY <1>3, DerivationAssumption
<1> HIDE DEF old, new, n
<1>10. PICK d \in Nat, m \in 1..n_ports :
          /\ d = Len(old) + 1 - Len(new) /\ m \in 1..(Len(new) - 1) /\ m + d = b
          /\ Len(new) + d = Len(old) + 1 /\ (Len(old) - b + 1) + 1 = Len(new) - m + 1
  <2>1. /\ n_ports \in Nat /\ Len(old) \in Nat /\ b \in Nat
        /\ b \in 1..Len(old) /\ Len(old) <= n_ports
        /\ Len(old) - b + 2 <= n_ports /\ Len(new) \in Nat
        /\ Len(new) = IF Len(old) < n_ports THEN Len(old) + 1 ELSE n_ports
    <3>1. /\ n_ports \in Nat /\ Len(old) \in Nat /\ b \in 1..Len(old) /\ Len(old) <= n_ports
          /\ n + 1 <= n_ports /\ Len(new) \in 1..n_ports /\ n = Len(old) - b + 1
          /\ Len(new) = IF Len(old) < n_ports THEN Len(old) + 1 ELSE n_ports
      BY <1>6, <1>7, <1>9
    <3> QED BY <3>1
  <2>2. \A lo, ln \in Nat :
           /\ b \in 1..lo /\ lo <= n_ports /\ lo - b + 2 <= n_ports
           /\ ln = IF lo < n_ports THEN lo + 1 ELSE n_ports
           => \E d \in Nat, m \in 1..n_ports :
              /\ d = lo + 1 - ln /\ m \in 1..(ln - 1) /\ m + d = b
              /\ ln + d = lo + 1 /\ (lo - b + 1) + 1 = ln - m + 1
    BY <2>1, ShiftedPosition
  <2> QED BY ONLY <2>1, <2>2
<1>16. /\ \A i \in 1..(Len(new) - 1) : new[i] = old[i + d]
       /\ n + 1 = Len(new) - m + 1
  BY <1>6, <1>7, <1>10
<1>11. cand.first_seen_wall = new[m].captured_at
  BY <1>6, <1>7, <1>16, <1>10
<1>12. ASSUME NEW i \in m..Len(new)
       PROVE  cand.ports[i - m + 1] = new[i].port
  <2>1. CASE i = Len(new)
    <3>1. i - m + 1 = n + 1
      BY <1>16, <2>1
    <3> QED BY <1>3, <1>8, <2>1, <3>1
  <2>2. CASE i # Len(new)
    <3>1. /\ i \in 1..(Len(new) - 1) /\ i - m + 1 \in 1..n
          /\ i + d \in b..Len(old) /\ (i + d) - b + 1 = i - m + 1
      <4>1. /\ Len(new) \in Nat /\ Len(old) \in Nat /\ d \in Nat /\ m \in Nat /\ b \in Nat
            /\ m >= 1 /\ m + d = b /\ Len(new) + d = Len(old) + 1 /\ n + 1 = Len(new) - m + 1
            /\ n \in Nat /\ i \in m..Len(new) /\ i # Len(new)
        BY <1>2, <1>6, <1>7, <1>16, <1>10, <2>2
      <4> QED BY ONLY <4>1
    <3>2. new[i] = old[i + d]
      BY <1>7, <1>16, <3>1
    <3>3. candidates[s].ports[i - m + 1] = old[i + d].port
      BY <1>6, <3>1
    <3> QED BY <1>3, <3>1, <3>2, <3>3
  <2> QED BY <2>1, <2>2
<1>13. ASSUME NEW i \in m..(Len(new) - 1)
       PROVE  new[i + 1].at - new[i].at <= inactivity_timeout
  <2>1. i \in 1..(Len(new) - 1) /\ new[i] = old[i + d] /\ i + d \in b..Len(old)
    <3>1. /\ Len(new) \in Nat /\ Len(old) \in Nat /\ d \in Nat /\ m \in Nat /\ b \in Nat
          /\ m >= 1 /\ m + d = b /\ Len(new) + d = Len(old) + 1 /\ i \in m..(Len(new) - 1)
      BY <1>6, <1>7, <1>16, <1>10
    <3>2. i \in 1..(Len(new) - 1) /\ i + d \in b..Len(old)
      BY ONLY <3>1
    <3> QED BY <1>7, <1>16, <3>2
  <2>2. CASE i = Len(new) - 1
    <3>1. i + d = Len(old) /\ i + 1 = Len(new)
      <4>1. /\ Len(new) \in Nat /\ Len(old) \in Nat /\ d \in Nat
            /\ Len(new) + d = Len(old) + 1 /\ i = Len(new) - 1
        BY <1>7, <1>16, <1>10, <2>2
      <4> QED BY ONLY <4>1
    <3>2. new[i] = old[Len(old)] /\ new[i + 1].at = clock
      BY <1>8, <2>1, <3>1
    <3> QED BY <1>1, <1>6, <3>2
  <2>3. CASE i # Len(new) - 1
    <3>1. /\ i + 1 \in 1..(Len(new) - 1) /\ (i + 1) + d = (i + d) + 1
          /\ i + d \in b..(Len(old) - 1)
      <4>1. /\ Len(new) \in Nat /\ Len(old) \in Nat /\ d \in Nat /\ m \in Nat /\ b \in Nat
            /\ m >= 1 /\ m + d = b /\ Len(new) + d = Len(old) + 1
            /\ i \in m..(Len(new) - 1) /\ i # Len(new) - 1
        BY <1>6, <1>7, <1>16, <1>10, <2>3
      <4> QED BY ONLY <4>1
    <3>2. new[i + 1] = old[(i + d) + 1]
      <4>1. new[i + 1] = old[(i + 1) + d]
        BY <1>16, <3>1
      <4> QED BY <3>1, <4>1
    <3> QED BY <1>6, <2>1, <3>1, <3>2
  <2> QED BY <2>2, <2>3
<1>14. StandsFor(cand, new, m)
  BY <1>3, <1>7, <1>16, <1>8, <1>10, <1>11, <1>12, <1>13 DEF StandsFor
<1> QED BY <1>4, <1>10, <1>14 DEF new

-----------------------------------------------------------------------------
(***************************************************************************)
(* Record and the types: only the packets of s change, and s has completed *)
(* a knock exactly when the step erased its candidate.                     *)
(***************************************************************************)
LEMMA RecordFrame ==
    ASSUME HistoryTypeOK, NEW s \in Sources, NEW p, NEW captured_at, Record(s, p, captured_at)
    PROVE  /\ DOMAIN recent' = Sources
           /\ \A x \in Sources : x # s => recent'[x] = recent[x]
           /\ \A x \in Sources : x # s => (x \in completed' <=> x \in completed)
           /\ s \in completed' <=> Completing(s)
           /\ completed' \subseteq Sources
BY DEF HistoryTypeOK, Record

LEMMA RecordKeepsType ==
    ASSUME HistoryTypeOK, clock \in Nat, clock' = clock,
           NEW s \in Sources, NEW p \in KnockPorts,
           NEW captured_at \in (clock - LAG)..(clock + LEAD), Record(s, p, captured_at)
    PROVE  HistoryTypeOK'
<1> DEFINE S == {x \in PacketType : x.captured_at <= MAX_CLOCK + LEAD}
           pk == Packet(p, captured_at)
           full == Append(Before(s), pk)
<1>1. pk \in S
  <2>1. captured_at \in Int /\ captured_at <= MAX_CLOCK + LEAD
    BY SessionAssumption DEF HistoryTypeOK
  <2> QED BY <2>1 DEF Packet, PacketType
<1>2. \A x \in Sources : recent[x] \in Seq(S)
  <2> TAKE x \in Sources
  <2>1. recent[x] \in Seq(PacketType)
    BY DEF HistoryTypeOK, PacketType
  <2>2. \A i \in 1..Len(recent[x]) : recent[x][i] \in PacketType
    BY <2>1, ElementOfSeq
  <2>3. \A i \in 1..Len(recent[x]) : recent[x][i] \in S
    BY <2>2 DEF HistoryTypeOK
  <2> HIDE DEF S
  <2>4. Len(recent[x]) \in Nat /\ DOMAIN recent[x] = 1..Len(recent[x])
    BY <2>1
  <2>5. recent[x] = [i \in 1..Len(recent[x]) |-> recent[x][i]]
    BY <2>1
  <2> QED BY <2>3, <2>4, <2>5
<1>3. Before(s) \in Seq(S)
  <2>1. <<>> \in Seq(S)
    OBVIOUS
  <2> QED BY <1>2, <2>1 DEF Before
<1>4. recent'[s] = LastOf(full, n_ports)
  BY DEF Record, HistoryTypeOK, Before
<1> HIDE DEF S, pk
<1>5. full \in Seq(S)
  BY <1>1, <1>3
<1> HIDE DEF full
<1>6. recent'[s] \in Seq(S) /\ Len(recent'[s]) <= n_ports
  <2>1. LastOf(full, n_ports) \in Seq(S)
    BY <1>5, LastOfProperties, DerivationAssumption
  <2>2. Len(full) \in Nat /\ n_ports \in Nat
    BY <1>5, DerivationAssumption
  <2>3. Len(LastOf(full, n_ports)) = IF Len(full) <= n_ports THEN Len(full) ELSE n_ports
    BY <1>5, LastOfProperties, DerivationAssumption
  <2> QED BY <1>4, <2>1, <2>2, <2>3
<1>7. /\ recent'[s] \in Seq(PacketType)
      /\ \A i \in 1..Len(recent'[s]) : recent'[s][i].captured_at <= MAX_CLOCK + LEAD
  <2> DEFINE r == recent'[s]
  <2> HIDE DEF r
  <2>1. r \in Seq(S)
    BY <1>6 DEF r
  <2>2. \A i \in 1..Len(r) : r[i] \in S
    BY <2>1, ElementOfSeq
  <2>3. \A i \in 1..Len(r) : r[i] \in PacketType /\ r[i].captured_at <= MAX_CLOCK + LEAD
    BY <2>2 DEF S
  <2>4. Len(r) \in Nat /\ r = [i \in 1..Len(r) |-> r[i]]
    BY <2>1
  <2>5. r \in Seq(PacketType)
    BY <2>3, <2>4
  <2> QED BY <2>3, <2>5 DEF r
<1>8. recent' \in [Sources -> Seq(PacketType)]
  <2>1. recent \in [Sources -> Seq(PacketType)]
    BY DEF HistoryTypeOK, PacketType
  <2>2. recent' = [recent EXCEPT ![s] = recent'[s]]
    BY DEF Record, HistoryTypeOK
  <2> QED BY <1>7, <2>1, <2>2
<1>9. clock' <= MAX_CLOCK
  BY DEF HistoryTypeOK
<1> QED BY <1>6, <1>7, <1>8, <1>9, RecordFrame DEF HistoryTypeOK, PacketType

-----------------------------------------------------------------------------
(***************************************************************************)
(* Soundness: what completes is a knock of the source's own last packets.  *)
(***************************************************************************)
LEMMA CompletesKnock ==
    ASSUME IInv, HistoryTypeOK, CandidatesStand, clock' = clock,
           NEW s \in Sources, NEW p \in KnockPorts,
           NEW captured_at \in (clock - LAG)..(clock + LEAD), Record(s, p, captured_at),
           Extends(s), NEW w, NEW c, IsFirstMatch(candidates[s], Extended(s, p), w, c)
    PROVE  /\ IsKnock(recent'[s], w, c) /\ w \in NearWindows /\ c \in Channels
           /\ \A v \in NearWindows, d \in Channels :
                 IsKnock(recent'[s], v, d) => w < v \/ (w = v /\ c <= d)
<1> DEFINE new == recent'[s]
           cand == [candidates[s] EXCEPT !.ports = Extended(s, p), !.last_seen_mono = clock]
<1>1. clock \in Nat /\ CandidateTypeOK /\ CandidateInv /\ n_ports \in Nat /\ n_ports > 0
  BY DerivationAssumption DEF IInv, TypeOK, CandidateTypeOK, Extends, ValidArguments
<1>2. /\ cand.ports = Extended(s, p) /\ cand.last_seen_mono = clock
      /\ cand.first_seen_wall = candidates[s].first_seen_wall
  BY <1>1, ExtensionKeepsPace, SweptCandidates DEF Extends, CandidateTypeOK, Candidate
<1>3. /\ w \in candidate_windows(time_counter_for(cand.first_seen_wall)) /\ c \in Channels
      /\ Len(cand.ports) = n_ports
      /\ \A i \in 1..Len(cand.ports) : cand.ports[i] = derive_ports(w, c)[i]
  BY <1>2 DEF IsFirstMatch, IsFullMatch, IsPrefixOf, Tried
<1> HIDE DEF cand
<1>4. PICK b \in 1..n_ports : StandsFor(cand, new, b)
  BY <1>1, <1>2, <1>3, ExtensionStands
<1>5. /\ Len(new) \in 1..n_ports /\ new \in Seq(PacketType)
      /\ new[Len(new)] = Packet(p, captured_at)
  BY <1>1, RecordShape
<1>6. HistoryTypeOK'
  BY <1>1, RecordKeepsType
<1> HIDE DEF new
<1>7. /\ b \in 1..Len(new) /\ Len(cand.ports) = Len(new) - b + 1
      /\ cand.first_seen_wall = new[b].captured_at
      /\ \A i \in b..Len(new) : cand.ports[i - b + 1] = new[i].port
      /\ \A i \in b..(Len(new) - 1) : new[i + 1].at - new[i].at <= inactivity_timeout
  BY <1>4 DEF StandsFor
<1>8. b = 1 /\ Len(new) = n_ports
  BY <1>1, <1>3, <1>5, <1>7
<1>9. Spells(new, w, c)
  <2>1. \A i \in 1..n_ports : i - 1 + 1 = i
    OBVIOUS
  <2>2. \A i \in 1..n_ports : cand.ports[i] = new[i].port
    BY <1>7, <1>8, <2>1
  <2> QED BY <1>3, <1>8, <2>2 DEF Spells
<1>10. Prompt(new) /\ new # <<>>
  <2>1. Len(new) # 0
    BY <1>1, <1>8
  <2> QED BY <1>7, <1>8, <2>1 DEF Prompt
<1>11. w \in candidate_windows(time_counter_for(new[1].captured_at))
  BY <1>3, <1>7, <1>8
<1>12. w \in NearWindows
  <2>1. new[1] \in PacketType
    BY <1>1, <1>5, <1>8, ElementOfSeq
  <2>2. new[1].captured_at \in Int /\ new[1].captured_at <= MAX_CLOCK + LEAD
    BY <1>1, <1>6, <1>8, <2>1 DEF HistoryTypeOK, PacketType, new
  <2> QED BY <1>11, <2>2, WindowIsNear
<1>13. ASSUME NEW v \in NearWindows, NEW d \in Channels, IsKnock(new, v, d)
       PROVE  w < v \/ (w = v /\ c <= d)
  <2>1. \A i \in 1..n_ports : i - 1 + 1 = i
    OBVIOUS
  <2>2. \A i \in 1..n_ports : cand.ports[i] = derive_ports(v, d)[i]
    BY <1>7, <1>8, <1>13, <2>1 DEF IsKnock, Spells
  <2>3. v \in candidate_windows(time_counter_for(candidates[s].first_seen_wall))
    BY <1>2, <1>7, <1>8, <1>13 DEF IsKnock
  <2>4. <<v, d>> \in Tried(candidates[s]) /\ IsFullMatch(Extended(s, p), v, d)
    BY <1>1, <1>2, <1>3, <2>2, <2>3 DEF Tried, IsFullMatch, IsPrefixOf
  <2> QED BY <2>4 DEF IsFirstMatch
<1> QED BY <1>3, <1>9, <1>10, <1>11, <1>12, <1>13 DEF IsKnock, new

-----------------------------------------------------------------------------
(***************************************************************************)
(* Completeness: what has begun like a knock is a packet longer than what  *)
(* had begun like it before.                                               *)
(***************************************************************************)
BegunEarlier(s, p, n, w, c) ==
    \E e \in 1..n_ports :
        /\ Begun(recent[s], e, w, c)
        /\ Len(recent[s]) - e + 1 = n
        /\ p = derive_ports(w, c)[(Len(recent[s]) - e + 1) + 1]

LEMMA BegunBefore ==
    ASSUME HistoryTypeOK, clock \in Nat, n_ports > 0,
           NEW s \in Sources, NEW p \in KnockPorts,
           NEW captured_at \in (clock - LAG)..(clock + LEAD), Record(s, p, captured_at),
           NEW b, NEW w, NEW c, Begun(recent'[s], b, w, c), b # Len(recent'[s])
    PROVE  /\ s \notin completed
           /\ clock - recent[s][Len(recent[s])].at <= inactivity_timeout
           /\ BegunEarlier(s, p, Len(recent'[s]) - b, w, c)
<1> DEFINE old == Before(s)
           new == recent'[s]
<1>1. /\ Len(old) \in Nat /\ Len(old) <= n_ports /\ Len(new) \in 1..n_ports
      /\ Len(new) = IF Len(old) < n_ports THEN Len(old) + 1 ELSE n_ports
      /\ new[Len(new)] = Packet(p, captured_at)
      /\ \A i \in 1..(Len(new) - 1) : /\ i + (Len(old) + 1 - Len(new)) \in 1..Len(old)
                                      /\ new[i] = old[i + (Len(old) + 1 - Len(new))]
  BY RecordShape
<1>2. new[Len(new)].port = p /\ new[Len(new)].at = clock
  BY <1>1 DEF Packet
<1>3. /\ b \in 1..Len(new) /\ Len(new) - b < n_ports
      /\ w \in candidate_windows(time_counter_for(new[b].captured_at))
      /\ \A i \in b..Len(new) : new[i].port = derive_ports(w, c)[i - b + 1]
      /\ \A i \in b..(Len(new) - 1) : new[i + 1].at - new[i].at <= inactivity_timeout
      /\ b # Len(new)
  BY DEF Begun
<1> HIDE DEF old, new
<1>4. PICK d \in Nat : Len(new) + d = Len(old) + 1 /\ Len(old) + 1 - Len(new) = d
  <2>1. n_ports \in Nat
    BY DerivationAssumption
  <2>2. Len(old) + 1 - Len(new) \in Nat
    BY <1>1, <2>1
  <2>3. Len(new) + (Len(old) + 1 - Len(new)) = Len(old) + 1
    BY <1>1, <2>1
  <2> QED BY <2>2, <2>3
<1>5. \A i \in 1..(Len(new) - 1) : i + d \in 1..Len(old) /\ new[i] = old[i + d]
  BY <1>1, <1>4
<1>6. b \in 1..(Len(new) - 1) /\ b + d \in 1..Len(old)
  BY <1>1, <1>3, <1>5
<1> DEFINE e == b + d
<1>7. /\ e \in 1..Len(old) /\ e \in 1..n_ports /\ Len(old) - e = Len(new) - b - 1
      /\ Len(old) - e + 1 = Len(new) - b /\ Len(old) - e < n_ports
      /\ (Len(old) - e + 1) + 1 = Len(new) - b + 1 /\ Len(new) - 1 + d = Len(old)
      /\ Len(new) - 1 \in b..(Len(new) - 1)
  <2>1. /\ n_ports \in Nat /\ Len(old) \in Nat /\ Len(new) \in Nat /\ d \in Nat
        /\ Len(new) + d = Len(old) + 1 /\ b \in 1..(Len(new) - 1) /\ b + d \in 1..Len(old)
        /\ Len(old) <= n_ports /\ Len(new) - b < n_ports
    BY <1>1, <1>3, <1>4, <1>6, DerivationAssumption
  <2> QED BY ONLY <2>1 DEF e
<1>8. new[b] = old[e] /\ new[Len(new) - 1] = old[Len(old)]
  <2>1. Len(new) - 1 \in 1..(Len(new) - 1)
    BY <1>1, <1>6
  <2> QED BY <1>5, <1>6, <1>7, <2>1 DEF e
<1>9. \A i \in e..Len(old) : old[i].port = derive_ports(w, c)[i - e + 1]
  <2> TAKE i \in e..Len(old)
  <2>1. /\ i - d \in 1..(Len(new) - 1) /\ (i - d) + d = i /\ i - d \in b..Len(new)
        /\ (i - d) - b + 1 = i - e + 1
    <3>1. /\ Len(old) \in Nat /\ Len(new) \in Nat /\ d \in Nat /\ b \in Nat /\ b >= 1
          /\ Len(new) + d = Len(old) + 1 /\ i \in (b + d)..Len(old)
      BY <1>1, <1>4, <1>6 DEF e
    <3> QED BY ONLY <3>1 DEF e
  <2>2. new[i - d] = old[i]
    BY <1>5, <2>1
  <2> HIDE DEF e
  <2> QED BY <1>3, <2>1, <2>2
<1>10. \A i \in e..(Len(old) - 1) : old[i + 1].at - old[i].at <= inactivity_timeout
  <2> TAKE i \in e..(Len(old) - 1)
  <2>1. /\ i - d \in 1..(Len(new) - 1) /\ (i - d) + d = i /\ i - d \in b..(Len(new) - 1)
        /\ (i - d) + 1 \in 1..(Len(new) - 1) /\ ((i - d) + 1) + d = i + 1
    <3>1. /\ Len(old) \in Nat /\ Len(new) \in Nat /\ d \in Nat /\ b \in Nat /\ b >= 1
          /\ Len(new) + d = Len(old) + 1 /\ i \in (b + d)..(Len(old) - 1)
      BY <1>1, <1>4, <1>6 DEF e
    <3> QED BY ONLY <3>1
  <2>2. new[i - d] = old[i]
    BY <1>5, <2>1
  <2>3. new[(i - d) + 1] = old[i + 1]
    <3>1. new[(i - d) + 1] = old[((i - d) + 1) + d]
      BY <1>5, <2>1
    <3> QED BY <2>1, <3>1
  <2> QED BY <1>3, <2>1, <2>2, <2>3
<1>11. clock - old[Len(old)].at <= inactivity_timeout
  <2>1. (Len(new) - 1) + 1 = Len(new)
    BY <1>1
  <2>2. new[(Len(new) - 1) + 1].at - new[Len(new) - 1].at <= inactivity_timeout
    BY <1>3, <1>7
  <2> QED BY <1>2, <1>8, <2>1, <2>2
<1>12. p = derive_ports(w, c)[(Len(old) - e + 1) + 1]
  <2>1. Len(new) \in b..Len(new)
    BY <1>1, <1>3
  <2> QED BY <1>2, <1>3, <1>7, <2>1
<1>13. s \notin completed /\ old = recent[s]
  <2>1. CASE s \in completed
    <3>1. Len(old) = 0
      BY <2>1 DEF old, Before
    <3> QED BY <1>7, <3>1
  <2> QED BY <2>1 DEF old, Before
<1> HIDE DEF e
<1>14. Begun(old, e, w, c)
  BY <1>3, <1>7, <1>8, <1>9, <1>10 DEF Begun
<1> QED BY <1>7, <1>11, <1>12, <1>13, <1>14 DEF new, BegunEarlier

-----------------------------------------------------------------------------
(***************************************************************************)
(* One packet keeps each part of the invariant.                            *)
(***************************************************************************)
LEMMA CompletingSteps ==
    ASSUME NEW s \in Sources, NEW p, NEW captured_at, on_packet(s, p, captured_at),
           Completing(s)
    PROVE  /\ Extends(s)
           /\ \E w, c : IsFirstMatch(candidates[s], Extended(s, p), w, c)
BY DEF on_packet, Completing, StartCandidate, BreakSequence, ExtendCandidate,
       RejectReplay, AcceptMatch, DerivationThrows, Put

LEMMA PacketKeepsCompleted ==
    ASSUME HistoryInv, NEW s \in Sources, NEW p \in KnockPorts,
           NEW captured_at \in (clock - LAG)..(clock + LEAD),
           on_packet(s, p, captured_at), Record(s, p, captured_at)
    PROVE  CompletedIsKnock'
<1> SUFFICES ASSUME NEW x \in completed'
             PROVE  \E w \in NearWindows, c \in Channels : IsKnock(recent'[x], w, c)
  BY DEF CompletedIsKnock
<1>1. HistoryTypeOK /\ IInv /\ CandidatesStand /\ CompletedIsKnock /\ clock' = clock
  BY OthersAreSwept DEF HistoryInv
<1>2. x \in Sources
  BY <1>1, RecordFrame
<1>3. CASE x # s
  BY <1>1, <1>2, <1>3, RecordFrame DEF CompletedIsKnock
<1>4. CASE x = s
  <2>1. Completing(s)
    BY <1>1, <1>4, RecordFrame
  <2>2. Extends(s)
    BY <2>1, CompletingSteps
  <2>3. PICK w, c : IsFirstMatch(candidates[s], Extended(s, p), w, c)
    BY <2>1, CompletingSteps
  <2> QED BY <1>1, <1>4, <2>2, <2>3, CompletesKnock
<1> QED BY <1>3, <1>4

LEMMA PacketKeepsStanding ==
    ASSUME HistoryInv, NEW s \in Sources, NEW p \in KnockPorts,
           NEW captured_at \in (clock - LAG)..(clock + LEAD),
           on_packet(s, p, captured_at), Record(s, p, captured_at)
    PROVE  CandidatesStand'
<1> SUFFICES ASSUME n_ports > 0, ~aborted', NEW x \in DOMAIN candidates'
             PROVE  /\ x \notin completed'
                    /\ \E b \in 1..n_ports : StandsFor(candidates'[x], recent'[x], b)
  BY DEF CandidatesStand, StandsFor
<1>1. /\ HistoryTypeOK /\ IInv /\ CandidatesStand /\ clock' = clock /\ ~aborted
      /\ clock \in Nat /\ DOMAIN candidates \subseteq Sources
      /\ CandidateTypeOK /\ CandidateInv
  BY OthersAreSwept DEF HistoryInv, IInv, TypeOK, CandidateTypeOK
<1>2. CASE x # s
  <2>1. x \in DOMAIN candidates /\ candidates'[x] = candidates[x] /\ x \in Sources
    BY <1>1, <1>2, OthersAreSwept
  <2>2. recent'[x] = recent[x] /\ (x \in completed' <=> x \in completed)
    BY <1>1, <1>2, <2>1, RecordFrame
  <2> QED BY <1>1, <2>1, <2>2 DEF CandidatesStand
<1>3. CASE x = s
  <2>1. s \notin completed'
    BY <1>1, <1>3, RecordFrame DEF Completing
  <2>2. CASE StartCandidate(s, p, captured_at) \/ BreakSequence(s, p, captured_at)
    <3>1. candidates'[s] = Fresh(p, captured_at)
      BY <2>2 DEF StartCandidate, BreakSequence, Put
    <3> QED BY <1>1, <1>3, <2>1, <3>1, FreshStands
  <2>3. CASE ExtendCandidate(s, p)
    <3> DEFINE cand == [candidates[s] EXCEPT !.ports = Extended(s, p),
                                             !.last_seen_mono = clock]
    <3>1. Extends(s) /\ candidates'[s] = cand /\ Fits(candidates[s], Extended(s, p))
      BY <2>3 DEF ExtendCandidate, Put
    <3>2. /\ cand.ports = Extended(s, p) /\ cand.first_seen_wall = candidates[s].first_seen_wall
          /\ cand.last_seen_mono = clock
      BY <1>1, <3>1, ExtensionKeepsPace, SweptCandidates DEF Extends, CandidateTypeOK, Candidate
    <3>3. Len(Extended(s, p)) <= n_ports
      BY <3>1 DEF Fits, IsPrefixOf
    <3> HIDE DEF cand
    <3> QED BY <1>1, <1>3, <2>1, <3>1, <3>2, <3>3, ExtensionStands
  <2>4. CASE candidates' = Drop(sweep_expired, s)
    BY <1>3, <2>4 DEF Drop
  <2>5. CASE aborted'
    BY <2>5
  <2> QED BY <2>2, <2>3, <2>4, <2>5 DEF on_packet, RejectReplay, AcceptMatch, DerivationThrows
<1> QED BY <1>2, <1>3

LEMMA PacketKeepsBegun ==
    ASSUME HistoryInv, NEW s \in Sources, NEW p \in KnockPorts,
           NEW captured_at \in (clock - LAG)..(clock + LEAD),
           on_packet(s, p, captured_at), Record(s, p, captured_at)
    PROVE  BegunIsCandidate'
<1> SUFFICES ASSUME n_ports > 1, ~aborted',
                    NEW x \in Sources \ completed', NEW b \in 1..n_ports,
                    NEW w \in NearWindows, NEW c \in Channels, Begun(recent'[x], b, w, c),
                    StartIsDistinct(w, c)
             PROVE  /\ Len(recent'[x]) - b + 1 < n_ports
                    /\ \/ /\ x \in DOMAIN candidates'
                          /\ Len(candidates'[x].ports) = Len(recent'[x]) - b + 1
                       \/ clock' - recent'[x][Len(recent'[x])].at > inactivity_timeout
  BY DEF BegunIsCandidate, Begun
<1>1. /\ HistoryTypeOK /\ IInv /\ CandidatesStand /\ BegunIsCandidate /\ clock' = clock
      /\ ~aborted /\ clock \in Nat /\ DOMAIN candidates \subseteq Sources
      /\ CandidateTypeOK /\ CandidateInv /\ n_ports \in Nat /\ n_ports > 0
  BY OthersAreSwept, DerivationAssumption DEF HistoryInv, IInv, TypeOK, CandidateTypeOK
<1>2. CASE x # s
  <2>1. /\ recent'[x] = recent[x] /\ x \notin completed /\ x \in Sources
    BY <1>1, <1>2, RecordFrame
  <2>2. /\ Len(recent[x]) - b + 1 < n_ports
        /\ \/ /\ x \in DOMAIN candidates
              /\ Len(candidates[x].ports) = Len(recent[x]) - b + 1
           \/ clock - recent[x][Len(recent[x])].at > inactivity_timeout
    BY <1>1, <2>1 DEF BegunIsCandidate
  <2>3. CASE clock - recent[x][Len(recent[x])].at > inactivity_timeout
    BY <1>1, <2>1, <2>2, <2>3
  <2>4. CASE /\ x \in DOMAIN candidates
             /\ Len(candidates[x].ports) = Len(recent[x]) - b + 1
    <3>1. CASE x \in DOMAIN candidates' /\ candidates'[x] = candidates[x]
      BY <2>1, <2>2, <2>4, <3>1
    <3>2. CASE ~(clock - candidates[x].last_seen_mono <= inactivity_timeout)
      <4>1. candidates[x].last_seen_mono = recent[x][Len(recent[x])].at
        BY <1>1, <2>4 DEF CandidatesStand, StandsFor
      <4>2. candidates[x].last_seen_mono \in Nat
        BY <1>1, <2>4 DEF CandidateTypeOK, Candidate
      <4>3. clock - candidates[x].last_seen_mono > inactivity_timeout
        BY <1>1, <3>2, <4>2, SessionAssumption
      <4> QED BY <1>1, <2>1, <2>2, <4>1, <4>3
    <3> QED BY <1>2, <2>4, <3>1, <3>2, OthersAreSwept
  <2> QED BY <2>2, <2>3, <2>4
<1>3. CASE x = s
  <2> DEFINE n == Len(candidates[s].ports)
  <2>1. ~Completing(s) /\ Len(recent'[s]) \in 1..n_ports
    BY <1>1, <1>3, RecordFrame, RecordShape
  <2>2. ASSUME s \in DOMAIN sweep_expired
        PROVE  /\ candidates[s].ports \in Seq(KnockPorts) /\ n \in Nat /\ n > 0
               /\ Len(Extended(s, p)) = n + 1 /\ Extended(s, p)[n + 1] = p
               /\ \A i \in 1..n : Extended(s, p)[i] = candidates[s].ports[i]
    <3>1. candidates[s] \in Candidate /\ KeepsPace(candidates[s])
      BY <1>1, <2>2, SweptCandidates DEF CandidateTypeOK, CandidateInv
    <3> QED BY <3>1 DEF Candidate, KeepsPace, Extended
  \* The knock begins with this packet: it has made a candidate of its own.
  <2>3. CASE b = Len(recent'[s])
    <3>1. Len(recent'[s]) - b + 1 = 1
      BY <2>1, <2>3
    <3>2. p = derive_ports(w, c)[1]
      <4>1. recent'[s][b].port = p
        <5>1. recent'[s][Len(recent'[s])] = Packet(p, captured_at)
          BY <1>1, RecordShape
        <5> QED BY <2>3, <5>1 DEF Packet
      <4>2. recent'[s][b].port = derive_ports(w, c)[b - b + 1]
        BY <1>3, <2>1, <2>3 DEF Begun
      <4>3. b - b + 1 = 1
        OBVIOUS
      <4> QED BY <4>1, <4>2, <4>3
    <3>3. ~Extends(s) \/ ~Fits(candidates[s], Extended(s, p))
      <4> SUFFICES ASSUME Extends(s), Fits(candidates[s], Extended(s, p)) PROVE FALSE
        OBVIOUS
      <4>1. s \in DOMAIN sweep_expired
        BY DEF Extends
      <4>2. PICK v \in candidate_windows(time_counter_for(candidates[s].first_seen_wall)),
                 k \in Channels : IsPrefixOf(Extended(s, p), v, k)
        BY DEF Fits, Tried
      <4>3. n + 1 \in 2..n_ports /\ p = derive_ports(v, k)[n + 1]
        BY <1>1, <2>2, <4>1, <4>2 DEF IsPrefixOf
      \* A port that makes another knock complete would have ended this one.
      <4>4. n + 1 # n_ports
        <5> SUFFICES ASSUME n + 1 = n_ports PROVE FALSE
          OBVIOUS
        <5>1. <<v, k>> \in Tried(candidates[s]) /\ IsFullMatch(Extended(s, p), v, k)
          BY <2>2, <4>1, <4>2 DEF Tried, IsFullMatch
        <5>2. Completes(candidates[s], Extended(s, p))
          BY <5>1 DEF Completes, Tried
        <5>3. candidates' = Drop(sweep_expired, s)
          BY <1>1, <4>1, <5>2 DEF on_packet, StartCandidate, BreakSequence, ExtendCandidate,
                                  RejectReplay, AcceptMatch, DerivationThrows
        <5> QED BY <2>1, <4>1, <5>3 DEF Completing, Drop
      <4>5. v \in Nearby(w)
        <5>1. /\ candidates[s] \in Candidate /\ KeepsPace(candidates[s])
              /\ clock - candidates[s].last_seen_mono <= inactivity_timeout
          BY <1>1, <4>1, SweptCandidates DEF CandidateTypeOK, CandidateInv
        <5>2. w \in candidate_windows(time_counter_for(captured_at))
          <6>1. recent'[s][b].captured_at = captured_at
            <7>1. recent'[s][Len(recent'[s])] = Packet(p, captured_at)
              BY <1>1, RecordShape
            <7> QED BY <2>3, <7>1 DEF Packet
          <6> QED BY <1>3, <6>1 DEF Begun
        <5>3. clock <= MAX_CLOCK /\ n + 1 <= n_ports
          BY <1>1, <4>3 DEF HistoryTypeOK
        <5> QED BY <1>1, <4>2, <5>1, <5>2, <5>3, TriedIsNearby
      <4>6. n + 1 \in 2..(n_ports - 1)
        BY <1>1, <2>2, <4>1, <4>3, <4>4
      <4> QED BY <3>2, <4>3, <4>5, <4>6 DEF StartIsDistinct, StartsLike
    <3>4. StartCandidate(s, p, captured_at) \/ BreakSequence(s, p, captured_at)
      <4>1. ~ExtendCandidate(s, p)
        BY <3>3 DEF ExtendCandidate
      <4>2. ~(candidates' = Drop(sweep_expired, s) /\ Extends(s))
        BY <2>1 DEF Completing, Extends, Drop
      <4> QED BY <4>1, <4>2 DEF on_packet, RejectReplay, AcceptMatch, DerivationThrows
    <3>5. s \in DOMAIN candidates' /\ Len(candidates'[s].ports) = 1
      <4>1. candidates' = Put(sweep_expired, s, Fresh(p, captured_at))
        BY <3>4 DEF StartCandidate, BreakSequence
      <4>2. s \in DOMAIN candidates' /\ candidates'[s] = Fresh(p, captured_at)
        BY <4>1 DEF Put
      <4> QED BY <4>2 DEF Fresh
    <3> QED BY <1>1, <1>3, <3>1, <3>5
  \* The knock had begun before: this packet has extended its candidate.
  <2>4. CASE b # Len(recent'[s])
    <3>1. /\ s \notin completed
          /\ clock - recent[s][Len(recent[s])].at <= inactivity_timeout
      BY <1>1, <1>3, <2>4, BegunBefore
    <3>2. PICK e \in 1..n_ports :
             /\ Begun(recent[s], e, w, c)
             /\ Len(recent[s]) - e + 1 = Len(recent'[s]) - b
             /\ p = derive_ports(w, c)[(Len(recent[s]) - e + 1) + 1]
      <4>1. BegunEarlier(s, p, Len(recent'[s]) - b, w, c)
        BY <1>1, <1>3, <2>4, BegunBefore
      <4> QED BY <4>1 DEF BegunEarlier
    <3>3. /\ Len(recent[s]) - e + 1 < n_ports
          /\ \/ /\ s \in DOMAIN candidates
                /\ n = Len(recent[s]) - e + 1
             \/ clock - recent[s][Len(recent[s])].at > inactivity_timeout
      BY <1>1, <3>1, <3>2 DEF BegunIsCandidate
    <3>4. recent[s] \in Seq(PacketType) /\ Len(recent[s]) \in Nat /\ e \in 1..Len(recent[s])
      <4>1. recent[s] \in Seq(PacketType)
        BY <1>1 DEF HistoryTypeOK, PacketType
      <4>2. e \in 1..Len(recent[s])
        BY <3>2 DEF Begun
      <4> QED BY <4>1, <4>2
    <3>5. recent[s][Len(recent[s])].at \in Nat
      <4>1. recent[s][Len(recent[s])] \in PacketType
        BY <3>4, ElementOfSeq
      <4> QED BY <4>1 DEF PacketType
    <3>6. s \in DOMAIN candidates /\ n = Len(recent[s]) - e + 1
      BY <1>1, <3>1, <3>3, <3>5, SessionAssumption
    <3>7. PICK f \in 1..n_ports : StandsFor(candidates[s], recent[s], f)
      BY <1>1, <3>6 DEF CandidatesStand
    <3>8. f = e
      BY <3>4, <3>6, <3>7 DEF StandsFor
    <3>9. s \in DOMAIN sweep_expired
      <4>1. candidates[s].last_seen_mono = recent[s][Len(recent[s])].at
        BY <3>7 DEF StandsFor
      <4> QED BY <3>1, <3>6, <4>1 DEF sweep_expired
    <3>10. n \in Nat /\ n > 0 /\ n < n_ports /\ p = derive_ports(w, c)[n + 1]
      BY <2>2, <3>2, <3>3, <3>6, <3>9
    <3>11. <<w, c>> \in Tried(candidates[s])
      <4>1. candidates[s].first_seen_wall = recent[s][e].captured_at
        BY <3>7, <3>8 DEF StandsFor
      <4> QED BY <3>2, <4>1 DEF Begun, Tried
    <3>12. IsPrefixOf(Extended(s, p), w, c)
      <4>1. \A i \in 1..n : candidates[s].ports[i] = derive_ports(w, c)[i]
        <5> TAKE i \in 1..n
        <5>1. /\ i + e - 1 \in e..Len(recent[s]) /\ (i + e - 1) - e + 1 = i
          <6>1. /\ n \in Nat /\ e \in Nat /\ Len(recent[s]) \in Nat
                /\ n = Len(recent[s]) - e + 1 /\ i \in 1..n
            BY <3>4, <3>6, <3>10
          <6> QED BY ONLY <6>1
        <5>2. candidates[s].ports[(i + e - 1) - e + 1] = recent[s][i + e - 1].port
          BY <3>7, <3>8, <5>1 DEF StandsFor
        <5>3. recent[s][i + e - 1].port = derive_ports(w, c)[(i + e - 1) - e + 1]
          BY <3>2, <5>1 DEF Begun
        <5> QED BY <5>1, <5>2, <5>3
      <4> HIDE DEF n
      <4>2. \A i \in 1..(n + 1) : i \in 1..n \/ i = n + 1
        BY <3>10
      <4>3. Len(Extended(s, p)) <= n_ports
        BY <1>1, <2>2, <3>9, <3>10
      <4> QED BY <2>2, <3>9, <3>10, <4>1, <4>2, <4>3 DEF IsPrefixOf
    <3>13. Fits(candidates[s], Extended(s, p))
      BY <3>11, <3>12 DEF Fits, Tried
    <3>14. ExtendCandidate(s, p)
      <4>1. ~StartCandidate(s, p, captured_at)
        BY <3>9 DEF StartCandidate
      <4>2. ~BreakSequence(s, p, captured_at)
        BY <3>13 DEF BreakSequence
      <4>3. ~(candidates' = Drop(sweep_expired, s))
        BY <2>1, <3>9 DEF Completing, Drop
      <4> QED BY <4>1, <4>2, <4>3 DEF on_packet, RejectReplay, AcceptMatch, DerivationThrows
    <3>15. n + 1 # n_ports
      <4>1. ~Completes(candidates[s], Extended(s, p))
        BY <3>14 DEF ExtendCandidate
      <4> QED BY <2>2, <3>9, <3>11, <3>12, <4>1 DEF Completes, IsFullMatch, Tried
    <3>16. Len(recent'[s]) - b + 1 = n + 1
      BY <3>2, <3>6
    <3>17. s \in DOMAIN candidates' /\ Len(candidates'[s].ports) = n + 1
      <4>1. /\ s \in DOMAIN candidates'
            /\ candidates'[s] = [candidates[s] EXCEPT !.ports = Extended(s, p),
                                                      !.last_seen_mono = clock]
        BY <3>14 DEF ExtendCandidate, Put
      <4>2. candidates'[s].ports = Extended(s, p)
        BY <1>1, <3>9, <3>14, <4>1, ExtensionKeepsPace DEF ExtendCandidate
      <4> QED BY <2>2, <3>9, <4>1, <4>2
    <3> HIDE DEF n
    <3> QED BY <1>1, <1>3, <3>10, <3>15, <3>16, <3>17
  <2> QED BY <2>3, <2>4
<1> QED BY <1>2, <1>3

LEMMA TickKeepsHistory ==
    ASSUME HistoryInv, Tick, UNCHANGED <<recent, completed>>
    PROVE  HistoryTypeOK' /\ CandidatesStand' /\ CompletedIsKnock' /\ BegunIsCandidate'
<1>1. /\ clock' = clock + 1 /\ clock < MAX_CLOCK /\ candidates' = candidates /\ aborted' = aborted
      /\ recent' = recent /\ completed' = completed
      /\ HistoryTypeOK /\ CandidatesStand /\ CompletedIsKnock /\ BegunIsCandidate
      /\ clock \in Nat
  BY DEF Tick, HistoryInv, IInv, TypeOK
<1>2. HistoryTypeOK'
  <2>1. clock' <= MAX_CLOCK
    BY <1>1, SessionAssumption
  <2> QED BY <1>1, <2>1 DEF HistoryTypeOK
<1>3. CandidatesStand' /\ CompletedIsKnock'
  BY <1>1 DEF CandidatesStand, CompletedIsKnock
<1>4. BegunIsCandidate'
  <2> SUFFICES ASSUME n_ports > 1, ~aborted',
                      NEW x \in Sources \ completed', NEW b \in 1..n_ports,
                      NEW w \in NearWindows, NEW c \in Channels, Begun(recent'[x], b, w, c),
                      StartIsDistinct(w, c)
               PROVE  /\ Len(recent'[x]) - b + 1 < n_ports
                      /\ \/ /\ x \in DOMAIN candidates'
                            /\ Len(candidates'[x].ports) = Len(recent'[x]) - b + 1
                         \/ clock' - recent'[x][Len(recent'[x])].at > inactivity_timeout
    BY DEF BegunIsCandidate, Begun
  <2> /\ x \in Sources \ completed /\ ~aborted /\ Begun(recent[x], b, w, c)
    BY <1>1
  <2>1. /\ Len(recent[x]) - b + 1 < n_ports
        /\ \/ /\ x \in DOMAIN candidates
              /\ Len(candidates[x].ports) = Len(recent[x]) - b + 1
           \/ clock - recent[x][Len(recent[x])].at > inactivity_timeout
    BY <1>1 DEF BegunIsCandidate
  <2>2. recent[x][Len(recent[x])].at \in Nat
    <3>1. recent[x] \in Seq(PacketType) /\ Len(recent[x]) \in 1..Len(recent[x])
      <4>1. recent[x] \in Seq(PacketType)
        BY <1>1 DEF HistoryTypeOK, PacketType
      <4>2. b \in 1..Len(recent[x])
        BY DEF Begun
      <4> QED BY <4>1, <4>2
    <3>2. recent[x][Len(recent[x])] \in PacketType
      BY <3>1, ElementOfSeq
    <3> QED BY <3>2 DEF PacketType
  <2> QED BY <1>1, <2>1, <2>2, SessionAssumption
<1> QED BY <1>2, <1>3, <1>4

LEMMA HistoryNextKeepsInvariant == HistoryInv /\ [HistoryNext]_historyVars => HistoryInv'
<1> SUFFICES ASSUME HistoryInv, [HistoryNext]_historyVars PROVE HistoryInv'
  OBVIOUS
<1>1. IInv'
  <2>1. [Next]_vars
    BY DEF HistoryNext, Next, historyVars, vars
  <2> QED BY <2>1, NextKeepsInvariant DEF HistoryInv
<1>2. ASSUME NEW s \in Sources, NEW p \in KnockPorts,
             NEW captured_at \in (clock - LAG)..(clock + LEAD),
             on_packet(s, p, captured_at), Record(s, p, captured_at)
      PROVE  HistoryInv'
  <2>1. HistoryTypeOK'
    BY <1>2, RecordKeepsType, OthersAreSwept DEF HistoryInv, IInv, TypeOK
  <2> QED BY <1>1, <1>2, <2>1, PacketKeepsStanding, PacketKeepsCompleted, PacketKeepsBegun
          DEF HistoryInv
<1>3. CASE Tick /\ UNCHANGED <<recent, completed>>
  BY <1>1, <1>3, TickKeepsHistory DEF HistoryInv
<1>4. CASE UNCHANGED historyVars
  BY <1>1, <1>4 DEF historyVars, HistoryInv, HistoryTypeOK, CandidatesStand, CompletedIsKnock,
                    BegunIsCandidate
<1> QED BY <1>2, <1>3, <1>4 DEF HistoryNext

LEMMA HistoryInitEstablishesInvariant == HistoryInit => HistoryInv
<1> SUFFICES ASSUME HistoryInit PROVE HistoryInv
  OBVIOUS
<1>1. IInv
  BY InitEstablishesInvariant DEF HistoryInit
<1>2. /\ candidates = EmptyMap /\ DOMAIN candidates = {} /\ completed = {} /\ clock = BOOT
      /\ recent = [s \in Sources |-> <<>>]
  BY DEF HistoryInit, Init, EmptyMap
<1>3. HistoryTypeOK
  <2>1. <<>> \in Seq(PacketType) /\ Len(<<>>) = 0
    OBVIOUS
  <2> QED BY <1>2, <2>1, SessionAssumption, DerivationAssumption DEF HistoryTypeOK, PacketType
<1>4. CandidatesStand /\ CompletedIsKnock
  BY <1>2 DEF CandidatesStand, CompletedIsKnock
<1>5. BegunIsCandidate
  <2>1. \A s \in Sources : \A b, w, c : ~Begun(recent[s], b, w, c)
    BY <1>2 DEF Begun
  <2> QED BY <2>1 DEF BegunIsCandidate
<1> QED BY <1>1, <1>3, <1>4, <1>5 DEF HistoryInv

-----------------------------------------------------------------------------
(***************************************************************************)
(* A candidate stands for the end of what its source has sent, and every   *)
(* beginning of a knock is a candidate or too old to go on.                *)
(***************************************************************************)
THEOREM HistoryInvariance == HistorySpec => []HistoryInv
BY HistoryInitEstablishesInvariant, HistoryNextKeepsInvariant, PTL DEF HistorySpec

(***************************************************************************)
(* Soundness, for every keyed hash and configuration: what on_packet takes *)
(* for a knock, the last n_ports packets of its source spell.              *)
(***************************************************************************)
THEOREM CompletedKnocksAreKnocks == HistorySpec => []CompletedIsKnock
<1>1. HistoryInv => CompletedIsKnock
  BY DEF HistoryInv
<1> QED BY <1>1, HistoryInvariance, PTL

(***************************************************************************)
(* on_match_ is only called for the code that the packets of that source   *)
(* spell, and only by the packet that completes them.                      *)
(***************************************************************************)
LEMMA StepAcceptsSpelt ==
    ASSUME HistoryInv, [HistoryNext]_historyVars
    PROVE  [\A k \in DOMAIN accepted' :
              (k \notin DOMAIN accepted \/ accepted'[k] # accepted[k]) =>
                  /\ k[1] \in completed' /\ IsKnock(recent'[k[1]], k[2], k[3])
                  /\ \A w \in NearWindows, c \in Channels :
                        IsKnock(recent'[k[1]], w, c) =>
                            k[2] < w \/ (k[2] = w /\ k[3] <= c)]_historyVars
<1> SUFFICES ASSUME NEW k \in DOMAIN accepted',
                    k \notin DOMAIN accepted \/ accepted'[k] # accepted[k]
             PROVE  /\ k[1] \in completed' /\ IsKnock(recent'[k[1]], k[2], k[3])
                    /\ \A w \in NearWindows, c \in Channels :
                          IsKnock(recent'[k[1]], w, c) =>
                              k[2] < w \/ (k[2] = w /\ k[3] <= c)
  OBVIOUS
<1>1. ~UNCHANGED accepted
  OBVIOUS
<1>2. PICK s \in Sources, p \in KnockPorts, captured_at \in (clock - LAG)..(clock + LEAD) :
          on_packet(s, p, captured_at) /\ Record(s, p, captured_at)
  BY <1>1 DEF HistoryNext, Tick, historyVars
<1>3. PICK x \in Tried(candidates[s]) : AcceptMatch(s, p, x[1], x[2])
  BY <1>1, <1>2 DEF on_packet, StartCandidate, BreakSequence, ExtendCandidate, RejectReplay,
                    DerivationThrows
<1>4. k = <<s, x[1], x[2]>>
  BY <1>3 DEF AcceptMatch, Put
<1>5. /\ Extends(s) /\ IsFirstMatch(candidates[s], Extended(s, p), x[1], x[2])
      /\ Completing(s) /\ clock' = clock
  BY <1>3 DEF AcceptMatch, Extends, Completing, Drop
<1>6. /\ IsKnock(recent'[s], x[1], x[2])
      /\ \A w \in NearWindows, c \in Channels :
            IsKnock(recent'[s], w, c) => x[1] < w \/ (x[1] = w /\ x[2] <= c)
  <2> DEFINE v == x[1]
             d == x[2]
  <2>1. /\ Extends(s) /\ IsFirstMatch(candidates[s], Extended(s, p), v, d)
        /\ IInv /\ HistoryTypeOK /\ CandidatesStand /\ clock' = clock
        /\ Record(s, p, captured_at)
    BY <1>2, <1>5 DEF HistoryInv
  <2> HIDE DEF v, d
  <2>2. /\ IsKnock(recent'[s], v, d)
        /\ \A w \in NearWindows, c \in Channels :
              IsKnock(recent'[s], w, c) => v < w \/ (v = w /\ d <= c)
    BY <2>1, CompletesKnock
  <2> QED BY <2>2 DEF v, d
<1>7. s \in completed'
  BY <1>2, <1>5, RecordFrame DEF HistoryInv
<1> QED BY <1>4, <1>6, <1>7

THEOREM AcceptancesAreSpelt == HistorySpec => AcceptedIsSpelt
BY HistoryInvariance, StepAcceptsSpelt, PTL DEF HistorySpec, AcceptedIsSpelt

(***************************************************************************)
(* Completeness, for every keyed hash: a source whose last packets are a   *)
(* knock has completed it, whatever it had sent before, if the first port  *)
(* of that knock is not in the middle of a sequence tried at the time.     *)
(***************************************************************************)
THEOREM KnocksComplete == HistorySpec => []KnockIsCompleted
<1>1. HistoryInv => KnockIsCompleted
  <2> SUFFICES ASSUME HistoryInv, n_ports > 1, ~aborted,
                      NEW s \in Sources \ completed, NEW w \in NearWindows, NEW c \in Channels,
                      IsKnock(recent[s], w, c), StartIsDistinct(w, c)
               PROVE  FALSE
    BY DEF KnockIsCompleted
  <2>1. /\ Len(recent[s]) = n_ports /\ n_ports \in Nat /\ 1 \in 1..n_ports
        /\ n_ports - 1 < n_ports /\ n_ports - 1 + 1 = n_ports
    BY DerivationAssumption DEF IsKnock, Spells
  <2>2. Begun(recent[s], 1, w, c)
    <3>1. \A i \in 1..n_ports : i - 1 + 1 = i
      OBVIOUS
    <3> QED BY <2>1, <3>1 DEF Begun, IsKnock, Spells, Prompt
  <2>3. Len(recent[s]) - 1 + 1 < n_ports
    BY <2>1, <2>2 DEF HistoryInv, BegunIsCandidate
  <2> QED BY <2>1, <2>3
<1> QED BY <1>1, HistoryInvariance, PTL
=============================================================================
