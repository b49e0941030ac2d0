--------------------------- MODULE SessionProofs ----------------------------
(***************************************************************************)
(* Theorems about Session, for every configuration, keyed hash, set of     *)
(* sources and bound: the type invariant, how far apart two acceptances of *)
(* one code are, and that a code is accepted once when the replay cache    *)
(* outlives the span in which it can be accepted.                          *)
(***************************************************************************)
EXTENDS Session, SequenceTheorems, TLAPS

USE DEF Window

-----------------------------------------------------------------------------
(***************************************************************************)
(* Arithmetic: the quotient of time_counter_for brackets its argument, and *)
(* the two products the pace of a candidate and the horizon rest on.       *)
(***************************************************************************)
LEMMA DivisionBounds ==
    ASSUME NEW t \in Nat, NEW d \in Nat \ {0}
    PROVE  /\ t \div d \in Nat
           /\ (t \div d) * d <= t
           /\ t < ((t \div d) + 1) * d
OBVIOUS

LEMMA Distribute ==
    ASSUME NEW a \in Int, NEW b \in Int, NEW d \in Int
    PROVE  (a + b) * d = a * d + b * d
OBVIOUS

LEMMA Monotone ==
    ASSUME NEW a \in Int, NEW b \in Int, NEW d \in Nat, a <= b
    PROVE  a * d <= b * d
OBVIOUS

LEMMA OneMore ==
    ASSUME NEW n \in Nat, NEW m \in Nat, NEW d \in Nat, n + 1 <= m
    PROVE  /\ (n - 1) * d \in Int /\ (m - 1) * d \in Nat
           /\ (n - 1) * d + d <= (m - 1) * d
<1>1. n * d <= (m - 1) * d
  BY Monotone
<1>2. n - 1 \in Int /\ (n - 1) + 1 = n /\ ((n - 1) + 1) * d = (n - 1) * d + 1 * d
  BY Distribute
<1>3. m - 1 \in Nat /\ (n - 1) * d \in Int /\ 1 * d = d
  OBVIOUS
<1>4. (m - 1) * d \in Nat
  BY <1>3
<1> QED BY <1>1, <1>2, <1>3, <1>4

\* The windows tried for a packet are near the windows of the run.
LEMMA WindowIsNear ==
    ASSUME NEW t \in Int, t <= MAX_CLOCK + LEAD,
           NEW w \in candidate_windows(time_counter_for(t))
    PROVE  w \in NearWindows
<1> DEFINE T == time_step_seconds
           a == IF t < 0 THEN 0 ELSE t
           M == MAX_CLOCK + LEAD
<1>1. T \in Nat \ {0} /\ M \in Nat
  BY SessionAssumption
<1>2. a \in Nat /\ a <= M
  BY <1>1
<1> HIDE DEF a, M
<1>3. /\ a \div T \in Nat /\ (a \div T) * T <= a
      /\ M \div T \in Nat /\ M < ((M \div T) + 1) * T
  BY <1>1, <1>2, DivisionBounds
<1>4. a \div T <= M \div T
  <2> DEFINE q == a \div T
             r == M \div T
  <2> HIDE DEF q, r
  <2>1. q \in Nat /\ r \in Nat /\ q * T <= a /\ M < (r + 1) * T
    BY <1>3 DEF q, r
  <2>2. SUFFICES ASSUME r + 1 <= q PROVE FALSE
    BY <2>1 DEF q, r
  <2>3. (r + 1) * T <= q * T
    BY <1>1, <2>1, <2>2, Monotone
  <2>4. (r + 1) * T \in Int /\ q * T \in Int
    BY <1>1, <2>1
  <2> QED BY <1>1, <1>2, <2>1, <2>3, <2>4
<1>5. time_counter_for(t) = a \div T
  BY DEF time_counter_for, a
<1>6. time_counter_for(MAX_CLOCK + LEAD) = M \div T
  BY <1>1 DEF time_counter_for, M
<1>7. w >= 0 /\ w \in {a \div T - 1, a \div T, a \div T + 1}
  BY <1>5 DEF candidate_windows
<1> QED BY <1>3, <1>4, <1>6, <1>7 DEF NearWindows

(***************************************************************************)
(* What the two sweeps keep.                                               *)
(***************************************************************************)
LEMMA SweptCandidates ==
    /\ DOMAIN sweep_expired \subseteq DOMAIN candidates
    /\ \A s \in DOMAIN sweep_expired :
          /\ sweep_expired[s] = candidates[s]
          /\ clock - candidates[s].last_seen_mono <= inactivity_timeout
BY DEF sweep_expired

LEMMA SweptCache ==
    /\ DOMAIN sweep_replay_cache \subseteq DOMAIN replay_cache
    /\ \A k \in DOMAIN sweep_replay_cache : sweep_replay_cache[k] = replay_cache[k]
    /\ \A k \in DOMAIN replay_cache :
          k \notin DOMAIN sweep_replay_cache =>
              ~(clock - replay_cache[k] <= replay_ttl)
BY DEF sweep_replay_cache

\* The other sources' candidates only go through the sweep.
LEMMA OthersAreSwept ==
    ASSUME NEW s \in Sources, NEW p, NEW captured_at, on_packet(s, p, captured_at)
    PROVE  /\ clock' = clock /\ ~aborted
           /\ \A x \in DOMAIN candidates' : x # s =>
                 x \in DOMAIN candidates /\ candidates'[x] = candidates[x]
           /\ \A x \in DOMAIN candidates : x # s =>
                 \/ x \in DOMAIN candidates' /\ candidates'[x] = candidates[x]
                 \/ ~(clock - candidates[x].last_seen_mono <= inactivity_timeout)
<1>1. /\ clock' = clock /\ ~aborted
      /\ \/ \E cand : candidates' = Put(sweep_expired, s, cand)
         \/ candidates' = Drop(sweep_expired, s)
         \/ candidates' = sweep_expired
  BY DEF on_packet, StartCandidate, BreakSequence, ExtendCandidate, Extends,
         RejectReplay, AcceptMatch, DerivationThrows
<1>2. /\ \A x \in DOMAIN candidates' : x # s =>
            x \in DOMAIN sweep_expired /\ candidates'[x] = sweep_expired[x]
      /\ \A x \in DOMAIN sweep_expired : x # s =>
            x \in DOMAIN candidates' /\ candidates'[x] = sweep_expired[x]
  BY <1>1 DEF Put, Drop
<1>3. /\ DOMAIN sweep_expired \subseteq DOMAIN candidates
      /\ \A x \in DOMAIN sweep_expired : sweep_expired[x] = candidates[x]
      /\ \A x \in DOMAIN candidates : x \notin DOMAIN sweep_expired =>
            ~(clock - candidates[x].last_seen_mono <= inactivity_timeout)
  BY DEF sweep_expired
<1> QED BY <1>1, <1>2, <1>3

-----------------------------------------------------------------------------
(***************************************************************************)
(* What each kind of step does to the candidates.                          *)
(***************************************************************************)
CandidateTypeOK ==
    /\ DOMAIN candidates \subseteq Sources
    /\ \A s \in DOMAIN candidates : candidates[s] \in Candidate

\* The sweep alone, whatever else the step does to the other variables.
LEMMA SweepKeepsCandidates ==
    ASSUME clock \in Nat, CandidateTypeOK, CandidateInv,
           clock' = clock, candidates' = sweep_expired
    PROVE  CandidateTypeOK' /\ CandidateInv'
BY SweptCandidates DEF CandidateTypeOK, CandidateInv, KeepsPace

LEMMA DropKeepsCandidates ==
    ASSUME NEW s, clock \in Nat, CandidateTypeOK, CandidateInv,
           clock' = clock, candidates' = Drop(sweep_expired, s)
    PROVE  CandidateTypeOK' /\ CandidateInv'
<1>1. /\ DOMAIN candidates' \subseteq DOMAIN candidates
      /\ \A x \in DOMAIN candidates' : candidates'[x] = candidates[x]
  BY SweptCandidates DEF Drop
<1> QED BY <1>1 DEF CandidateTypeOK, CandidateInv, KeepsPace

LEMMA PutKeepsCandidates ==
    ASSUME NEW s \in Sources, NEW cand \in Candidate,
           clock \in Nat, CandidateTypeOK, CandidateInv, KeepsPace(cand),
           clock' = clock, candidates' = Put(sweep_expired, s, cand)
    PROVE  CandidateTypeOK' /\ CandidateInv'
<1>1. /\ DOMAIN candidates' \subseteq DOMAIN candidates \cup {s}
      /\ \A x \in DOMAIN candidates' :
            candidates'[x] = IF x = s THEN cand ELSE candidates[x]
      /\ \A x \in DOMAIN candidates' : x # s => x \in DOMAIN candidates
  BY SweptCandidates DEF Put
<1> QED BY <1>1 DEF CandidateTypeOK, CandidateInv, KeepsPace

LEMMA FreshKeepsPace ==
    ASSUME NEW p \in KnockPorts, clock \in Nat,
           NEW captured_at \in (clock - LAG)..(clock + LEAD)
    PROVE  Fresh(p, captured_at) \in Candidate /\ KeepsPace(Fresh(p, captured_at))
<1>1. <<p>> \in Seq(KnockPorts) /\ Len(<<p>>) = 1
  OBVIOUS
<1>2. (1 - 1) * inactivity_timeout = 0
  BY SessionAssumption
<1>3. captured_at \in Int /\ clock - LAG <= captured_at /\ captured_at <= clock + LEAD
  BY SessionAssumption
<1> QED BY <1>1, <1>2, <1>3, SessionAssumption DEF Fresh, Candidate, KeepsPace

\* The packet that extends a live candidate arrives within the timeout.
LEMMA ExtensionKeepsPace ==
    ASSUME NEW s \in Sources, NEW p \in KnockPorts, Extends(s),
           clock \in Nat, CandidateTypeOK, CandidateInv
    PROVE  LET cand == [candidates[s] EXCEPT !.ports = Extended(s, p),
                                             !.last_seen_mono = clock]
           IN  /\ cand \in Candidate
               /\ KeepsPace(cand)
               /\ cand.first_seen_wall = candidates[s].first_seen_wall
               /\ cand.ports = Extended(s, p)
<1> DEFINE old == candidates[s]
           cand == [old EXCEPT !.ports = Extended(s, p), !.last_seen_mono = clock]
           I == inactivity_timeout
           n == Len(old.ports)
<1>1. /\ s \in DOMAIN candidates
      /\ clock - old.last_seen_mono <= I
  BY SweptCandidates DEF Extends
<1>2. old \in Candidate /\ KeepsPace(old)
  BY <1>1 DEF CandidateTypeOK, CandidateInv
<1>3. old.ports \in Seq(KnockPorts) /\ n \in Nat
  BY <1>2 DEF Candidate
<1>4. Extended(s, p) \in Seq(KnockPorts) /\ Len(Extended(s, p)) = n + 1
  BY <1>3 DEF Extended
<1>5. /\ cand.ports = Extended(s, p)
      /\ cand.first_seen_wall = old.first_seen_wall
      /\ cand.last_seen_mono = clock
      /\ cand \in Candidate
  BY <1>2, <1>4 DEF Candidate
<1>6. I \in Nat /\ LAG \in Nat /\ LEAD \in Nat
  BY SessionAssumption
<1>7. ((n + 1) - 1) * I = (n - 1) * I + I
  BY <1>3, <1>6, Distribute
<1>8. (n - 1) * I \in Int
  BY <1>3, <1>6
<1>9. /\ old.last_seen_mono \in Nat /\ old.first_seen_wall \in Int
      /\ old.first_seen_wall - LEAD <= old.last_seen_mono
      /\ old.last_seen_mono <= clock
      /\ old.last_seen_mono <= old.first_seen_wall + LAG + (n - 1) * I
  BY <1>2 DEF Candidate, KeepsPace
<1>10. clock <= old.first_seen_wall + LAG + ((n + 1) - 1) * I
  <2> HIDE DEF I, n, old
  <2> QED BY <1>1, <1>6, <1>7, <1>8, <1>9
<1>11. KeepsPace(cand)
  <2>1. Len(cand.ports) > 0 /\ Len(cand.ports) = n + 1
    BY <1>3, <1>4, <1>5
  <2>2. cand.last_seen_mono <=
          cand.first_seen_wall + LAG + (Len(cand.ports) - 1) * I
    BY <2>1, <1>5, <1>10
  <2>3. cand.last_seen_mono <= clock /\ cand.first_seen_wall - LEAD <= cand.last_seen_mono
    <3> HIDE DEF cand, old
    <3> QED BY <1>5, <1>6, <1>9
  <2> QED BY <2>1, <2>2, <2>3 DEF KeepsPace
<1> QED BY <1>5, <1>11

-----------------------------------------------------------------------------
(***************************************************************************)
(* What each kind of step does to the replay cache and the acceptances.    *)
(***************************************************************************)
CacheTypeOK ==
    /\ DOMAIN replay_cache \subseteq Code
    /\ \A k \in DOMAIN replay_cache : replay_cache[k] \in Nat
    /\ DOMAIN accepted \subseteq Code
    /\ \A k \in DOMAIN accepted : accepted[k] \in Seq(Nat)

\* An entry the sweep removes is so old that its acceptances are too.
LEMMA SweepRemembers ==
    ASSUME clock \in Nat, CacheTypeOK,
           NEW k, NEW time \in Nat, IsRemembered(k, time)
    PROVE  \/ k \in DOMAIN sweep_replay_cache /\ time <= sweep_replay_cache[k]
           \/ clock - time > replay_ttl
BY SweptCache, SessionAssumption DEF IsRemembered, CacheTypeOK

LEMMA SweepKeepsCache ==
    ASSUME clock \in Nat, CacheTypeOK, CacheInv,
           clock' = clock, accepted' = accepted,
           replay_cache' = sweep_replay_cache
    PROVE  CacheTypeOK' /\ CacheInv'
<1>1. CacheTypeOK'
  BY SweptCache DEF CacheTypeOK
<1>2. ASSUME NEW k \in DOMAIN accepted, NEW i \in 1..Len(accepted[k])
      PROVE  IsRemembered(k, accepted[k][i])'
  <2>1. accepted[k][i] \in Nat /\ IsRemembered(k, accepted[k][i])
    BY ElementOfSeq DEF CacheTypeOK, CacheInv
  <2>2. \/ k \in DOMAIN replay_cache' /\ accepted[k][i] <= replay_cache'[k]
        \/ clock' - accepted[k][i] > replay_ttl
    BY <2>1, SweepRemembers
  <2> QED BY <2>1, <2>2 DEF IsRemembered
<1> QED BY <1>1, <1>2 DEF CacheInv

(***************************************************************************)
(* The windows tried for a candidate lie around its first packet, and the  *)
(* packet that completes it comes before the last inactivity timeout ends. *)
(***************************************************************************)
LEMMA WindowHorizon ==
    ASSUME NEW first \in Int,
           NEW w \in candidate_windows(time_counter_for(first))
    PROVE  /\ w \in Nat
           /\ (w - 1) * time_step_seconds <= IF first < 0 THEN 0 ELSE first
           /\ first <= (w + 2) * time_step_seconds - 1
<1> DEFINE t == IF first < 0 THEN 0 ELSE first
           T == time_step_seconds
           anchor == t \div T
<1>1. T \in Nat \ {0} /\ t \in Nat /\ first <= t
  BY SessionAssumption
<1>2. anchor \in Nat /\ anchor * T <= t /\ t < (anchor + 1) * T
  BY <1>1, DivisionBounds
<1>3. w \in Nat /\ w - 1 <= anchor /\ anchor + 1 <= w + 2
  <2>1. w \in {anchor - 1, anchor, anchor + 1} /\ w >= 0
    BY DEF candidate_windows, time_counter_for
  <2> HIDE DEF anchor
  <2> QED BY <2>1, <1>2
<1>4. (w - 1) * T <= anchor * T
  <2> HIDE DEF anchor, T
  <2> QED BY <1>1, <1>2, <1>3, Monotone
<1>5. (anchor + 1) * T <= (w + 2) * T
  <2> HIDE DEF anchor, T
  <2> QED BY <1>1, <1>2, <1>3, Monotone
<1>6. (w - 1) * T \in Int /\ (w + 2) * T \in Int /\ anchor * T \in Int
        /\ (anchor + 1) * T \in Int
  <2> HIDE DEF anchor, T
  <2> QED BY <1>1, <1>2, <1>3
<1>7. (w - 1) * T <= t /\ first <= (w + 2) * T - 1
  <2> HIDE DEF anchor, T, t
  <2> QED BY <1>1, <1>2, <1>4, <1>5, <1>6
<1> QED BY <1>3, <1>7

(***************************************************************************)
(* The sequences a live candidate is compared with belong to windows near  *)
(* those of the packet that arrives.                                       *)
(***************************************************************************)
LEMMA TriedIsNearby ==
    ASSUME clock \in Nat, clock <= MAX_CLOCK,
           NEW cand \in Candidate, KeepsPace(cand), Len(cand.ports) + 1 <= n_ports,
           clock - cand.last_seen_mono <= inactivity_timeout,
           NEW captured_at \in (clock - LAG)..(clock + LEAD),
           NEW w \in candidate_windows(time_counter_for(captured_at)),
           NEW v \in candidate_windows(time_counter_for(cand.first_seen_wall))
    PROVE  v \in Nearby(w)
<1> DEFINE first == cand.first_seen_wall
           last == cand.last_seen_mono
           T == time_step_seconds
           I == inactivity_timeout
           D == (n_ports - 1) * I
           d == (Len(cand.ports) - 1) * I
           W == w * T
           V == v * T
<1>1. /\ T \in Nat \ {0} /\ I \in Nat /\ LAG \in Nat /\ LEAD \in Nat /\ n_ports \in Nat
      /\ captured_at \in Int /\ clock - LAG <= captured_at /\ captured_at <= clock + LEAD
  BY SessionAssumption, DerivationAssumption
<1>2. /\ first \in Int /\ last \in Nat /\ Len(cand.ports) \in Nat
      /\ first - LEAD <= last /\ last <= clock /\ last <= first + LAG + d /\ clock - last <= I
  BY DEF Candidate, KeepsPace
<1>3. /\ w \in Nat /\ (w - 1) * T <= (IF captured_at < 0 THEN 0 ELSE captured_at)
      /\ captured_at <= (w + 2) * T - 1
  BY <1>1, WindowHorizon
<1>4. /\ v \in Nat /\ (v - 1) * T <= (IF first < 0 THEN 0 ELSE first)
      /\ first <= (v + 2) * T - 1
  BY <1>2, WindowHorizon
<1>5. /\ (w - 1) * T = W - T /\ (w + 2) * T = W + 2 * T
      /\ (v - 1) * T = V - T /\ (v + 2) * T = V + 2 * T
      /\ W \in Nat /\ V \in Nat
  <2> HIDE DEF T
  <2>1. /\ (w + (-1)) * T = w * T + (-1) * T /\ (w + 2) * T = w * T + 2 * T
        /\ (v + (-1)) * T = v * T + (-1) * T /\ (v + 2) * T = v * T + 2 * T
    BY <1>1, <1>3, <1>4, Distribute
  <2>2. w * T \in Nat /\ v * T \in Nat
    BY <1>1, <1>3, <1>4
  <2>3. w + (-1) = w - 1 /\ v + (-1) = v - 1 /\ (-1) * T = 0 - T /\ T \in Nat
    BY <1>1, <1>3, <1>4
  <2> QED BY <2>1, <2>2, <2>3
<1>6. d + I <= D /\ d \in Int /\ D \in Nat
  BY <1>1, <1>2, OneMore
<1>7. v \in NearWindows
  <2>1. first <= MAX_CLOCK + LEAD
    BY <1>1, <1>2, SessionAssumption
  <2> QED BY <1>2, <2>1, WindowIsNear
<1>8. /\ W - T <= (IF captured_at < 0 THEN 0 ELSE captured_at) /\ captured_at <= W + 2 * T - 1
      /\ V - T <= (IF first < 0 THEN 0 ELSE first) /\ first <= V + 2 * T - 1
  <2> DEFINE w1 == (w - 1) * T
             w2 == (w + 2) * T
             v1 == (v - 1) * T
             v2 == (v + 2) * T
  <2>1. /\ w1 <= (IF captured_at < 0 THEN 0 ELSE captured_at) /\ captured_at <= w2 - 1
        /\ v1 <= (IF first < 0 THEN 0 ELSE first) /\ first <= v2 - 1
        /\ w1 = W - T /\ w2 = W + 2 * T /\ v1 = V - T /\ v2 = V + 2 * T
    BY <1>3, <1>4, <1>5
  <2>2. T \in Nat /\ W \in Nat /\ V \in Nat /\ first \in Int
    BY <1>1, <1>2, <1>5
  <2> HIDE DEF w1, w2, v1, v2, W, V, T, first
  <2> QED BY <1>1, <2>1, <2>2
<1>9. W \in Nat /\ V \in Nat
  BY <1>5
<1> HIDE DEF first, last, T, I, D, d, W, V
<1>10. clock - LAG - D <= first
  BY <1>1, <1>2, <1>6
<1>11. W - V < 3 * T + D + LAG + LEAD
  <2>1. D \in Nat
    BY <1>6
  <2>2. CASE captured_at < 0
    <3>1. W - V <= T
      BY <1>1, <1>8, <1>9, <2>2
    <3> QED BY <1>1, <1>9, <2>1, <3>1
  <2>3. CASE ~(captured_at < 0)
    <3>1. W <= clock + LEAD + T /\ clock - LAG - D <= V + 2 * T - 1
      BY <1>1, <1>2, <1>8, <1>9, <1>10, <2>1, <2>3
    <3> QED BY <1>1, <1>9, <2>1, <3>1
  <2> QED BY <2>2, <2>3
<1>12. V - W < 3 * T + LAG + LEAD
  <2>1. CASE first < 0
    <3>1. V - W <= T
      BY <1>2, <1>8, <1>9, <2>1, <1>1
    <3> QED BY <1>1, <1>9, <3>1
  <2>2. CASE ~(first < 0)
    <3>1. V <= clock + LEAD + T /\ clock - LAG <= W + 2 * T - 1
      BY <1>1, <1>2, <1>8, <1>9, <2>2
    <3> QED BY <1>1, <1>9, <3>1
  <2> QED BY <2>1, <2>2
<1> QED BY <1>7, <1>11, <1>12 DEF Nearby, T, D, I, W, V

LEMMA CompletionHorizon ==
    ASSUME NEW s \in Sources, NEW p \in KnockPorts, NEW w, NEW c, Extends(s),
           IsFirstMatch(candidates[s], Extended(s, p), w, c),
           clock \in Nat, CandidateTypeOK, CandidateInv
    PROVE  /\ w \in Nat /\ c \in Channels
           /\ Earliest(w) <= clock /\ clock <= Latest(w)
<1> DEFINE first == candidates[s].first_seen_wall
           D == (n_ports - 1) * inactivity_timeout
           E == (w - 1) * time_step_seconds
           L == (w + 2) * time_step_seconds
<1>1. /\ first \in Int
      /\ first - LEAD <= clock
      /\ clock <= first + LAG + D
  <2> DEFINE cand == [candidates[s] EXCEPT !.ports = Extended(s, p),
                                           !.last_seen_mono = clock]
  <2>1. cand \in Candidate /\ KeepsPace(cand)
        /\ cand.first_seen_wall = first /\ cand.ports = Extended(s, p)
    BY ExtensionKeepsPace
  <2>2. Len(cand.ports) = n_ports
    BY <2>1 DEF IsFirstMatch, IsFullMatch
  <2>3. cand.last_seen_mono = clock
    BY SweptCandidates DEF Extends, CandidateTypeOK, Candidate
  <2> QED
    <3> HIDE DEF cand, first
    <3> QED BY <2>1, <2>2, <2>3 DEF KeepsPace, Candidate
<1>2. w \in candidate_windows(time_counter_for(first)) /\ c \in Channels
  BY DEF IsFirstMatch, Tried
<1>3. w \in Nat /\ E <= (IF first < 0 THEN 0 ELSE first) /\ first <= L - 1
  BY <1>1, <1>2, WindowHorizon
<1>4. E \in Int /\ L \in Int /\ D \in Int /\ LAG \in Nat /\ LEAD \in Nat
  <2>1. w \in Nat
    BY <1>3
  <2>2. E \in Int /\ L \in Int
    BY <2>1, SessionAssumption
  <2>3. D \in Int
    BY SessionAssumption, DerivationAssumption
  <2> QED BY <2>2, <2>3, SessionAssumption
<1>5. E - LEAD <= clock /\ clock <= L - 1 + LAG + D
  <2> HIDE DEF first, D, E, L
  <2> QED BY <1>1, <1>3, <1>4
<1> QED BY <1>2, <1>3, <1>5 DEF Earliest, Latest

-----------------------------------------------------------------------------
LEMMA TypeOKParts ==
    TypeOK <=> CandidateTypeOK /\ CacheTypeOK /\ aborted \in BOOLEAN /\ clock \in Nat
BY DEF TypeOK, CandidateTypeOK, CacheTypeOK

\* An accepted knock adds the present to the times of one code, and nothing
\* else: the entry it writes remembers it, and every older acceptance of the
\* code had been forgotten, so is more than replay_ttl old.
LEMMA AcceptKeepsInvariant ==
    ASSUME IInv, NEW s \in Sources, NEW p \in KnockPorts, NEW w, NEW c,
           AcceptMatch(s, p, w, c)
    PROVE  IInv'
<1> DEFINE code == <<s, w, c>>
           old == Times(code)
<1>1. /\ CandidateTypeOK /\ CacheTypeOK /\ aborted \in BOOLEAN /\ clock \in Nat
      /\ CandidateInv /\ CacheInv
  BY TypeOKParts DEF IInv
<1>2. /\ w \in Nat /\ c \in Channels /\ code \in Code /\ code[2] = w
      /\ Earliest(w) <= clock /\ clock <= Latest(w)
  BY <1>1, CompletionHorizon DEF AcceptMatch, Code
<1>3. CandidateTypeOK' /\ CandidateInv'
  BY <1>1, DropKeepsCandidates DEF AcceptMatch
<1>4. /\ old \in Seq(Nat)
      /\ Append(old, clock) \in Seq(Nat)
      /\ Len(Append(old, clock)) = Len(old) + 1
      /\ \A i \in 1..Len(old) : Append(old, clock)[i] = old[i] /\ old[i] \in Nat
      /\ Append(old, clock)[Len(old) + 1] = clock
      /\ Len(old) \in Nat
      /\ old # <<>> => code \in DOMAIN accepted /\ old = accepted[code]
      /\ code \in DOMAIN accepted => old = accepted[code]
  <2>1. old \in Seq(Nat)
    BY <1>1 DEF CacheTypeOK, Times
  <2>2. /\ old # <<>> => code \in DOMAIN accepted /\ old = accepted[code]
        /\ code \in DOMAIN accepted => old = accepted[code]
    BY DEF Times
  <2> HIDE DEF old, code
  <2> QED BY <1>1, <2>1, <2>2
<1>5. /\ DOMAIN accepted' = DOMAIN accepted \cup {code}
      /\ accepted'[code] = Append(old, clock)
      /\ \A k \in DOMAIN accepted : k # code => accepted'[k] = accepted[k]
  <2>1. accepted' = Put(accepted, code, Append(old, clock))
    BY DEF AcceptMatch
  <2> HIDE DEF old, code
  <2> QED BY <2>1 DEF Put
<1>6. /\ DOMAIN replay_cache' = DOMAIN sweep_replay_cache \cup {code}
      /\ replay_cache'[code] = clock
      /\ \A k \in DOMAIN sweep_replay_cache :
            k # code => replay_cache'[k] = sweep_replay_cache[k]
      /\ code \notin DOMAIN sweep_replay_cache
      /\ clock' = clock /\ aborted' = aborted
  <2>1. /\ replay_cache' = Put(sweep_replay_cache, code, clock)
        /\ code \notin DOMAIN sweep_replay_cache
        /\ clock' = clock /\ aborted' = aborted
    BY DEF AcceptMatch
  <2> HIDE DEF code
  <2> QED BY <2>1 DEF Put
<1> HIDE DEF code, old
<1>7. CacheTypeOK'
  BY <1>1, <1>2, <1>4, <1>5, <1>6, SweptCache DEF CacheTypeOK
<1>8. ASSUME NEW i \in 1..Len(old)
      PROVE  /\ code \in DOMAIN accepted /\ old = accepted[code]
             /\ old[i] <= clock /\ clock - old[i] > replay_ttl
  <2>1. code \in DOMAIN accepted /\ old = accepted[code]
    BY <1>4
  <2>2. IsRemembered(code, old[i]) /\ old[i] \in Nat
    BY <2>1, <1>1, <1>4 DEF CacheInv
  <2>3. clock - old[i] > replay_ttl
    BY <1>1, <1>6, <2>2, SweepRemembers
  <2> QED BY <2>1, <2>2, <2>3 DEF IsRemembered
<1>9. CacheInv'
  <2>1. ASSUME NEW k \in DOMAIN accepted, k # code
        PROVE  /\ Len(accepted'[k]) > 0
               /\ \A i \in 1..Len(accepted'[k]) : IsRemembered(k, accepted[k][i])'
    <3>1. accepted'[k] = accepted[k] /\ Len(accepted[k]) > 0
      BY <1>1, <1>5, <2>1 DEF CacheInv
    <3>2. ASSUME NEW i \in 1..Len(accepted[k])
          PROVE  IsRemembered(k, accepted[k][i])'
      <4>1. accepted[k][i] \in Nat /\ IsRemembered(k, accepted[k][i])
        BY <1>1, ElementOfSeq DEF CacheTypeOK, CacheInv
      <4>2. \/ k \in DOMAIN sweep_replay_cache
               /\ accepted[k][i] <= sweep_replay_cache[k]
            \/ clock - accepted[k][i] > replay_ttl
        BY <1>1, <4>1, SweepRemembers
      <4> QED BY <1>5, <1>6, <2>1, <3>1, <4>1, <4>2 DEF IsRemembered
    <3> QED BY <3>1, <3>2
  <2>2. ASSUME NEW i \in 1..Len(accepted'[code])
        PROVE  IsRemembered(code, accepted[code][i])'
    <3>1. CASE i = Len(old) + 1
      BY <1>1, <1>4, <1>5, <1>6, <3>1 DEF IsRemembered
    <3>2. CASE i \in 1..Len(old)
      BY <1>1, <1>4, <1>5, <1>6, <1>8, <3>2 DEF IsRemembered
    <3> QED BY <1>4, <1>5, <3>1, <3>2
  <2>3. Len(accepted'[code]) > 0
    BY <1>4, <1>5
  <2> QED BY <1>5, <2>1, <2>2, <2>3 DEF CacheInv
<1>10. AcceptanceHorizon'
  <2>1. ASSUME NEW k \in DOMAIN accepted', NEW i \in 1..Len(accepted'[k])
        PROVE  Earliest(k[2]) <= accepted'[k][i] /\ accepted'[k][i] <= Latest(k[2])
    <3>1. CASE k = code /\ i = Len(old) + 1
      BY <1>2, <1>4, <1>5, <3>1
    <3>2. CASE k = code /\ i \in 1..Len(old)
      BY <1>4, <1>5, <1>8, <3>2 DEF IInv, AcceptanceHorizon
    <3>3. CASE k # code
      BY <1>5, <3>3 DEF IInv, AcceptanceHorizon
    <3> QED BY <1>4, <1>5, <3>1, <3>2, <3>3
  <2> QED BY <2>1 DEF AcceptanceHorizon
<1>11. ReuseOnlyAfterTTL'
  <2>1. ASSUME NEW k \in DOMAIN accepted', k # code
        PROVE  k \in DOMAIN accepted /\ accepted'[k] = accepted[k]
    BY <1>5, <2>1
  <2>2. ASSUME NEW i \in 1..Len(old) + 1, NEW j \in 1..Len(old) + 1, i < j
        PROVE  Append(old, clock)[j] - Append(old, clock)[i] > replay_ttl
    <3>1. i \in 1..Len(old)
      BY <1>4, <2>2
    <3>2. CASE j = Len(old) + 1
      BY <1>4, <1>8, <3>1, <3>2
    <3>3. CASE j \in 1..Len(old)
      BY <1>4, <1>8, <2>2, <3>1, <3>3 DEF IInv, ReuseOnlyAfterTTL
    <3> QED BY <1>4, <3>2, <3>3
  <2> QED BY <1>4, <1>5, <2>1, <2>2 DEF IInv, ReuseOnlyAfterTTL
<1> QED BY <1>3, <1>6, <1>7, <1>9, <1>10, <1>11, <1>1, TypeOKParts DEF IInv, TypeOK,
            CandidateTypeOK, CacheTypeOK

\* A step that only sweeps the cache, and changes the candidates soundly.
LEMMA SweepKeepsInvariant ==
    ASSUME IInv, CandidateTypeOK', CandidateInv', aborted' \in BOOLEAN,
           clock' = clock, accepted' = accepted, replay_cache' = sweep_replay_cache
    PROVE  IInv'
<1>1. CacheTypeOK' /\ CacheInv'
  BY TypeOKParts, SweepKeepsCache DEF IInv
<1>2. AcceptanceHorizon' /\ ReuseOnlyAfterTTL'
  BY DEF IInv, AcceptanceHorizon, ReuseOnlyAfterTTL
<1> QED BY <1>1, <1>2 DEF IInv, TypeOK, CandidateTypeOK, CacheTypeOK

LEMMA NextKeepsInvariant == IInv /\ [Next]_vars => IInv'
<1> SUFFICES ASSUME IInv, [Next]_vars PROVE IInv'
  OBVIOUS
<1>1. /\ CandidateTypeOK /\ CacheTypeOK /\ aborted \in BOOLEAN /\ clock \in Nat
      /\ CandidateInv /\ CacheInv
  BY TypeOKParts DEF IInv
<1>2. ASSUME NEW s \in Sources, NEW p \in KnockPorts,
             NEW captured_at \in (clock - LAG)..(clock + LEAD),
             on_packet(s, p, captured_at)
      PROVE  IInv'
  <2> DEFINE fresh == Fresh(p, captured_at)
  <2>1. fresh \in Candidate /\ KeepsPace(fresh)
    BY <1>1, FreshKeepsPace
  <2>2. CASE StartCandidate(s, p, captured_at)
    <3>1. CandidateTypeOK' /\ CandidateInv'
      BY <1>1, <2>1, <2>2, PutKeepsCandidates DEF StartCandidate
    <3> QED BY <1>1, <2>2, <3>1, SweepKeepsInvariant DEF StartCandidate
  <2>3. CASE BreakSequence(s, p, captured_at)
    <3>1. CandidateTypeOK' /\ CandidateInv'
      BY <1>1, <2>1, <2>3, PutKeepsCandidates DEF BreakSequence
    <3> QED BY <1>1, <2>3, <3>1, SweepKeepsInvariant DEF BreakSequence
  <2>4. CASE ExtendCandidate(s, p)
    <3> DEFINE cand == [candidates[s] EXCEPT !.ports = Extended(s, p),
                                             !.last_seen_mono = clock]
    <3>1. cand \in Candidate /\ KeepsPace(cand)
      BY <1>1, <2>4, ExtensionKeepsPace DEF ExtendCandidate
    <3>2. candidates' = Put(sweep_expired, s, cand) /\ clock' = clock
      BY <2>4 DEF ExtendCandidate
    <3>3. CandidateTypeOK' /\ CandidateInv'
      <4> HIDE DEF cand
      <4> QED BY <1>1, <3>1, <3>2, PutKeepsCandidates
    <3> QED BY <1>1, <2>4, <3>3, SweepKeepsInvariant DEF ExtendCandidate
  <2>5. ASSUME NEW x \in Tried(candidates[s]), RejectReplay(s, p, x[1], x[2])
        PROVE  IInv'
    <3>1. CandidateTypeOK' /\ CandidateInv'
      BY <1>1, <2>5, DropKeepsCandidates DEF RejectReplay
    <3> QED BY <1>1, <2>5, <3>1, SweepKeepsInvariant DEF RejectReplay
  <2>6. ASSUME NEW x \in Tried(candidates[s]), AcceptMatch(s, p, x[1], x[2])
        PROVE  IInv'
    BY <2>6, AcceptKeepsInvariant
  <2>7. CASE DerivationThrows(s)
    <3>1. CandidateTypeOK' /\ CandidateInv'
      BY <1>1, <2>7, SweepKeepsCandidates DEF DerivationThrows
    <3> QED BY <1>1, <2>7, <3>1, SweepKeepsInvariant DEF DerivationThrows
  <2> QED BY <1>2, <2>2, <2>3, <2>4, <2>5, <2>6, <2>7 DEF on_packet
<1>3. CASE Tick
  <2>1. /\ clock' = clock + 1
        /\ UNCHANGED <<candidates, replay_cache, accepted, aborted>>
    BY <1>3 DEF Tick
  <2>2. TypeOK' /\ AcceptanceHorizon' /\ ReuseOnlyAfterTTL'
    BY <1>1, <2>1 DEF IInv, TypeOK, AcceptanceHorizon, ReuseOnlyAfterTTL
  <2>3. CandidateInv'
    <3>1. ASSUME NEW s \in DOMAIN candidates
          PROVE  KeepsPace(candidates[s])'
      <4>1. KeepsPace(candidates[s]) /\ candidates[s].last_seen_mono \in Nat
        BY <1>1 DEF CandidateInv, CandidateTypeOK, Candidate
      <4> QED BY <1>1, <2>1, <4>1 DEF KeepsPace
    <3> QED BY <2>1, <3>1 DEF CandidateInv
  <2>4. CacheInv'
    <3>1. ASSUME NEW k \in DOMAIN accepted, NEW i \in 1..Len(accepted[k])
          PROVE  IsRemembered(k, accepted[k][i])'
      <4>1. accepted[k][i] \in Nat /\ IsRemembered(k, accepted[k][i])
        BY <1>1, ElementOfSeq DEF CacheTypeOK, CacheInv
      <4> QED BY <1>1, <2>1, <4>1, SessionAssumption DEF IsRemembered
    <3> QED BY <1>1, <2>1, <3>1 DEF CacheInv
  <2> QED BY <2>2, <2>3, <2>4 DEF IInv
<1>4. CASE UNCHANGED vars
  BY <1>4 DEF vars, IInv, TypeOK, CandidateInv, CacheInv, KeepsPace, IsRemembered,
              AcceptanceHorizon, ReuseOnlyAfterTTL
<1> QED BY <1>2, <1>3, <1>4 DEF Next

LEMMA InitEstablishesInvariant == Init => IInv
BY SessionAssumption DEF Init, EmptyMap, IInv, TypeOK, CandidateInv, CacheInv,
                         AcceptanceHorizon, ReuseOnlyAfterTTL

-----------------------------------------------------------------------------
(***************************************************************************)
(* The inductive invariant holds of every behaviour of on_packet.          *)
(***************************************************************************)
THEOREM Invariance == Spec => []IInv
BY InitEstablishesInvariant, NextKeepsInvariant, PTL DEF Spec

(***************************************************************************)
(* The state of SessionTracker keeps its types.                            *)
(***************************************************************************)
THEOREM TypeCorrectness == Spec => []TypeOK
<1>1. IInv => TypeOK
  BY DEF IInv
<1> QED BY <1>1, Invariance, PTL

(***************************************************************************)
(* A code is accepted again only after replay_ttl, in every configuration: *)
(* the replay cache loses no entry early and never extends one.            *)
(***************************************************************************)
THEOREM ReuseIsLate == Spec => []ReuseOnlyAfterTTL
<1>1. IInv => ReuseOnlyAfterTTL
  BY DEF IInv
<1> QED BY <1>1, Invariance, PTL

(***************************************************************************)
(* A code is accepted only in the span that the window tolerance, the      *)
(* inactivity timeout and the delay of captured packets leave it.          *)
(***************************************************************************)
THEOREM AcceptedInHorizon == Spec => []AcceptanceHorizon
<1>1. IInv => AcceptanceHorizon
  BY DEF IInv
<1> QED BY <1>1, Invariance, PTL

\* The cache keeps an entry at least as long as its code can be accepted.
CacheOutlivesCode ==
    3 * time_step_seconds + (n_ports - 1) * inactivity_timeout + LAG + LEAD
        <= replay_ttl + 1

LEMMA InvariantImpliesSingleUse == CacheOutlivesCode /\ IInv => SingleUse
<1> SUFFICES ASSUME CacheOutlivesCode, IInv, NEW k \in DOMAIN accepted, Len(accepted[k]) # 1
             PROVE  FALSE
  BY DEF SingleUse
<1> DEFINE w == k[2]
           T == time_step_seconds
           D == (n_ports - 1) * inactivity_timeout
<1>1. /\ accepted[k] \in Seq(Nat) /\ Len(accepted[k]) > 1
      /\ w \in Nat
  <2>1. accepted[k] \in Seq(Nat) /\ Len(accepted[k]) > 0 /\ k \in Code
    BY DEF IInv, TypeOK, CacheInv
  <2>2. Len(accepted[k]) \in Nat
    BY <2>1
  <2>3. PICK s \in Sources, x \in Nat, c \in Channels : k = <<s, x, c>>
    BY <2>1 DEF Code
  <2>4. w \in Nat
    BY <2>3
  <2>5. Len(accepted[k]) > 1
    <3> DEFINE n == Len(accepted[k])
    <3>1. n \in Nat /\ n > 0 /\ n # 1
      BY <2>1, <2>2
    <3> HIDE DEF n
    <3>2. n > 1
      BY <3>1
    <3> QED BY <3>2 DEF n
  <2> QED BY <2>1, <2>4, <2>5
<1>2. /\ accepted[k][1] \in Nat /\ accepted[k][2] \in Nat
      /\ Earliest(w) <= accepted[k][1] /\ accepted[k][2] <= Latest(w)
      /\ accepted[k][2] - accepted[k][1] > replay_ttl
  BY <1>1, ElementOfSeq DEF IInv, AcceptanceHorizon, ReuseOnlyAfterTTL
<1>3. T \in Nat /\ LAG \in Nat /\ LEAD \in Nat /\ replay_ttl \in Nat /\ D \in Int
  BY SessionAssumption, DerivationAssumption
<1>4. (w + 2) * T = (w - 1) * T + 3 * T /\ (w - 1) * T \in Int /\ 3 * T \in Int
  <2>1. w + 2 = (w - 1) + 3
    BY <1>1
  <2> HIDE DEF T, w
  <2> QED BY <1>1, <1>3, <2>1, Distribute
<1>5. /\ (w - 1) * T - LEAD <= accepted[k][1]
      /\ accepted[k][2] <= (w + 2) * T - 1 + LAG + D
      /\ 3 * T + D + LAG + LEAD <= replay_ttl + 1
  BY <1>2 DEF Earliest, Latest, CacheOutlivesCode
<1> HIDE DEF w, T, D
<1> QED BY <1>2, <1>3, <1>4, <1>5

(***************************************************************************)
(* README.md promises that a code succeeds once.  It does when replay_ttl  *)
(* is at least the span in which a code can be accepted, which is wider    *)
(* than the three windows that the default of 3*T covers.                  *)
(***************************************************************************)
THEOREM AcceptedOnce == CacheOutlivesCode => (Spec => []SingleUse)
<1> SUFFICES ASSUME CacheOutlivesCode PROVE Spec => []SingleUse
  OBVIOUS
<1>1. IInv => SingleUse
  BY InvariantImpliesSingleUse
<1> QED BY <1>1, Invariance, PTL

(***************************************************************************)
(* Under the same condition the tracker implements Redemption: each of its *)
(* steps redeems a new code in its time, passes time, or stutters.         *)
(***************************************************************************)
THEOREM Refinement == CacheOutlivesCode => (Spec => RedeemsCodes)
<1> SUFFICES ASSUME CacheOutlivesCode PROVE Spec => RedeemsCodes
  OBVIOUS
<1>1. Init => Gate!Init
  BY DEF Init, EmptyMap, Gate!Init
<1>2. IInv /\ SingleUse' /\ [Next]_vars
        => [Gate!Next]_<<accepted, clock>>
  <2> SUFFICES ASSUME IInv, SingleUse', [Next]_vars
               PROVE  [Gate!Next]_<<accepted, clock>>
    OBVIOUS
  <2>1. CASE UNCHANGED accepted /\ UNCHANGED clock
    BY <2>1
  <2>2. CASE Tick
    BY <2>2 DEF Tick, Gate!Next, Gate!Pass
  <2>3. ASSUME NEW s \in Sources, NEW p \in KnockPorts, NEW w, NEW c,
               AcceptMatch(s, p, w, c)
        PROVE  Gate!Next
    <3> DEFINE code == <<s, w, c>>
    <3>1. /\ code[2] = w
          /\ Earliest(w) <= clock /\ clock <= Latest(w)
      BY <2>3, TypeOKParts, CompletionHorizon DEF IInv, AcceptMatch
    <3>2. /\ accepted' = Put(accepted, code, Append(Times(code), clock))
          /\ clock' = clock
      BY <2>3 DEF AcceptMatch
    <3>3. /\ DOMAIN accepted' = DOMAIN accepted \cup {code}
          /\ accepted'[code] = Append(Times(code), clock)
      BY <3>2 DEF Put
    <3>4. Len(accepted'[code]) = 1
      BY <3>3 DEF SingleUse
    <3>5. code \notin DOMAIN accepted
      <4> SUFFICES ASSUME code \in DOMAIN accepted PROVE FALSE
        OBVIOUS
      <4>1. accepted[code] \in Seq(Nat) /\ Len(accepted[code]) > 0 /\ clock \in Nat
        BY DEF IInv, TypeOK, CacheInv
      <4>2. Len(Append(accepted[code], clock)) = Len(accepted[code]) + 1
        BY <4>1
      <4> QED BY <3>3, <3>4, <4>1, <4>2 DEF Times
    <3>6. accepted' = [x \in DOMAIN accepted \cup {code} |->
                          IF x = code THEN <<clock>> ELSE accepted[x]]
      <4>1. Append(Times(code), clock) = <<clock>>
        BY <3>5 DEF Times
      <4> QED BY <3>2, <4>1 DEF Put
    <3> QED BY <3>1, <3>2, <3>5, <3>3, <3>6 DEF Gate!Next, Gate!Redeem
  <2> QED BY <2>1, <2>2, <2>3 DEF Next, on_packet, vars, StartCandidate, BreakSequence,
                 ExtendCandidate, RejectReplay, DerivationThrows
<1>3. Spec => []SingleUse
  BY AcceptedOnce
<1> QED BY <1>1, <1>2, <1>3, Invariance, PTL DEF Spec, RedeemsCodes, Gate!Spec

-----------------------------------------------------------------------------
LEMMA PrefixStep == IInv /\ CandidateIsPrefix /\ [Next]_vars => CandidateIsPrefix'
<1> SUFFICES ASSUME IInv, CandidateIsPrefix, [Next]_vars, NEW s \in DOMAIN candidates',
                    Len(candidates'[s].ports) > 1
             PROVE  /\ Len(candidates'[s].ports) < n_ports
                    /\ Fits(candidates'[s], candidates'[s].ports)
  BY DEF CandidateIsPrefix, Fits, Tried, candidate_windows, time_counter_for, IsPrefixOf,
         derive_ports
<1>1. CandidateTypeOK /\ CandidateInv /\ clock \in Nat
  BY TypeOKParts DEF IInv
<1>2. CASE s \in DOMAIN candidates /\ candidates'[s] = candidates[s]
  BY <1>2 DEF CandidateIsPrefix
<1>3. ASSUME NEW p, NEW captured_at, candidates' = Put(sweep_expired, s, Fresh(p, captured_at))
      PROVE  FALSE
  <2>1. candidates'[s].ports = <<p>>
    BY <1>3 DEF Put, Fresh
  <2> QED BY <2>1
<1>4. ASSUME NEW x \in Sources, NEW p \in KnockPorts, NEW captured_at, s = x,
             on_packet(x, p, captured_at)
      PROVE  \/ /\ Len(candidates'[s].ports) < n_ports
                /\ Fits(candidates'[s], candidates'[s].ports)
             \/ s \in DOMAIN candidates /\ candidates'[s] = candidates[s]
  <2>1. CASE StartCandidate(x, p, captured_at) \/ BreakSequence(x, p, captured_at)
    BY <1>3, <1>4, <2>1 DEF StartCandidate, BreakSequence
  <2>2. CASE ExtendCandidate(x, p)
    <3> DEFINE cand == [candidates[s] EXCEPT !.ports = Extended(s, p),
                                             !.last_seen_mono = clock]
    <3>1. /\ Extends(s) /\ Fits(candidates[s], Extended(s, p))
          /\ ~Completes(candidates[s], Extended(s, p))
          /\ candidates' = Put(sweep_expired, s, cand)
      BY <1>4, <2>2 DEF ExtendCandidate
    <3>2. /\ cand.first_seen_wall = candidates[s].first_seen_wall
          /\ cand.ports = Extended(s, p) /\ cand \in Candidate
      BY <1>1, <1>4, <3>1, ExtensionKeepsPace
    <3> HIDE DEF cand
    <3>3. candidates'[s] = cand
      BY <3>1 DEF Put
    <3>4. Fits(cand, cand.ports)
      BY <3>1, <3>2 DEF Fits, Tried
    <3>5. Len(cand.ports) # n_ports
      BY <3>1, <3>2 DEF Fits, Completes, IsFullMatch
    <3>6. Len(cand.ports) <= n_ports /\ Len(cand.ports) \in Nat
      BY <3>1, <3>2 DEF Fits, IsPrefixOf, Candidate
    <3> QED BY <3>3, <3>4, <3>5, <3>6, DerivationAssumption
  <2>3. ASSUME NEW t \in Tried(candidates[x]),
               RejectReplay(x, p, t[1], t[2]) \/ AcceptMatch(x, p, t[1], t[2])
        PROVE  FALSE
    BY <1>4, <2>3 DEF RejectReplay, AcceptMatch, Drop
  <2>4. CASE DerivationThrows(x)
    BY <2>4, SweptCandidates DEF DerivationThrows
  <2> QED BY <1>4, <2>1, <2>2, <2>3, <2>4 DEF on_packet
<1>5. ASSUME NEW x \in Sources, NEW p \in KnockPorts, NEW captured_at, s # x,
             on_packet(x, p, captured_at)
      PROVE  s \in DOMAIN candidates /\ candidates'[s] = candidates[s]
  BY <1>5, SweptCandidates DEF on_packet, StartCandidate, BreakSequence, ExtendCandidate,
     RejectReplay, AcceptMatch, DerivationThrows, Put, Drop
<1>6. CASE Tick \/ UNCHANGED vars
  BY <1>2, <1>6 DEF Tick, vars
<1> QED BY <1>2, <1>4, <1>5, <1>6 DEF Next

(***************************************************************************)
(* No step of the tracker leaves a knock behind that is complete, or that  *)
(* no sequence near its own first packet continues.                        *)
(***************************************************************************)
THEOREM CandidatesArePrefixes == Spec => []CandidateIsPrefix
<1>1. Init => CandidateIsPrefix
  BY DEF Init, EmptyMap, CandidateIsPrefix
<1> QED BY <1>1, PrefixStep, Invariance, PTL DEF Spec

=============================================================================
