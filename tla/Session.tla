------------------------------- MODULE Session -------------------------------
(***************************************************************************)
(* SessionTracker (server/src/session.cpp): the per-source candidate       *)
(* sequences, the replay cache, and on_packet, the one entry point.        *)
(*                                                                         *)
(* clock is the steady clock.  A packet carries the wall-clock time of its *)
(* capture, which differs from clock by at most LAG behind (the packet     *)
(* waited in the capture queue, or the wall clock was stepped back) and    *)
(* LEAD ahead (the wall clock was stepped forward).  The unit of time is   *)
(* arbitrary: the truncation to seconds and the division by T of           *)
(* time_counter_for compose into one division, whatever the unit.          *)
(***************************************************************************)
EXTENDS Derivation, Integers, Sequences

CONSTANTS
    Sources,              \* source addresses
    time_step_seconds,    \* T, the width of a time window
    inactivity_timeout,
    replay_ttl,
    LAG, LEAD,            \* how far captured_at may be behind, ahead of clock
    BOOT,                 \* clock when the daemon starts
    MAX_CLOCK             \* bound on clock

ASSUME SessionAssumption ==
    /\ time_step_seconds \in Nat \ {0}
    /\ inactivity_timeout \in Nat
    /\ replay_ttl \in Nat
    /\ LAG \in Nat /\ LEAD \in Nat
    /\ BOOT \in Nat /\ MAX_CLOCK \in Nat /\ BOOT <= MAX_CLOCK

VARIABLES
    candidates,      \* source |-> its knock in progress
    replay_cache,    \* code |-> when it was last spent
    accepted,        \* history: code |-> the times on_match_ was called for it
    aborted,         \* an exception has left on_packet (main then exits)
    clock

vars == <<candidates, replay_cache, accepted, aborted, clock>>

Candidate == [ports : Seq(KnockPorts), first_seen_wall : Int, last_seen_mono : Nat]

\* What a knock redeems, the replay key "ip|window|channel".  No address
\* contains a '|', so the text and the triple distinguish the same codes.
Code == Sources \X Window \X Channels

EmptyMap == [x \in {} |-> x]
Put(f, k, v) == [x \in DOMAIN f \cup {k} |-> IF x = k THEN v ELSE f[x]]
Drop(f, k)   == [x \in DOMAIN f \ {k} |-> f[x]]

-----------------------------------------------------------------------------
time_counter_for(t) == (IF t < 0 THEN 0 ELSE t) \div time_step_seconds

\* Mutant: one window too many.
WideWindows(anchor) == {w \in (anchor - 1)..(anchor + 2) : w >= 0}

candidate_windows(anchor) ==
    {w \in {anchor - 1, anchor, anchor + 1} : w >= 0}

\* The windows any captured packet of a run can be near.
NearWindows == 0..(time_counter_for(MAX_CLOCK + LEAD) + 1)

\* The windows whose sequences a candidate can be compared with when a packet
\* near window w arrives: the candidate is older by n_ports - 1 timeouts at most.
Nearby(w) ==
    {v \in NearWindows :
        /\ w * time_step_seconds - v * time_step_seconds
              < 3 * time_step_seconds + (n_ports - 1) * inactivity_timeout + LAG + LEAD
        /\ v * time_step_seconds - w * time_step_seconds
              < 3 * time_step_seconds + LAG + LEAD}

\* The first port of <<w, c>> is the i-th one of a sequence that is tried then.
StartsLike(w, c, i) ==
    \E v \in Nearby(w), d \in Channels : derive_ports(v, d)[i] = derive_ports(w, c)[1]

\* Mutant: a candidate is kept one unit of time too long.
LateSweep ==
    [s \in {x \in DOMAIN candidates :
               clock - candidates[x].last_seen_mono <= inactivity_timeout + 1}
        |-> candidates[s]]

\* The candidates and the spent codes that the two sweeps leave.
sweep_expired ==
    [s \in {x \in DOMAIN candidates :
               clock - candidates[x].last_seen_mono <= inactivity_timeout}
        |-> candidates[s]]

\* Mutant: an entry is dropped one unit of time too early.
EarlyCacheSweep ==
    [k \in {x \in DOMAIN replay_cache : clock - replay_cache[x] < replay_ttl}
        |-> replay_cache[k]]

sweep_replay_cache ==
    [k \in {x \in DOMAIN replay_cache : clock - replay_cache[x] <= replay_ttl}
        |-> replay_cache[k]]

\* Mutant: the inactivity timeout is fed with the wall clock.
FreshFromWall(p, captured_at) ==
    [ports |-> <<p>>, first_seen_wall |-> captured_at, last_seen_mono |-> captured_at]

Fresh(p, captured_at) ==
    [ports |-> <<p>>, first_seen_wall |-> captured_at, last_seen_mono |-> clock]

\* The (window, channel) pairs on_packet tries for a candidate.
Tried(cand) ==
    candidate_windows(time_counter_for(cand.first_seen_wall)) \X Channels

\* Mutant: only the newest port is compared.
LastPortFits(ports, w, c) ==
    /\ Len(ports) <= n_ports
    /\ ports[Len(ports)] = derive_ports(w, c)[Len(ports)]

\* Mutant: the newest port is not compared.
AllButLastFit(ports, w, c) ==
    /\ Len(ports) <= n_ports
    /\ \A i \in 1..(Len(ports) - 1) : ports[i] = derive_ports(w, c)[i]

IsPrefixOf(ports, w, c) ==
    /\ Len(ports) <= n_ports
    /\ \A i \in 1..Len(ports) : ports[i] = derive_ports(w, c)[i]

Fits(cand, ports) == \E x \in Tried(cand) : IsPrefixOf(ports, x[1], x[2])

IsFullMatch(ports, w, c) == Len(ports) = n_ports /\ IsPrefixOf(ports, w, c)

\* Mutant: the code is that of the first sequence the candidate fitted so far.
IsFirstFit(cand, ports, w, c) ==
    /\ <<w, c>> \in Tried(cand)
    /\ \E x \in Tried(cand) : IsFullMatch(ports, x[1], x[2])
    /\ IsPrefixOf(cand.ports, w, c)
    /\ \A x \in Tried(cand) :
          IsPrefixOf(cand.ports, x[1], x[2]) =>
              \/ w < x[1]
              \/ w = x[1] /\ c <= x[2]

\* <<w, c>> is the first full match in the order the two loops try the pairs.
IsFirstMatch(cand, ports, w, c) ==
    /\ <<w, c>> \in Tried(cand)
    /\ IsFullMatch(ports, w, c)
    /\ \A x \in Tried(cand) :
          IsFullMatch(ports, x[1], x[2]) =>
              \/ w < x[1]
              \/ w = x[1] /\ c <= x[2]

Completes(cand, ports) == \E x \in Tried(cand) : IsFullMatch(ports, x[1], x[2])

\* When a code was accepted.
Times(k) == IF k \in DOMAIN accepted THEN accepted[k] ELSE <<>>

-----------------------------------------------------------------------------
Init ==
    /\ candidates = EmptyMap
    /\ replay_cache = EmptyMap
    /\ accepted = EmptyMap
    /\ aborted = FALSE
    /\ clock = BOOT

\* on_packet with no live candidate for the source: nothing is derived.
StartCandidate(s, p, captured_at) ==
    /\ ~aborted
    /\ s \notin DOMAIN sweep_expired
    /\ candidates' = Put(sweep_expired, s, Fresh(p, captured_at))
    /\ replay_cache' = sweep_replay_cache
    /\ UNCHANGED <<accepted, aborted, clock>>

\* The source has a live candidate, whose extension by p is tried against
\* every derived sequence.
Extends(s) ==
    /\ ~aborted
    /\ ValidArguments
    /\ s \in DOMAIN sweep_expired

Extended(s, p) == Append(candidates[s].ports, p)

\* Mutant: the ports start anew, the anchor stays.
KeepAnchor(s, p, captured_at) ==
    /\ Extends(s)
    /\ ~Fits(candidates[s], Extended(s, p))
    /\ candidates' = Put(sweep_expired, s, Fresh(p, candidates[s].first_seen_wall))
    /\ replay_cache' = sweep_replay_cache
    /\ UNCHANGED <<accepted, aborted, clock>>

\* No derived sequence starts like this: p becomes a fresh start.
BreakSequence(s, p, captured_at) ==
    /\ Extends(s)
    /\ ~Fits(candidates[s], Extended(s, p))
    /\ candidates' = Put(sweep_expired, s, Fresh(p, captured_at))
    /\ replay_cache' = sweep_replay_cache
    /\ UNCHANGED <<accepted, aborted, clock>>

ExtendCandidate(s, p) ==
    /\ Extends(s)
    /\ Fits(candidates[s], Extended(s, p))
    /\ ~Completes(candidates[s], Extended(s, p))
    /\ candidates' = Put(sweep_expired, s,
                         [candidates[s] EXCEPT !.ports = Extended(s, p),
                                               !.last_seen_mono = clock])
    /\ replay_cache' = sweep_replay_cache
    /\ UNCHANGED <<accepted, aborted, clock>>

\* Mutant: a replay leaves its candidate behind.
KeepReplay(s, p, w, c) ==
    /\ Extends(s)
    /\ IsFirstMatch(candidates[s], Extended(s, p), w, c)
    /\ <<s, w, c>> \in DOMAIN sweep_replay_cache
    /\ candidates' = Put(sweep_expired, s,
                         [candidates[s] EXCEPT !.ports = Extended(s, p),
                                               !.last_seen_mono = clock])
    /\ replay_cache' = sweep_replay_cache
    /\ UNCHANGED <<accepted, aborted, clock>>

\* A complete sequence whose code is still in the replay cache.
RejectReplay(s, p, w, c) ==
    /\ Extends(s)
    /\ IsFirstMatch(candidates[s], Extended(s, p), w, c)
    /\ <<s, w, c>> \in DOMAIN sweep_replay_cache
    /\ candidates' = Drop(sweep_expired, s)
    /\ replay_cache' = sweep_replay_cache
    /\ UNCHANGED <<accepted, aborted, clock>>

\* Mutant: the code is not spent.
AcceptUnspent(s, p, w, c) ==
    /\ Extends(s)
    /\ IsFirstMatch(candidates[s], Extended(s, p), w, c)
    /\ <<s, w, c>> \notin DOMAIN sweep_replay_cache
    /\ candidates' = Drop(sweep_expired, s)
    /\ replay_cache' = sweep_replay_cache
    /\ accepted' = Put(accepted, <<s, w, c>>, Append(Times(<<s, w, c>>), clock))
    /\ UNCHANGED <<aborted, clock>>

\* A complete sequence with an unspent code: spend it, then call on_match_.
AcceptMatch(s, p, w, c) ==
    /\ Extends(s)
    /\ IsFirstMatch(candidates[s], Extended(s, p), w, c)
    /\ <<s, w, c>> \notin DOMAIN sweep_replay_cache
    /\ candidates' = Drop(sweep_expired, s)
    /\ replay_cache' = Put(sweep_replay_cache, <<s, w, c>>, clock)
    /\ accepted' = Put(accepted, <<s, w, c>>, Append(Times(<<s, w, c>>), clock))
    /\ UNCHANGED <<aborted, clock>>

\* derive_ports throws: an argument is invalid, or OpenSSL fails.  The sweeps
\* have run, nothing else has, and the exception leaves on_packet.
DerivationThrows(s) ==
    /\ ~aborted
    /\ s \in DOMAIN sweep_expired
    /\ aborted' = TRUE
    /\ candidates' = sweep_expired
    /\ replay_cache' = sweep_replay_cache
    /\ UNCHANGED <<accepted, clock>>

Tick ==
    /\ ~aborted
    /\ clock < MAX_CLOCK
    /\ clock' = clock + 1
    /\ UNCHANGED <<candidates, replay_cache, accepted, aborted>>

on_packet(s, p, captured_at) ==
    \/ StartCandidate(s, p, captured_at)
    \/ BreakSequence(s, p, captured_at)
    \/ ExtendCandidate(s, p)
    \/ /\ Extends(s)
       /\ \E x \in Tried(candidates[s]) :
             \/ RejectReplay(s, p, x[1], x[2])
             \/ AcceptMatch(s, p, x[1], x[2])
    \/ DerivationThrows(s)

Next ==
    \/ \E s \in Sources, p \in KnockPorts, captured_at \in (clock - LAG)..(clock + LEAD) :
          on_packet(s, p, captured_at)
    \/ Tick

Spec == Init /\ [][Next]_vars

-----------------------------------------------------------------------------
TypeOK ==
    /\ DOMAIN candidates \subseteq Sources
    /\ \A s \in DOMAIN candidates : candidates[s] \in Candidate
    /\ DOMAIN replay_cache \subseteq Code
    /\ \A k \in DOMAIN replay_cache : replay_cache[k] \in Nat
    /\ DOMAIN accepted \subseteq Code
    /\ \A k \in DOMAIN accepted : accepted[k] \in Seq(Nat)
    /\ aborted \in BOOLEAN
    /\ clock \in Nat

(***************************************************************************)
(* A candidate of two or more ports is a proper prefix of a sequence       *)
(* derived near the time its own first packet was captured: no step leaves *)
(* a knock behind that is complete, or that nothing can complete.          *)
(***************************************************************************)
CandidateIsPrefix ==
    \A s \in DOMAIN candidates :
        LET cand == candidates[s]
        IN  Len(cand.ports) > 1 =>
                /\ Len(cand.ports) < n_ports
                /\ Fits(cand, cand.ports)

(***************************************************************************)
(* Two knocks that redeem the same code are accepted more than replay_ttl  *)
(* apart: an entry of the replay cache protects its code for its whole     *)
(* time to live, whatever the interleaving of packets, sweeps and rejected *)
(* replays.                                                                *)
(***************************************************************************)
ReuseOnlyAfterTTL ==
    \A k \in DOMAIN accepted :
        \A i, j \in 1..Len(accepted[k]) :
            i < j => accepted[k][j] - accepted[k][i] > replay_ttl

(***************************************************************************)
(* When a code can be accepted: its window is at most one off the window   *)
(* of the first packet, and the other packets follow within the inactivity *)
(* timeout of one another.                                                 *)
(***************************************************************************)
Earliest(w) == (w - 1) * time_step_seconds - LEAD
Latest(w)   == (w + 2) * time_step_seconds - 1 + LAG
                 + (n_ports - 1) * inactivity_timeout

AcceptanceHorizon ==
    \A k \in DOMAIN accepted : \A i \in 1..Len(accepted[k]) :
        Earliest(k[2]) <= accepted[k][i] /\ accepted[k][i] <= Latest(k[2])

(***************************************************************************)
(* README.md, "How it works": a (source_ip, time_window, channel_id) tuple *)
(* can only succeed once, even within its window.                          *)
(***************************************************************************)
SingleUse == \A k \in DOMAIN accepted : Len(accepted[k]) = 1

(***************************************************************************)
(* The inductive invariant behind the three properties of accepted.  A     *)
(* candidate keeps pace: each of its packets came within the inactivity    *)
(* timeout of the one before.  An acceptance is remembered by the replay   *)
(* cache, or is more than replay_ttl old.                                  *)
(***************************************************************************)
KeepsPace(cand) ==
    /\ Len(cand.ports) > 0
    /\ cand.last_seen_mono <= clock
    /\ cand.first_seen_wall - LEAD <= cand.last_seen_mono
    /\ cand.last_seen_mono <=
          cand.first_seen_wall + LAG + (Len(cand.ports) - 1) * inactivity_timeout

IsRemembered(k, time) ==
    /\ time <= clock
    /\ \/ k \in DOMAIN replay_cache /\ time <= replay_cache[k]
       \/ clock - time > replay_ttl

CandidateInv ==
    \A s \in DOMAIN candidates : KeepsPace(candidates[s])

CacheInv ==
    \A k \in DOMAIN accepted :
        /\ Len(accepted[k]) > 0
        /\ \A i \in 1..Len(accepted[k]) : IsRemembered(k, accepted[k][i])

IInv ==
    /\ TypeOK
    /\ CandidateInv
    /\ CacheInv
    /\ AcceptanceHorizon
    /\ ReuseOnlyAfterTTL

(***************************************************************************)
(* The promise to the caller, as a specification of its own, and that the  *)
(* tracker implements it: every call of on_match_ redeems a new code, in   *)
(* its time, and no other step redeems anything.  A second call for a code *)
(* lengthens accepted[code], which no step of Redemption does.             *)
(***************************************************************************)
Gate == INSTANCE Redemption WITH redeemed <- accepted, Start <- BOOT

RedeemsCodes == Gate!Spec

=============================================================================
