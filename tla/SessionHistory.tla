--------------------------- MODULE SessionHistory ----------------------------
(***************************************************************************)
(* Session with the packets themselves: what each source last sent, so     *)
(* that the candidate bookkeeping can be judged against a definition of a  *)
(* knock that mentions no candidate.                                       *)
(*                                                                         *)
(* recent and completed are history: no step of on_packet reads them.      *)
(***************************************************************************)
EXTENDS Session

VARIABLES
    recent,       \* source |-> its last packets, at most n_ports of them,
                  \* none from before its last completed knock
    completed     \* sources whose last packet completed a knock

historyVars == <<candidates, replay_cache, accepted, aborted, clock, recent, completed>>

Packet(p, captured_at) == [port |-> p, captured_at |-> captured_at, at |-> clock]

\* The last n elements of a sequence.
LastOf(seq, n) == IF Len(seq) <= n THEN seq ELSE SubSeq(seq, Len(seq) - n + 1, Len(seq))

HistoryInit ==
    /\ Init
    /\ recent = [s \in Sources |-> <<>>]
    /\ completed = {}

\* on_packet erased the live candidate of s: its sequence was complete.
Completing(s) ==
    s \in DOMAIN sweep_expired /\ s \notin DOMAIN candidates'

Record(s, p, captured_at) ==
    LET before == IF s \in completed THEN <<>> ELSE recent[s]
    IN  /\ recent' = [recent EXCEPT
                        ![s] = LastOf(Append(before, Packet(p, captured_at)), n_ports)]
        /\ completed' = IF Completing(s) THEN completed \cup {s} ELSE completed \ {s}

HistoryNext ==
    \/ \E s \in Sources, p \in KnockPorts, captured_at \in (clock - LAG)..(clock + LEAD) :
          on_packet(s, p, captured_at) /\ Record(s, p, captured_at)
    \/ Tick /\ UNCHANGED <<recent, completed>>

HistorySpec == HistoryInit /\ [][HistoryNext]_historyVars

-----------------------------------------------------------------------------
Spells(packets, w, c) ==
    /\ Len(packets) = n_ports
    /\ \A i \in 1..n_ports : packets[i].port = derive_ports(w, c)[i]

Prompt(packets) ==
    \A i \in 1..(Len(packets) - 1) :
        packets[i + 1].at - packets[i].at <= inactivity_timeout

\* spec/derivation.md, "Server behaviour": the ports of one window and channel,
\* in order, with nothing in between, each within the inactivity timeout of the
\* one before, the window at most one off that of the first packet.
IsKnock(packets, w, c) ==
    /\ packets # <<>>
    /\ Spells(packets, w, c)
    /\ Prompt(packets)
    /\ w \in candidate_windows(time_counter_for(packets[1].captured_at))

\* The beginning of this knock is not the middle of another one: a port that
\* makes another one complete ends it, and is no part of this one.
StartIsDistinct(w, c) == \A i \in 2..(n_ports - 1) : ~StartsLike(w, c, i)

(***************************************************************************)
(* Soundness, whatever the collisions of the keyed hash: a source's last   *)
(* packet completes a knock only when its last n_ports packets, all newer  *)
(* than its previous knock, are one.                                       *)
(***************************************************************************)
CompletedIsKnock ==
    \A s \in completed :
        \E w \in NearWindows, c \in Channels : IsKnock(recent[s], w, c)

(***************************************************************************)
(* An acceptance spends the code that its packets spell, the first one in  *)
(* the order of windows and channels when the hash makes several spell the *)
(* same, and no other source's packets can cause it.                       *)
(***************************************************************************)
AcceptedIsSpelt ==
    [][\A k \in DOMAIN accepted' :
          (k \notin DOMAIN accepted \/ accepted'[k] # accepted[k]) =>
              /\ k[1] \in completed' /\ IsKnock(recent'[k[1]], k[2], k[3])
              /\ \A w \in NearWindows, c \in Channels :
                    IsKnock(recent'[k[1]], w, c) =>
                        k[2] < w \/ (k[2] = w /\ k[3] <= c)]_historyVars

(***************************************************************************)
(* Completeness: a source whose last n_ports packets are a knock has       *)
(* completed it, whatever it sent before, unless the first port of this    *)
(* knock is also in the middle of a sequence that a candidate can follow.  *)
(* (A knock of one port is never completed: on_packet does not compare the *)
(* first packet of a candidate.)                                           *)
(***************************************************************************)
KnockIsCompleted ==
    n_ports > 1 =>
        \A s \in Sources, w \in NearWindows, c \in Channels :
            IsKnock(recent[s], w, c) /\ StartIsDistinct(w, c) =>
                s \in completed \/ aborted

-----------------------------------------------------------------------------
(***************************************************************************)
(* The inductive invariant.  The packets from position b on are the        *)
(* beginning of a knock, or all of it.                                     *)
(***************************************************************************)
Begun(packets, b, w, c) ==
    /\ b \in 1..Len(packets) /\ Len(packets) - b < n_ports
    /\ w \in candidate_windows(time_counter_for(packets[b].captured_at))
    /\ \A i \in b..Len(packets) : packets[i].port = derive_ports(w, c)[i - b + 1]
    /\ \A i \in b..(Len(packets) - 1) :
          packets[i + 1].at - packets[i].at <= inactivity_timeout

\* The candidate of s stands for its packets from position b on.
StandsFor(cand, packets, b) ==
    /\ b \in 1..Len(packets) /\ Len(cand.ports) = Len(packets) - b + 1
    /\ cand.first_seen_wall = packets[b].captured_at
    /\ cand.last_seen_mono = packets[Len(packets)].at
    /\ \A i \in b..Len(packets) : cand.ports[i - b + 1] = packets[i].port
    /\ \A i \in b..(Len(packets) - 1) :
          packets[i + 1].at - packets[i].at <= inactivity_timeout

HistoryTypeOK ==
    /\ recent \in [Sources -> Seq([port : KnockPorts, captured_at : Int, at : Nat])]
    /\ completed \subseteq Sources
    /\ clock <= MAX_CLOCK
    /\ \A s \in Sources :
          /\ Len(recent[s]) <= n_ports
          /\ \A i \in 1..Len(recent[s]) : recent[s][i].captured_at <= MAX_CLOCK + LEAD

CandidatesStand ==
    n_ports > 0 /\ ~aborted =>
        \A s \in DOMAIN candidates :
            s \notin completed /\ \E b \in 1..n_ports : StandsFor(candidates[s], recent[s], b)

\* What looks like a knock so far is the candidate, or too old to go on.
BegunIsCandidate ==
    n_ports > 1 /\ ~aborted =>
        \A s \in Sources \ completed, b \in 1..n_ports, w \in NearWindows, c \in Channels :
            Begun(recent[s], b, w, c) /\ StartIsDistinct(w, c) =>
                /\ Len(recent[s]) - b + 1 < n_ports
                /\ \/ /\ s \in DOMAIN candidates
                      /\ Len(candidates[s].ports) = Len(recent[s]) - b + 1
                   \/ clock - recent[s][Len(recent[s])].at > inactivity_timeout

HistoryInv ==
    /\ IInv
    /\ HistoryTypeOK
    /\ CandidatesStand
    /\ CompletedIsKnock
    /\ BegunIsCandidate
=============================================================================
