---------------------------- MODULE KnockdProofs -----------------------------
(***************************************************************************)
(* Theorems about Knockd, for every configuration, keyed hash, set of      *)
(* sources and bound: how long a packet waits, that what is open was       *)
(* verified, that the daemon implements TimedGate, what becomes of the     *)
(* inactivity timeout under the wait, and, when LAG covers the wait, that  *)
(* every run of the daemon is one of Session.                              *)
(***************************************************************************)
EXTENDS Knockd, SessionProofs

Packet == [src : Sources, port : KnockPorts, captured_at : Nat]

\* The longest wait of a packet that can have seen CAPACITY - j - 1 others go.
Room(j) == Longest + (CAPACITY - j - 1) * SLOW

\* A knock of s on channel c was verified at time t.
WasVerified(s, c, t) ==
    \E code \in DOMAIN honoured :
        /\ code[1] = s /\ code[3] = c
        /\ \E i \in 1..Len(honoured[code]) : honoured[code][i] = t

(***************************************************************************)
(* The inductive invariant.  The packets behind the one that started the   *)
(* present job had waited, when it started, for the read timeout and the   *)
(* jobs before it; the job itself was started by a verification, and so    *)
(* was every entry's.                                                      *)
(***************************************************************************)
PhaseInv ==
    /\ clock \in Nat
    /\ phase \in Phases
    /\ job = NoJob \/ job \in Sources \X Channels
    /\ phase = "acting" <=> job # NoJob
    /\ aborted = (phase = "unwinding")
    /\ stop_requested \in BOOLEAN /\ (stop_requested => Capturing)

Waited(i) ==
    IF phase = "acting" THEN started - capture[i].captured_at <= Room(i)
                        ELSE clock - capture[i].captured_at <= Room(i - 1)

QueueInv ==
    /\ capture \in Seq(Packet) /\ Len(capture) <= CAPACITY
    /\ capture # <<>> => Capturing \/ phase = "unwinding"
    /\ \A i \in 1..Len(capture) : Waited(i)

JobInv ==
    phase = "acting" =>
        /\ started \in Nat /\ started <= clock /\ clock <= started + SLOW
        /\ WasVerified(job[1], job[2], started)

HistoryInv == \A code \in DOMAIN honoured : honoured[code] \in Seq(Nat)

EntryInv ==
    /\ DOMAIN elements \subseteq Sources \X Channels
    /\ \A x \in DOMAIN elements :
          /\ IsOpen(x[2])
          /\ \E t, opened \in Nat :
                /\ elements[x] = opened + open_duration
                /\ t <= opened /\ opened <= t + SLOW
                /\ WasVerified(x[1], x[2], t)

DaemonInv == PhaseInv /\ QueueInv /\ JobInv /\ HistoryInv /\ EntryInv

-----------------------------------------------------------------------------
(***************************************************************************)
(* Arithmetic of the wait.                                                 *)
(***************************************************************************)
LEMMA RoomSteps ==
    ASSUME NEW j \in Int
    PROVE  /\ Room(j) \in Int
           /\ Room(j - 1) = Room(j) + SLOW
           /\ j <= CAPACITY => Room(j) >= 0 /\ READ_TIMEOUT <= Room(j - 1)
           /\ 0 <= j => Room(j) <= LongestWait
           /\ Longest + (CAPACITY - j) * SLOW = Room(j - 1)
<1>1. CAPACITY \in Int /\ SLOW \in Nat /\ READ_TIMEOUT \in Nat
  BY KnockdAssumption
<1>2. Longest \in Nat /\ SLOW <= Longest /\ READ_TIMEOUT <= Longest
  BY <1>1 DEF Longest
<1>3. PICK a, b, c : /\ a = CAPACITY - j - 1 /\ b = CAPACITY - j /\ c = CAPACITY - 1
  OBVIOUS
<1>4. /\ a \in Int /\ b \in Int /\ c \in Int /\ b = a + 1
      /\ a * SLOW \in Int /\ b * SLOW \in Int /\ c * SLOW \in Int
  <2>1. a \in Int /\ b \in Int /\ c \in Int /\ b = a + 1
    BY <1>1, <1>3
  <2> QED BY <1>1, <2>1
<1>5. b * SLOW = a * SLOW + SLOW
  <2>1. (a + 1) * SLOW = a * SLOW + 1 * SLOW /\ 1 * SLOW = SLOW
    BY <1>1, <1>4, Distribute
  <2> QED BY <1>4, <2>1
<1>6. PICK x, y, z : x = a * SLOW /\ y = b * SLOW /\ z = c * SLOW
  OBVIOUS
<1>7. x \in Int /\ y \in Int /\ z \in Int /\ y = x + SLOW
  BY <1>4, <1>5, <1>6
<1>8. Room(j) = Longest + x /\ Room(j - 1) = Longest + y /\ LongestWait = Longest + z
  <2>1. CAPACITY - (j - 1) - 1 = b
    BY <1>1, <1>3
  <2> QED BY <1>3, <1>6, <2>1 DEF Room, LongestWait
<1>9. j <= CAPACITY => 0 <= y
  <2>1. j <= CAPACITY => 0 <= b
    BY <1>1, <1>3
  <2>2. 0 * SLOW = 0
    BY <1>1
  <2> QED BY <1>1, <1>4, <1>6, <2>1, <2>2, Monotone
<1>10. 0 <= j => x <= z
  <2>1. 0 <= j => a <= c
    BY <1>1, <1>3
  <2> QED BY <1>1, <1>4, <1>6, <2>1, Monotone
<1>11. Longest + (CAPACITY - j) * SLOW = Room(j - 1)
  BY <1>3, <1>6, <1>8
<1> QED BY <1>1, <1>2, <1>7, <1>8, <1>9, <1>10, <1>11

-----------------------------------------------------------------------------
(***************************************************************************)
(* Steps that verify nothing keep what was verified.                       *)
(***************************************************************************)
LEMMA HistoryKept ==
    ASSUME honoured' = honoured
    PROVE  /\ \A s, c, t : WasVerified(s, c, t) => WasVerified(s, c, t)'
           /\ HistoryInv => HistoryInv'
BY DEF WasVerified, HistoryInv

LEMMA EntriesKept ==
    ASSUME EntryInv, elements' = elements,
           \A s, c, t : WasVerified(s, c, t) => WasVerified(s, c, t)'
    PROVE  EntryInv'
<1> SUFFICES ASSUME NEW x \in DOMAIN elements
             PROVE  \E t, opened \in Nat :
                       /\ elements[x] = opened + open_duration
                       /\ t <= opened /\ opened <= t + SLOW
                       /\ WasVerified(x[1], x[2], t)'
  BY DEF EntryInv, IsOpen, HasAction, parse_channel_actions
<1> QED BY DEF EntryInv

LEMMA NoEntries ==
    ASSUME elements' = EmptyMap
    PROVE  EntryInv'
BY DEF EntryInv, EmptyMap

\* The job that runs is the one that ran, and no time has passed.
LEMMA JobKept ==
    ASSUME JobInv, honoured' = honoured, clock' = clock,
           phase' = "acting" => phase = "acting" /\ UNCHANGED <<job, started>>
    PROVE  JobInv'
<1> SUFFICES ASSUME phase' = "acting"
             PROVE  /\ started' \in Nat /\ started' <= clock' /\ clock' <= started' + SLOW
                    /\ WasVerified(job[1], job[2], started)'
  BY DEF JobInv
<1>1. phase = "acting" /\ job' = job /\ started' = started
  OBVIOUS
<1>2. WasVerified(job[1], job[2], started)
  BY <1>1 DEF JobInv
<1>3. WasVerified(job[1], job[2], started)'
  BY <1>1, <1>2 DEF WasVerified
<1> QED BY <1>1, <1>3 DEF JobInv

LEMMA EmptyQueue ==
    ASSUME capture' = <<>>
    PROVE  QueueInv'
<1>1. Len(capture') = 0 /\ capture' \in Seq(Packet) /\ 0 <= CAPACITY
  BY KnockdAssumption
<1>2. \A i \in 1..Len(capture') : FALSE
  BY <1>1
<1> QED BY <1>1, <1>2 DEF QueueInv

-----------------------------------------------------------------------------
(***************************************************************************)
(* The invariant is kept, by each group of actions.                        *)
(***************************************************************************)
LEMMA EndStep ==
    ASSUME DaemonInv, NEW how \in {"failed", "exited", "stopped"}, End(how)
    PROVE  DaemonInv'
<1>1. PhaseInv'
  BY DEF DaemonInv, PhaseInv, End, Forget, Phases, NoJob, Capturing
<1>2. QueueInv'
  BY EmptyQueue DEF End
<1>3. JobInv'
  BY JobKept DEF DaemonInv, End, Forget
<1>4. HistoryInv' /\ EntryInv'
  BY HistoryKept, EntriesKept DEF DaemonInv, End
<1> QED BY <1>1, <1>2, <1>3, <1>4 DEF DaemonInv

LEMMA StartStep ==
    ASSUME DaemonInv, BuildRuleset \/ OpenCapture \/ Restart \/ Start
    PROVE  DaemonInv'
<1>1. /\ phase \in {"starting", "arming", "failed", "exited", "stopped"}
      /\ phase' \in {"starting", "arming", "listening"}
      /\ UNCHANGED <<vars, capture, job, stop_requested, honoured>>
      /\ elements' = elements \/ elements' = EmptyMap
  BY DEF BuildRuleset, OpenCapture, Restart, Start
<1>2. PhaseInv'
  BY <1>1 DEF DaemonInv, PhaseInv, Phases, NoJob, Capturing, vars
<1>3. QueueInv'
  BY <1>1, EmptyQueue DEF DaemonInv, QueueInv, Capturing
<1>4. JobInv'
  BY <1>1 DEF JobInv
<1>5. HistoryInv' /\ EntryInv'
  BY <1>1, HistoryKept, EntriesKept, NoEntries DEF DaemonInv
<1> QED BY <1>2, <1>3, <1>4, <1>5 DEF DaemonInv

LEMMA ReceiveStep ==
    ASSUME DaemonInv, NEW s \in Sources, NEW p \in KnockPorts, Receive(s, p)
    PROVE  DaemonInv'
<1> DEFINE packet == [src |-> s, port |-> p, captured_at |-> clock]
           n == Len(capture)
<1>1. /\ UNCHANGED <<clock, aborted, phase, job, started, stop_requested, elements, honoured>>
      /\ capture' = Append(capture, packet) /\ n < CAPACITY /\ Capturing
  BY DEF Receive, vars
<1>2. PhaseInv'
  BY <1>1 DEF DaemonInv, PhaseInv, NoJob, Capturing
<1>3. packet \in Packet /\ packet.captured_at = clock /\ clock \in Nat
  BY DEF DaemonInv, PhaseInv, Packet
<1>4. /\ capture' \in Seq(Packet) /\ Len(capture') = n + 1 /\ n \in Nat
      /\ \A i \in 1..n : capture'[i] = capture[i]
      /\ capture'[n + 1] = packet
  <2> HIDE DEF packet
  <2> QED BY <1>1, <1>3 DEF DaemonInv, QueueInv
<1>5. ASSUME NEW i \in 1..Len(capture')
      PROVE  Waited(i)'
  <2>1. CASE i \in 1..n
    BY <1>1, <1>4, <2>1 DEF Waited, DaemonInv, QueueInv
  <2>2. CASE i = n + 1
    <3>1. i \in Int /\ i <= CAPACITY /\ clock - packet.captured_at = 0 /\ CAPACITY \in Nat
      BY <1>1, <1>3, <1>4, <2>2, KnockdAssumption
    <3>2. 0 <= Room(i) /\ 0 <= Room(i - 1)
      <4>1. i - 1 \in Int /\ i - 1 <= CAPACITY
        BY <3>1
      <4> QED BY <3>1, <4>1, RoomSteps
    <3>3. phase = "acting" => started \in Nat /\ started - clock <= 0
      BY <1>3 DEF DaemonInv, JobInv
    <3>4. Room(i) \in Int /\ Room(i - 1) \in Int
      BY <3>1, RoomSteps
    <3>5. capture'[i].captured_at = clock
      BY <1>3, <1>4, <2>2
    <3> HIDE DEF packet, n
    <3>6. phase = "acting" => started - clock <= Room(i)
      BY <3>2, <3>3, <3>4, <1>3
    <3>7. clock - clock <= Room(i - 1)
      BY <3>2, <3>4, <1>3
    <3> QED BY <1>1, <3>5, <3>6, <3>7 DEF Waited, Room, Longest
  <2> QED BY <1>4, <2>1, <2>2
<1>6. QueueInv'
  <2>1. capture' # <<>> => (Capturing \/ phase = "unwinding")'
    BY <1>1 DEF Capturing
  <2>2. Len(capture') <= CAPACITY
    BY <1>1, <1>4, KnockdAssumption
  <2> QED BY <1>4, <1>5, <2>1, <2>2 DEF QueueInv
<1>7. JobInv' /\ HistoryInv' /\ EntryInv'
  BY <1>1, JobKept, HistoryKept, EntriesKept DEF DaemonInv
<1> QED BY <1>2, <1>6, <1>7 DEF DaemonInv

LEMMA ActionStep ==
    ASSUME DaemonInv, OpenEnds \/ OpenFails \/ CommandEnds
    PROVE  DaemonInv'
<1>1. /\ phase = "acting" /\ phase' = "listening" /\ job' = NoJob
      /\ UNCHANGED <<clock, aborted, capture, started, stop_requested, honoured>>
  BY DEF OpenEnds, OpenFails, CommandEnds, ActionEnds, vars
<1>2. PhaseInv'
  BY <1>1 DEF DaemonInv, PhaseInv, Phases, NoJob, Capturing
<1>3. QueueInv'
  <2>1. ASSUME NEW i \in 1..Len(capture)
        PROVE  Waited(i)'
    <3>1. /\ capture[i] \in Packet /\ started \in Nat /\ clock \in Nat
          /\ started - capture[i].captured_at <= Room(i)
          /\ clock <= started + SLOW
      BY <1>1 DEF DaemonInv, PhaseInv, QueueInv, JobInv, Waited
    <3>2. i \in Int /\ Room(i) \in Int /\ Room(i - 1) = Room(i) + SLOW /\ SLOW \in Nat
      BY RoomSteps, KnockdAssumption
    <3>3. capture[i].captured_at \in Nat
      BY <3>1 DEF Packet
    <3>4. clock - capture[i].captured_at <= Room(i - 1)
      BY <3>1, <3>2, <3>3
    <3> QED BY <1>1, <3>4 DEF Waited, Room, Longest
  <2> QED BY <1>1, <2>1 DEF DaemonInv, QueueInv, Capturing
<1>4. JobInv'
  BY <1>1 DEF JobInv
<1>5. HistoryInv' /\ \A s, c, t : WasVerified(s, c, t) => WasVerified(s, c, t)'
  BY <1>1, HistoryKept DEF DaemonInv
<1>6. CASE elements' = elements
  <2>1. EntryInv'
    BY <1>5, <1>6, EntriesKept DEF DaemonInv
  <2> QED BY <1>2, <1>3, <1>4, <1>5, <2>1 DEF DaemonInv
<1>7. CASE IsOpen(job[2]) /\ elements' = Put(elements, job, clock + open_duration)
  <2>1. /\ DOMAIN elements' = DOMAIN elements \cup {job}
        /\ \A x \in DOMAIN elements' :
              elements'[x] = IF x = job THEN clock + open_duration ELSE elements[x]
    BY <1>7 DEF Put
  <2>2. job \in Sources \X Channels /\ clock \in Nat
    BY <1>1 DEF DaemonInv, PhaseInv
  <2>3. PICK t0 \in Nat : t0 <= clock /\ clock <= t0 + SLOW
                          /\ WasVerified(job[1], job[2], t0)
    BY <1>1 DEF DaemonInv, JobInv
  <2>4. ASSUME NEW x \in DOMAIN elements'
        PROVE  /\ IsOpen(x[2])
               /\ \E t, opened \in Nat :
                     /\ elements'[x] = opened + open_duration
                     /\ t <= opened /\ opened <= t + SLOW
                     /\ WasVerified(x[1], x[2], t)'
    <3>1. CASE x = job
      <4>1. elements'[x] = clock + open_duration
        BY <2>1, <3>1
      <4>2. WasVerified(x[1], x[2], t0)
        BY <2>3, <3>1
      <4>3. WasVerified(x[1], x[2], t0)'
        BY <1>5, <4>2
      <4> QED BY <1>7, <2>2, <2>3, <3>1, <4>1, <4>3
    <3>2. CASE x # job
      BY <1>5, <2>1, <3>2 DEF DaemonInv, EntryInv
    <3> QED BY <3>1, <3>2
  <2>5. EntryInv'
    BY <2>1, <2>2, <2>4 DEF DaemonInv, EntryInv, IsOpen, HasAction, parse_channel_actions
  <2> QED BY <1>2, <1>3, <1>4, <1>5, <2>5 DEF DaemonInv
<1> QED BY <1>6, <1>7 DEF OpenEnds, OpenFails, CommandEnds

LEMMA RequestStep ==
    ASSUME DaemonInv, Terminate
    PROVE  DaemonInv'
<1>1. CASE End("stopped")
  BY <1>1, EndStep
<1>2. CASE /\ Capturing /\ stop_requested' = TRUE
           /\ UNCHANGED <<vars, phase, capture, job, started, elements, honoured>>
  <2>1. PhaseInv'
    BY <1>2 DEF DaemonInv, PhaseInv, NoJob, Capturing, vars
  <2>2. QueueInv'
    BY <1>2 DEF DaemonInv, QueueInv, Capturing, Waited, vars
  <2>3. JobInv' /\ HistoryInv' /\ EntryInv'
    BY <1>2, JobKept, HistoryKept, EntriesKept DEF DaemonInv, vars
  <2> QED BY <2>1, <2>2, <2>3 DEF DaemonInv
<1> QED BY <1>1, <1>2 DEF Terminate

\* The three ways in which a packet is handled.
Handled ==
    \/ UNCHANGED <<aborted, phase, job, started, honoured>>
    \/ \E s \in Sources, c \in Channels : \E w :
          /\ UNCHANGED aborted
          /\ honoured' = Put(honoured, <<s, w, c>>, Append(VerifiedAt(<<s, w, c>>), clock))
          /\ Dispatch(s, c)
    \/ /\ aborted' = TRUE /\ phase' = "unwinding"
       /\ UNCHANGED <<job, started, honoured>>

LEMMA HandleCases ==
    ASSUME QueueInv, HandlePacket
    PROVE  /\ phase = "listening" /\ ~stop_requested /\ capture # <<>>
           /\ Head(capture) \in Packet /\ capture' = Tail(capture)
           /\ UNCHANGED <<clock, stop_requested, elements>>
           /\ Handled
           /\ on_packet(Head(capture).src, Head(capture).port, Head(capture).captured_at)
<1> DEFINE s == Head(capture).src
           p == Head(capture).port
           captured_at == Head(capture).captured_at
<1>1. /\ phase = "listening" /\ ~stop_requested /\ capture # <<>>
      /\ capture' = Tail(capture) /\ UNCHANGED <<stop_requested, elements>>
  BY DEF HandlePacket
<1>2. Head(capture) \in Packet
  BY <1>1 DEF QueueInv
<1>3. s \in Sources
  BY <1>2 DEF Packet
<1>4. CASE /\ \/ StartCandidate(s, p, captured_at)
              \/ BreakSequence(s, p, captured_at)
              \/ ExtendCandidate(s, p)
              \/ /\ Extends(s)
                 /\ \E x \in Tried(candidates[s]) : RejectReplay(s, p, x[1], x[2])
           /\ UNCHANGED <<phase, job, started, failures, honoured>>
  <2>1. clock' = clock /\ aborted' = aborted
    BY <1>4 DEF StartCandidate, BreakSequence, ExtendCandidate, RejectReplay
  <2> QED BY <1>1, <1>2, <1>4, <2>1 DEF Handled, on_packet
<1>5. ASSUME Extends(s), NEW x \in Tried(candidates[s]), AcceptMatch(s, p, x[1], x[2]),
             honoured' = Put(honoured, <<s, x[1], x[2]>>,
                             Append(VerifiedAt(<<s, x[1], x[2]>>), clock)),
             Dispatch(s, x[2])
      PROVE  /\ UNCHANGED clock /\ Handled
             /\ on_packet(s, p, captured_at)
  <2>1. clock' = clock /\ aborted' = aborted
    BY <1>5 DEF AcceptMatch
  <2>2. x[2] \in Channels
    BY DEF Tried
  <2>3. Handled
    BY <1>3, <1>5, <2>1, <2>2 DEF Handled
  <2>4. on_packet(s, p, captured_at)
    BY <1>5 DEF on_packet
  <2> QED BY <2>1, <2>3, <2>4
<1>6. CASE DerivationThrows(s) /\ phase' = "unwinding" /\ UNCHANGED <<job, started, honoured>>
  BY <1>1, <1>2, <1>6 DEF DerivationThrows, Handled, on_packet
<1>7. \/ /\ \/ StartCandidate(s, p, captured_at)
            \/ BreakSequence(s, p, captured_at)
            \/ ExtendCandidate(s, p)
            \/ /\ Extends(s)
               /\ \E x \in Tried(candidates[s]) : RejectReplay(s, p, x[1], x[2])
         /\ UNCHANGED <<phase, job, started, failures, honoured>>
      \/ /\ Extends(s)
         /\ \E x \in Tried(candidates[s]) :
               /\ AcceptMatch(s, p, x[1], x[2])
               /\ honoured' = Put(honoured, <<s, x[1], x[2]>>,
                                  Append(VerifiedAt(<<s, x[1], x[2]>>), clock))
               /\ Dispatch(s, x[2])
      \/ DerivationThrows(s) /\ phase' = "unwinding" /\ UNCHANGED <<job, started, honoured>>
  BY DEF HandlePacket
<1> QED BY <1>1, <1>2, <1>4, <1>5, <1>6, <1>7

\* A verification adds the present to the times of one code.
LEMMA VerifyStep ==
    ASSUME HistoryInv, clock \in Nat, NEW s0, NEW w0, NEW c0,
           honoured' = Put(honoured, <<s0, w0, c0>>,
                           Append(VerifiedAt(<<s0, w0, c0>>), clock))
    PROVE  /\ HistoryInv'
           /\ \A s, c, t : WasVerified(s, c, t) => WasVerified(s, c, t)'
           /\ \A t : t = clock => WasVerified(s0, c0, t)'
<1> DEFINE code == <<s0, w0, c0>>
           old == VerifiedAt(code)
<1>1. old \in Seq(Nat) /\ (code \in DOMAIN honoured => old = honoured[code])
  BY DEF HistoryInv, VerifiedAt
<1>2. /\ Append(old, clock) \in Seq(Nat)
      /\ Len(Append(old, clock)) = Len(old) + 1 /\ Len(old) \in Nat
      /\ \A i \in 1..Len(old) : Append(old, clock)[i] = old[i]
      /\ Append(old, clock)[Len(old) + 1] = clock
  <2> HIDE DEF old
  <2> QED BY <1>1
<1>3. /\ DOMAIN honoured' = DOMAIN honoured \cup {code}
      /\ honoured'[code] = Append(old, clock)
      /\ \A k \in DOMAIN honoured : k # code => honoured'[k] = honoured[k]
  <2> HIDE DEF old, code
  <2>1. honoured' = Put(honoured, code, Append(old, clock))
    BY DEF old, code
  <2> QED BY <2>1 DEF Put
<1>4. code[1] = s0 /\ code[3] = c0
  OBVIOUS
<1> HIDE DEF old, code
<1>5. HistoryInv'
  BY <1>2, <1>3 DEF HistoryInv
<1>6. ASSUME NEW s, NEW c, NEW t, WasVerified(s, c, t)
      PROVE  WasVerified(s, c, t)'
  <2>1. PICK k \in DOMAIN honoured :
           /\ k[1] = s /\ k[3] = c
           /\ \E i \in 1..Len(honoured[k]) : honoured[k][i] = t
    BY <1>6 DEF WasVerified
  <2>2. \E i \in 1..Len(honoured'[k]) : honoured'[k][i] = t
    <3>1. CASE k = code
      <4>1. PICK i \in 1..Len(old) : old[i] = t
        BY <2>1, <3>1, <1>1
      <4>2. /\ i \in 1..Len(Append(old, clock))
            /\ Append(old, clock)[i] = t
        BY <4>1, <1>2
      <4>3. honoured'[k] = Append(old, clock)
        BY <3>1, <1>3
      <4> QED BY <4>2, <4>3
    <3>2. CASE k # code
      BY <2>1, <3>2, <1>3
    <3> QED BY <3>1, <3>2
  <2> QED BY <2>1, <2>2, <1>3 DEF WasVerified
<1>7. ASSUME NEW t, t = clock
      PROVE  WasVerified(s0, c0, t)'
  <2>1. Len(old) + 1 \in 1..Len(honoured'[code]) /\ honoured'[code][Len(old) + 1] = t
    BY <1>2, <1>3, <1>7
  <2> QED BY <1>3, <1>4, <2>1 DEF WasVerified
<1> QED BY <1>5, <1>6, <1>7

LEMMA HandleStep ==
    ASSUME DaemonInv, HandlePacket
    PROVE  DaemonInv'
<1>1. /\ phase = "listening" /\ ~stop_requested /\ capture # <<>>
      /\ capture' = Tail(capture)
      /\ UNCHANGED <<clock, stop_requested, elements>>
      /\ Handled
  BY HandleCases DEF DaemonInv
<1>2. /\ clock \in Nat /\ job = NoJob /\ aborted = FALSE /\ stop_requested = FALSE
  BY <1>1 DEF DaemonInv, PhaseInv
<1>3. /\ HistoryInv'
      /\ \A s, c, t : WasVerified(s, c, t) => WasVerified(s, c, t)'
  <2>1. CASE honoured' = honoured
    BY <2>1, HistoryKept DEF DaemonInv
  <2>2. ASSUME NEW s \in Sources, NEW c \in Channels, NEW w,
               honoured' = Put(honoured, <<s, w, c>>, Append(VerifiedAt(<<s, w, c>>), clock))
        PROVE  /\ HistoryInv'
               /\ \A s1, c1, t : WasVerified(s1, c1, t) => WasVerified(s1, c1, t)'
    BY <1>2, <2>2, VerifyStep DEF DaemonInv
  <2> QED BY <1>1, <2>1, <2>2 DEF Handled
<1>4. /\ PhaseInv' /\ JobInv'
      /\ phase' = "acting" => started' = clock
  <2>1. CASE UNCHANGED <<aborted, phase, job, started, honoured>>
    BY <1>1, <1>2, <2>1 DEF DaemonInv, PhaseInv, JobInv, NoJob, Capturing
  <2>2. ASSUME NEW s \in Sources, NEW c \in Channels, NEW w,
               UNCHANGED aborted, Dispatch(s, c),
               honoured' = Put(honoured, <<s, w, c>>, Append(VerifiedAt(<<s, w, c>>), clock))
        PROVE  /\ PhaseInv' /\ JobInv'
               /\ phase' = "acting" => started' = clock
    <3>1. \A t : t = clock => WasVerified(s, c, t)'
      BY <1>2, <2>2, VerifyStep DEF DaemonInv
    <3>2. CASE phase' = "acting" /\ job' = <<s, c>> /\ started' = clock
      <4>1. PhaseInv'
        BY <1>1, <1>2, <2>2, <3>2 DEF DaemonInv, PhaseInv, NoJob, Capturing, Phases
      <4>2. WasVerified(job[1], job[2], started)'
        <5>1. job'[1] = s /\ job'[2] = c /\ started' = clock /\ clock' = clock
          BY <1>1, <3>2
        <5> QED BY <3>1, <5>1 DEF WasVerified
      <4>3. JobInv'
        BY <1>1, <1>2, <3>2, <4>2, KnockdAssumption DEF JobInv
      <4> QED BY <3>2, <4>1, <4>3
    <3>3. CASE UNCHANGED <<phase, job, started>>
      BY <1>1, <1>2, <2>2, <3>3 DEF DaemonInv, PhaseInv, JobInv, NoJob, Capturing
    <3> QED BY <2>2, <3>2, <3>3 DEF Dispatch
  <2>3. CASE aborted' = TRUE /\ phase' = "unwinding" /\ UNCHANGED <<job, started, honoured>>
    BY <1>1, <1>2, <2>3 DEF DaemonInv, PhaseInv, JobInv, NoJob, Capturing, Phases
  <2> QED BY <1>1, <2>1, <2>2, <2>3 DEF Handled
<1>5. phase' \in {"listening", "acting", "unwinding"}
  BY <1>1 DEF Handled, Dispatch
<1>6. QueueInv'
  <2>1. /\ capture' \in Seq(Packet) /\ Len(capture') = Len(capture) - 1
        /\ Len(capture) \in Nat
        /\ \A i \in 1..Len(capture') :
              i + 1 \in 1..Len(capture) /\ capture'[i] = capture[i + 1]
    BY <1>1 DEF DaemonInv, QueueInv
  <2>2. ASSUME NEW i \in 1..Len(capture')
        PROVE  Waited(i)'
    <3>1. /\ i + 1 \in 1..Len(capture) /\ capture'[i] = capture[i + 1]
          /\ i \in Int /\ (i + 1) - 1 = i
      BY <2>1
    <3>2. clock - capture[i + 1].captured_at <= Room(i)
      BY <1>1, <3>1 DEF DaemonInv, QueueInv, Waited
    <3>3. Room(i) \in Int /\ Room(i - 1) = Room(i) + SLOW /\ SLOW \in Nat
      BY <3>1, RoomSteps, KnockdAssumption
    <3>4. capture[i + 1].captured_at \in Nat
      <4>1. capture[i + 1] \in Packet
        BY <3>1 DEF DaemonInv, QueueInv
      <4> QED BY <4>1 DEF Packet
    <3>5. clock - capture[i + 1].captured_at <= Room(i - 1)
      BY <1>2, <3>2, <3>3, <3>4
    <3> QED BY <1>1, <1>4, <3>1, <3>2, <3>5 DEF Waited, Room, Longest
  <2>3. Len(capture') <= CAPACITY
    BY <2>1, KnockdAssumption DEF DaemonInv, QueueInv
  <2> QED BY <1>5, <2>1, <2>2, <2>3 DEF QueueInv, Capturing
<1>7. EntryInv'
  BY <1>1, <1>3, EntriesKept DEF DaemonInv
<1> QED BY <1>3, <1>4, <1>6, <1>7 DEF DaemonInv

LEMMA PassStep ==
    ASSUME DaemonInv, PassTime
    PROVE  DaemonInv'
<1>1. /\ clock' = clock + 1 /\ ~aborted
      /\ UNCHANGED <<aborted, phase, capture, job, started, stop_requested, honoured>>
      /\ elements' = [x \in {y \in DOMAIN elements : elements[y] > clock + 1} |-> elements[x]]
      /\ phase = "listening" =>
            \A i \in 1..Len(capture) : clock < capture[i].captured_at + READ_TIMEOUT
      /\ phase = "acting" => clock < started + SLOW
  BY DEF PassTime, Tick, daemonVars
<1>2. PhaseInv'
  BY <1>1 DEF DaemonInv, PhaseInv, Capturing
<1>3. QueueInv'
  <2>1. CASE phase = "acting"
    BY <1>1, <2>1 DEF DaemonInv, QueueInv, Capturing, Waited, Room, Longest
  <2>2. CASE phase = "listening"
    <3>1. ASSUME NEW i \in 1..Len(capture)
          PROVE  Waited(i)'
      <4>1. capture[i] \in Packet /\ i \in Int /\ i <= CAPACITY
        BY KnockdAssumption DEF DaemonInv, QueueInv
      <4>2. /\ capture[i].captured_at \in Nat /\ clock \in Nat /\ READ_TIMEOUT \in Nat
            /\ clock < capture[i].captured_at + READ_TIMEOUT
        BY <1>1, <2>2, <4>1, KnockdAssumption DEF DaemonInv, PhaseInv, Packet
      <4>3. READ_TIMEOUT <= Room(i - 1) /\ Room(i - 1) \in Int
        BY <4>1, RoomSteps
      <4>4. PICK room : room = Room(i - 1)
        OBVIOUS
      <4>5. Room(i - 1)' = room
        BY <4>4 DEF Room, Longest
      <4>6. phase' # "acting" /\ clock' = clock + 1 /\ capture' = capture
        BY <1>1, <2>2
      <4>7. clock' - capture'[i].captured_at <= room
        BY <4>2, <4>3, <4>4, <4>6
      <4> QED BY <4>5, <4>6, <4>7 DEF Waited
    <3> QED BY <1>1, <3>1 DEF DaemonInv, QueueInv, Capturing
  <2>3. CASE phase \notin {"acting", "listening"}
    <3>1. phase # "unwinding"
      BY <1>1 DEF DaemonInv, PhaseInv
    <3>2. capture = <<>>
      BY <1>1, <2>3, <3>1 DEF DaemonInv, QueueInv, Capturing
    <3> QED BY <1>1, <3>2, EmptyQueue
  <2> QED BY <2>1, <2>2, <2>3
<1>4. HistoryInv' /\ \A s, c, t : WasVerified(s, c, t) => WasVerified(s, c, t)'
  BY <1>1, HistoryKept DEF DaemonInv
<1>5. JobInv'
  <2> SUFFICES ASSUME phase' = "acting"
               PROVE  /\ started' \in Nat /\ started' <= clock' /\ clock' <= started' + SLOW
                      /\ WasVerified(job[1], job[2], started)'
    BY DEF JobInv
  <2>1. /\ phase = "acting" /\ started \in Nat /\ started <= clock /\ clock \in Nat
        /\ WasVerified(job[1], job[2], started)
    BY <1>1 DEF DaemonInv, PhaseInv, JobInv
  <2>2. WasVerified(job[1], job[2], started)'
    BY <1>1, <2>1 DEF WasVerified
  <2> QED BY <1>1, <2>1, <2>2, KnockdAssumption
<1>6. EntryInv'
  <2>1. /\ DOMAIN elements' \subseteq DOMAIN elements
        /\ \A x \in DOMAIN elements' : elements'[x] = elements[x]
    BY <1>1
  <2>2. ASSUME NEW x \in DOMAIN elements'
        PROVE  /\ IsOpen(x[2])
               /\ \E t, opened \in Nat :
                     /\ elements'[x] = opened + open_duration
                     /\ t <= opened /\ opened <= t + SLOW
                     /\ WasVerified(x[1], x[2], t)'
    BY <1>4, <2>1 DEF DaemonInv, EntryInv
  <2> QED BY <2>1, <2>2 DEF DaemonInv, EntryInv, IsOpen, HasAction, parse_channel_actions
<1> QED BY <1>2, <1>3, <1>4, <1>5, <1>6 DEF DaemonInv

LEMMA StutterStep ==
    ASSUME DaemonInv, UNCHANGED knockdVars
    PROVE  DaemonInv'
<1>1. /\ UNCHANGED <<clock, aborted, phase, capture, job, started, stop_requested,
                     elements, honoured>>
  BY DEF knockdVars, vars, daemonVars
<1>2. PhaseInv' /\ QueueInv'
  BY <1>1 DEF DaemonInv, PhaseInv, QueueInv, Capturing, Waited, Room, Longest
<1>3. JobInv' /\ HistoryInv' /\ EntryInv'
  BY <1>1, JobKept, HistoryKept, EntriesKept DEF DaemonInv
<1> QED BY <1>2, <1>3 DEF DaemonInv

LEMMA DaemonStep == DaemonInv /\ [KnockdNext]_knockdVars => DaemonInv'
<1> SUFFICES ASSUME DaemonInv, [KnockdNext]_knockdVars
             PROVE  DaemonInv'
  OBVIOUS
<1>1. CASE BuildRuleset \/ OpenCapture \/ Restart \/ Start
  BY <1>1, StartStep
<1>2. ASSUME NEW how \in {"failed", "exited", "stopped"}, End(how)
      PROVE  DaemonInv'
  BY <1>2, EndStep
<1>3. CASE StartFails \/ Unwind \/ LeaveLoop \/ CaptureFails \/ Crash
  BY <1>2, <1>3 DEF StartFails, Unwind, LeaveLoop, CaptureFails, Crash
<1>4. ASSUME NEW s \in Sources, NEW p \in KnockPorts, Receive(s, p)
      PROVE  DaemonInv'
  BY <1>4, ReceiveStep
<1>5. CASE HandlePacket
  BY <1>5, HandleStep
<1>6. CASE OpenEnds \/ OpenFails \/ CommandEnds
  BY <1>6, ActionStep
<1>7. CASE Terminate
  BY <1>7, RequestStep
<1>8. CASE PassTime
  BY <1>8, PassStep
<1>9. CASE UNCHANGED knockdVars
  BY <1>9, StutterStep
<1> QED BY <1>1, <1>3, <1>4, <1>5, <1>6, <1>7, <1>8, <1>9 DEF KnockdNext

LEMMA DaemonStarts == KnockdInit => DaemonInv
<1> SUFFICES ASSUME KnockdInit
             PROVE  DaemonInv
  OBVIOUS
<1>1. /\ clock = BOOT /\ BOOT \in Nat /\ aborted = FALSE
      /\ phase = "starting" /\ capture = <<>> /\ job = NoJob /\ stop_requested = FALSE
      /\ elements = EmptyMap /\ honoured = EmptyMap
  BY SessionAssumption DEF KnockdInit, Init
<1>2. PhaseInv /\ JobInv
  BY <1>1 DEF PhaseInv, JobInv, Phases, NoJob
<1>3. Len(capture) = 0 /\ capture \in Seq(Packet) /\ 0 <= CAPACITY
  BY <1>1, KnockdAssumption
<1>4. QueueInv
  BY <1>1, <1>3 DEF QueueInv
<1>5. HistoryInv /\ EntryInv
  BY <1>1 DEF HistoryInv, EntryInv, EmptyMap
<1> QED BY <1>2, <1>4, <1>5 DEF DaemonInv

(***************************************************************************)
(* The invariant of the daemon: in every reachable state the packets, the  *)
(* job and the entries are accounted for.                                  *)
(***************************************************************************)
THEOREM DaemonInvariance == KnockdSpec => []DaemonInv
<1>1. KnockdInit => DaemonInv
  BY DaemonStarts
<1>2. DaemonInv /\ [KnockdNext]_knockdVars => DaemonInv'
  BY DaemonStep
<1> QED BY <1>1, <1>2, PTL DEF KnockdSpec

-----------------------------------------------------------------------------
(***************************************************************************)
(* The wait in the buffer: the i-th packet has waited for at most the read *)
(* timeout or the job it was captured in, whichever is longer, and for one *)
(* job for each of the CAPACITY - i packets that can have gone before it.  *)
(***************************************************************************)
THEOREM WaitIsBounded == KnockdSpec => []QueueLag
<1>1. DaemonInv => QueueLag
  <2> SUFFICES ASSUME DaemonInv, NEW i \in 1..Len(capture)
               PROVE  clock - capture[i].captured_at <= Longest + (CAPACITY - i) * SLOW
    BY DEF QueueLag
  <2>1. capture[i] \in Packet /\ Waited(i) /\ i \in Int
    BY DEF DaemonInv, QueueInv
  <2>2. capture[i].captured_at \in Nat
    BY <2>1 DEF Packet
  <2>3. /\ Room(i) \in Int /\ Room(i - 1) = Room(i) + SLOW
        /\ Longest + (CAPACITY - i) * SLOW = Room(i - 1)
    BY <2>1, RoomSteps
  <2>4. clock - capture[i].captured_at <= Room(i - 1)
    <3>1. CASE phase = "acting"
      <4>1. /\ started - capture[i].captured_at <= Room(i)
            /\ started \in Nat /\ clock \in Nat /\ clock <= started + SLOW
        BY <2>1, <3>1 DEF DaemonInv, PhaseInv, JobInv, Waited
      <4> QED BY <2>2, <2>3, <4>1, KnockdAssumption
    <3>2. CASE phase # "acting"
      BY <2>1, <3>2 DEF Waited
    <3> QED BY <3>1, <3>2
  <2> QED BY <2>3, <2>4
<1> QED BY <1>1, DaemonInvariance, PTL

(***************************************************************************)
(* No address is in a timed set but for a knock on that channel, verified  *)
(* at most one job before, whatever crashed or stopped since.              *)
(***************************************************************************)
THEOREM OnlyVerifiedIsOpen == KnockdSpec => []OpenedWasVerified
<1>1. DaemonInv => OpenedWasVerified
  <2> SUFFICES ASSUME DaemonInv, NEW x \in DOMAIN elements
               PROVE  /\ IsOpen(x[2])
                      /\ \E k \in DOMAIN honoured :
                            /\ k[1] = x[1] /\ k[3] = x[2]
                            /\ \E i \in 1..Len(honoured[k]) :
                                  LET opened == elements[x] - open_duration
                                  IN  honoured[k][i] <= opened
                                      /\ opened <= honoured[k][i] + SLOW
    BY DEF OpenedWasVerified
  <2>1. IsOpen(x[2])
    BY DEF DaemonInv, EntryInv
  <2>2. PICK t \in Nat, opened \in Nat :
           /\ elements[x] = opened + open_duration
           /\ t <= opened /\ opened <= t + SLOW
           /\ WasVerified(x[1], x[2], t)
    BY DEF DaemonInv, EntryInv
  <2>3. elements[x] - open_duration = opened
    BY <2>2, KnockdAssumption
  <2>4. PICK k \in DOMAIN honoured :
           /\ k[1] = x[1] /\ k[3] = x[2]
           /\ \E i \in 1..Len(honoured[k]) : honoured[k][i] = t
    BY <2>2 DEF WasVerified
  <2> QED BY <2>1, <2>2, <2>3, <2>4
<1> QED BY <1>1, DaemonInvariance, PTL

-----------------------------------------------------------------------------
(***************************************************************************)
(* The daemon implements TimedGate: every step of it is one of the gate's, *)
(* or leaves the gate alone.                                               *)
(***************************************************************************)
LEMMA GateInit == KnockdInit => Doors!Init
BY DEF KnockdInit, Init, Doors!Init, EmptyMap, Doors!EmptyMap, OpenJobs

LEMMA GateQuiet ==
    ASSUME UNCHANGED <<honoured, elements, clock>>,
           OpenJobs' = {} \/ OpenJobs' = OpenJobs
    PROVE  [Doors!Next]_(Doors!vars)
BY DEF Doors!Next, Doors!GiveUp, Doors!vars

LEMMA GateVerify ==
    ASSUME phase = "listening", HistoryInv,
           NEW s \in Sources, NEW w, NEW c \in Channels, Dispatch(s, c),
           honoured' = Put(honoured, <<s, w, c>>, Append(VerifiedAt(<<s, w, c>>), clock)),
           UNCHANGED <<elements, clock>>
    PROVE  Doors!Next
<1> DEFINE code == <<s, w, c>>
<1>1. code[1] = s /\ code[3] = c
  OBVIOUS
<1>2. OpenJobs = {}
  BY DEF OpenJobs
<1>3. c \in {x \in Channels : IsOpen(x)} <=> IsOpen(c)
  OBVIOUS
<1>4. OpenJobs' = IF IsOpen(c) THEN {<<s, c>>} ELSE {}
  <2>1. CASE IsOpen(c) \/ IsCommand(c)
    <3>1. phase' = "acting" /\ job' = <<s, c>> /\ job'[2] = c
      BY <2>1 DEF Dispatch
    <3>2. IsOpen(job[2])' = IsOpen(c)
      BY <3>1 DEF IsOpen, HasAction, parse_channel_actions
    <3> QED BY <3>1, <3>2 DEF OpenJobs
  <2>2. CASE ~(IsOpen(c) \/ IsCommand(c))
    <3>1. phase' = "listening"
      BY <2>2 DEF Dispatch
    <3> QED BY <2>2, <3>1 DEF OpenJobs
  <2> QED BY <2>1, <2>2
<1>5. honoured' = Doors!Put(honoured, code, Append(Doors!TimesOf(code), clock))
  BY DEF Put, Doors!Put, Doors!TimesOf, VerifiedAt
<1>6. code \in DOMAIN honoured'
  BY DEF Put
<1>7. Doors!Verify(code)
  <2> HIDE DEF code
  <2> QED BY <1>1, <1>2, <1>3, <1>4, <1>5 DEF Doors!Verify
<1> QED BY <1>6, <1>7 DEF Doors!Next

LEMMA GateStep == DaemonInv /\ [KnockdNext]_knockdVars => [Doors!Next]_(Doors!vars)
<1> SUFFICES ASSUME DaemonInv, [KnockdNext]_knockdVars
             PROVE  [Doors!Next]_(Doors!vars)
  OBVIOUS
<1>1. CASE BuildRuleset
  <2>1. /\ phase = "starting" /\ phase' = "arming" /\ elements' = EmptyMap
        /\ UNCHANGED <<honoured, clock>>
    BY <1>1 DEF BuildRuleset, vars
  <2>2. OpenJobs = {} /\ OpenJobs' = {}
    BY <2>1 DEF OpenJobs
  <2> QED BY <2>1, <2>2 DEF Doors!Next, Doors!LoseEntries, Doors!EmptyMap, EmptyMap
<1>2. CASE OpenCapture \/ Restart \/ Start
  <2>1. phase' \in {"starting", "listening"} /\ UNCHANGED <<honoured, elements, clock>>
    BY <1>2 DEF OpenCapture, Restart, Start, vars
  <2>2. OpenJobs' = {}
    BY <2>1 DEF OpenJobs
  <2> QED BY <2>1, <2>2, GateQuiet
<1>3. ASSUME NEW how \in {"failed", "exited", "stopped"}, End(how)
      PROVE  [Doors!Next]_(Doors!vars)
  <2>1. phase' # "acting" /\ UNCHANGED <<honoured, elements, clock>>
    BY <1>3 DEF End, Forget
  <2>2. OpenJobs' = {}
    BY <2>1 DEF OpenJobs
  <2> QED BY <2>1, <2>2, GateQuiet
<1>4. CASE StartFails \/ Unwind \/ LeaveLoop \/ CaptureFails \/ Crash
  BY <1>3, <1>4 DEF StartFails, Unwind, LeaveLoop, CaptureFails, Crash
<1>5. ASSUME UNCHANGED <<phase, job, honoured, elements, clock>>
      PROVE  [Doors!Next]_(Doors!vars)
  <2>1. OpenJobs' = OpenJobs
    BY <1>5 DEF OpenJobs, IsOpen, HasAction, parse_channel_actions
  <2> QED BY <1>5, <2>1, GateQuiet
<1>6. ASSUME NEW s \in Sources, NEW p \in KnockPorts, Receive(s, p)
      PROVE  [Doors!Next]_(Doors!vars)
  BY <1>5, <1>6 DEF Receive, vars
<1>7. CASE HandlePacket
  <2>1. /\ phase = "listening" /\ Handled /\ UNCHANGED <<elements, clock>>
    BY <1>7, HandleCases DEF DaemonInv
  <2>2. CASE UNCHANGED <<aborted, phase, job, started, honoured>>
    BY <1>5, <2>1, <2>2
  <2>3. CASE aborted' = TRUE /\ phase' = "unwinding" /\ UNCHANGED <<job, started, honoured>>
    <3>1. OpenJobs' = {}
      BY <2>3 DEF OpenJobs
    <3> QED BY <2>1, <2>3, <3>1, GateQuiet
  <2> QED BY <2>1, <2>2, <2>3, GateVerify DEF Handled, DaemonInv
<1>8. CASE OpenFails \/ CommandEnds
  <2>1. phase' = "listening" /\ UNCHANGED <<honoured, elements, clock>>
    BY <1>8 DEF OpenFails, CommandEnds, ActionEnds, vars
  <2>2. OpenJobs' = {}
    BY <2>1 DEF OpenJobs
  <2> QED BY <2>1, <2>2, GateQuiet
<1>9. CASE OpenEnds
  <2>1. /\ phase = "acting" /\ phase' = "listening" /\ IsOpen(job[2])
        /\ elements' = Put(elements, job, clock + open_duration)
        /\ UNCHANGED <<honoured, clock>>
    BY <1>9 DEF OpenEnds, ActionEnds, vars
  <2>2. OpenJobs' = {} /\ job \in OpenJobs
    BY <2>1 DEF OpenJobs
  <2>3. Doors!Open
    BY <2>1, <2>2 DEF Doors!Open, Doors!Put, Put
  <2> QED BY <2>3 DEF Doors!Next
<1>10. CASE Terminate
  <2>1. End("stopped") \/ UNCHANGED <<phase, job, honoured, elements, clock>>
    BY <1>10 DEF Terminate, vars
  <2> QED BY <1>3, <1>5, <2>1
<1>11. CASE PassTime
  <2>1. OpenJobs' = OpenJobs
    BY <1>11 DEF PassTime, daemonVars, OpenJobs, IsOpen, HasAction, parse_channel_actions
  <2>2. Doors!Pass
    BY <1>11, <2>1 DEF PassTime, Tick, Doors!Pass
  <2> QED BY <2>2 DEF Doors!Next
<1>12. CASE UNCHANGED knockdVars
  BY <1>5, <1>12 DEF knockdVars, daemonVars, vars
<1> QED BY <1>1, <1>2, <1>4, <1>6, <1>7, <1>8, <1>9, <1>10, <1>11, <1>12 DEF KnockdNext

(***************************************************************************)
(* The refinement: through every failure, stop and restart, and with any   *)
(* packets in the buffer, only a fresh verification opens anything, once.  *)
(***************************************************************************)
THEOREM DaemonIsTimedGate == KnockdSpec => OpensVerified
<1>1. KnockdInit => Doors!Init
  BY GateInit
<1>2. DaemonInv /\ [KnockdNext]_knockdVars => [Doors!Next]_(Doors!vars)
  BY GateStep
<1> QED BY <1>1, <1>2, DaemonInvariance, PTL DEF KnockdSpec, OpensVerified, Doors!Spec

-----------------------------------------------------------------------------
(***************************************************************************)
(* When LAG is the longest wait, Session's tracker is the daemon's.        *)
(***************************************************************************)
LagCovers == LongestWait <= LAG

LEMMA WaitIsNatural == LongestWait \in Nat
<1>1. Longest \in Nat /\ SLOW \in Nat /\ CAPACITY - 1 \in Nat
  BY KnockdAssumption DEF Longest
<1> QED BY <1>1 DEF LongestWait

\* A packet was captured before now.
CaptureInv == \A i \in 1..Len(capture) : capture[i].captured_at <= clock

LEMMA CaptureStep == DaemonInv /\ CaptureInv /\ [KnockdNext]_knockdVars => CaptureInv'
<1> SUFFICES ASSUME DaemonInv, CaptureInv, [KnockdNext]_knockdVars
             PROVE  CaptureInv'
  OBVIOUS
<1>1. clock \in Nat /\ capture \in Seq(Packet)
  BY DEF DaemonInv, PhaseInv, QueueInv
<1>2. \A i \in 1..Len(capture) : capture[i].captured_at \in Nat
  <2>1. \A i \in 1..Len(capture) : capture[i] \in Packet
    BY <1>1
  <2> QED BY <2>1 DEF Packet
<1>3. CASE capture' = <<>>
  <2>1. \A i \in 1..Len(capture') : FALSE
    BY <1>3
  <2> QED BY <2>1 DEF CaptureInv
<1>4. CASE capture' = capture /\ clock' = clock
  BY <1>4 DEF CaptureInv
<1>5. ASSUME NEW s \in Sources, NEW p \in KnockPorts, Receive(s, p)
      PROVE  CaptureInv'
  <2> DEFINE packet == [src |-> s, port |-> p, captured_at |-> clock]
  <2>1. packet \in Packet /\ packet.captured_at = clock
    BY <1>1 DEF Packet
  <2>2. clock' = clock /\ capture' = Append(capture, packet)
    BY <1>5 DEF Receive, vars
  <2>3. \A i \in 1..Len(capture') :
           \/ i \in 1..Len(capture) /\ capture'[i] = capture[i]
           \/ capture'[i] = packet
    <3> HIDE DEF packet
    <3> QED BY <1>1, <2>1, <2>2
  <2> HIDE DEF packet
  <2>4. clock <= clock
    BY <1>1
  <2> QED BY <2>1, <2>2, <2>3, <2>4 DEF CaptureInv
<1>6. CASE HandlePacket
  <2>1. capture # <<>> /\ capture' = Tail(capture) /\ clock' = clock
    BY <1>6, HandleCases DEF DaemonInv
  <2>2. \A i \in 1..Len(capture') :
           i + 1 \in 1..Len(capture) /\ capture'[i] = capture[i + 1]
    BY <1>1, <2>1
  <2> QED BY <2>1, <2>2 DEF CaptureInv
<1>7. CASE PassTime
  <2>1. capture' = capture /\ clock' = clock + 1
    BY <1>7 DEF PassTime, Tick, daemonVars
  <2> QED BY <1>1, <1>2, <2>1 DEF CaptureInv
<1>8. CASE \/ BuildRuleset \/ OpenCapture \/ StartFails \/ Unwind
           \/ OpenEnds \/ OpenFails \/ CommandEnds
           \/ Terminate \/ LeaveLoop \/ CaptureFails \/ Crash \/ Restart \/ Start
  BY <1>3, <1>4, <1>8 DEF BuildRuleset, OpenCapture, StartFails, Unwind, OpenEnds,
     OpenFails, CommandEnds, ActionEnds, Terminate, LeaveLoop, CaptureFails, Crash,
     Restart, Start, End, vars
<1>9. CASE UNCHANGED knockdVars
  BY <1>4, <1>9 DEF knockdVars, daemonVars, vars
<1> QED BY <1>5, <1>6, <1>7, <1>8, <1>9 DEF KnockdNext

LEMMA CaptureStarts == KnockdInit => CaptureInv
<1> SUFFICES ASSUME KnockdInit
             PROVE  CaptureInv
  OBVIOUS
<1>1. \A i \in 1..Len(capture) : FALSE
  BY DEF KnockdInit
<1> QED BY <1>1 DEF CaptureInv

LEMMA TrackerStep ==
    LagCovers /\ DaemonInv /\ CaptureInv /\ [KnockdNext]_knockdVars
        => [Next \/ Forget]_vars
<1> SUFFICES ASSUME LagCovers, DaemonInv, CaptureInv, [KnockdNext]_knockdVars
             PROVE  [Next \/ Forget]_vars
  OBVIOUS
<1>1. CASE HandlePacket
  <2> DEFINE packet == Head(capture)
  <2>1. /\ phase = "listening" /\ capture # <<>> /\ packet \in Packet
        /\ on_packet(packet.src, packet.port, packet.captured_at)
    BY <1>1, HandleCases DEF DaemonInv
  <2>2. 1 \in 1..Len(capture) /\ capture[1] = packet /\ capture \in Seq(Packet)
    BY <2>1 DEF DaemonInv, QueueInv
  <2>3. clock - packet.captured_at <= Room(1 - 1) /\ packet.captured_at <= clock
    BY <2>1, <2>2 DEF DaemonInv, QueueInv, Waited, CaptureInv
  <2>4. Room(0) <= LongestWait /\ Room(0) \in Int /\ LongestWait \in Int
    BY RoomSteps, WaitIsNatural
  <2>5. packet.src \in Sources /\ packet.port \in KnockPorts /\ packet.captured_at \in Nat
    BY <2>1 DEF Packet
  <2> HIDE DEF packet
  <2>6. 1 - 1 = 0 /\ clock \in Nat /\ LAG \in Nat /\ LEAD \in Nat
    BY SessionAssumption DEF DaemonInv, PhaseInv
  <2>7. clock - packet.captured_at <= LAG
    BY <2>3, <2>4, <2>5, <2>6 DEF LagCovers
  <2>8. packet.captured_at \in (clock - LAG)..(clock + LEAD)
    BY <2>3, <2>5, <2>6, <2>7
  <2> QED BY <2>1, <2>5, <2>8 DEF Next, packet
<1>2. ASSUME NEW how, End(how)
      PROVE  [Next \/ Forget]_vars
  BY <1>2 DEF End
<1>3. CASE StartFails \/ Unwind \/ LeaveLoop \/ CaptureFails \/ Crash
  BY <1>2, <1>3 DEF StartFails, Unwind, LeaveLoop, CaptureFails, Crash
<1>4. CASE Terminate
  BY <1>2, <1>4 DEF Terminate
<1>5. CASE PassTime
  BY <1>5 DEF PassTime, Next
<1>6. CASE \/ BuildRuleset \/ OpenCapture \/ Restart \/ Start
           \/ OpenEnds \/ OpenFails \/ CommandEnds
           \/ \E s \in Sources, p \in KnockPorts : Receive(s, p)
  BY <1>6 DEF BuildRuleset, OpenCapture, Restart, Start, OpenEnds, OpenFails,
     CommandEnds, ActionEnds, Receive
<1>7. CASE UNCHANGED knockdVars
  BY <1>7 DEF knockdVars
<1> QED BY <1>1, <1>3, <1>4, <1>5, <1>6, <1>7 DEF KnockdNext

(***************************************************************************)
(* When LAG covers the longest wait, the daemon takes the tracker through  *)
(* no step but Session's own and the end of the process: the read timeout, *)
(* the buffer and the jobs explain every lag that Session assumes.         *)
(***************************************************************************)
THEOREM TrackerOfSession == LagCovers => (KnockdSpec => SessionSteps)
<1>1. KnockdInit => CaptureInv
  BY CaptureStarts
<1>2. DaemonInv /\ CaptureInv /\ [KnockdNext]_knockdVars => CaptureInv'
  BY CaptureStep
<1>3. LagCovers /\ DaemonInv /\ CaptureInv /\ [KnockdNext]_knockdVars
          => [Next \/ Forget]_vars
  BY TrackerStep
<1>4. ASSUME LagCovers
      PROVE  DaemonInv /\ CaptureInv /\ [KnockdNext]_knockdVars => [Next \/ Forget]_vars
  BY <1>3, <1>4
<1>5. ASSUME LagCovers
      PROVE  KnockdSpec => SessionSteps
  BY <1>1, <1>2, <1>4, <1>5, DaemonInvariance, PTL DEF KnockdSpec, SessionSteps
<1> QED BY <1>5

\* A process that starts has an empty tracker, which satisfies everything.
LEMMA ForgetKeepsInvariant ==
    ASSUME IInv, Forget
    PROVE  IInv'
<1>1. /\ candidates' = EmptyMap /\ replay_cache' = EmptyMap /\ accepted' = EmptyMap
      /\ aborted' = FALSE /\ clock' = clock /\ clock \in Nat
  BY DEF Forget, IInv, TypeOK
<1>2. DOMAIN candidates' = {} /\ DOMAIN replay_cache' = {} /\ DOMAIN accepted' = {}
  BY <1>1 DEF EmptyMap
<1> QED BY <1>1, <1>2 DEF IInv, TypeOK, CandidateInv, CacheInv, AcceptanceHorizon,
                          ReuseOnlyAfterTTL

(***************************************************************************)
(* Session's invariant, on which its theorems rest, holds of the tracker   *)
(* inside the daemon, over any number of processes.                        *)
(***************************************************************************)
THEOREM TrackerInvariance == LagCovers => (KnockdSpec => []IInv)
<1> SUFFICES ASSUME LagCovers
             PROVE  KnockdSpec => []IInv
  OBVIOUS
<1>1. KnockdInit => IInv
  BY InitEstablishesInvariant DEF KnockdInit
<1>2. IInv /\ [Next \/ Forget]_vars => IInv'
  BY NextKeepsInvariant, ForgetKeepsInvariant
<1>3. KnockdSpec => SessionSteps
  BY TrackerOfSession
<1>4. KnockdSpec => KnockdInit
  BY DEF KnockdSpec
<1> QED BY <1>1, <1>2, <1>3, <1>4, PTL DEF SessionSteps

(***************************************************************************)
(* The state of the daemon keeps its types and its phases' bookkeeping: a  *)
(* job only while one runs, packets and a stop request only while there is *)
(* a capture, a broken tracker only on the way out.                        *)
(***************************************************************************)
THEOREM DaemonTypes == LagCovers => (KnockdSpec => []KnockdTypeOK)
<1> SUFFICES ASSUME LagCovers
             PROVE  KnockdSpec => []KnockdTypeOK
  OBVIOUS
<1>1. IInv /\ DaemonInv => KnockdTypeOK
  BY DEF IInv, DaemonInv, PhaseInv, QueueInv, EntryInv, Packet, KnockdTypeOK
<1> QED BY <1>1, TrackerInvariance, DaemonInvariance, PTL

(***************************************************************************)
(* In one process no code is accepted twice within replay_ttl, with the    *)
(* delays that the daemon itself causes.                                   *)
(***************************************************************************)
THEOREM ReuseIsLateInDaemon == LagCovers => (KnockdSpec => []ReuseOnlyAfterTTL)
<1> SUFFICES ASSUME LagCovers
             PROVE  KnockdSpec => []ReuseOnlyAfterTTL
  OBVIOUS
<1>1. IInv => ReuseOnlyAfterTTL
  BY DEF IInv
<1> QED BY <1>1, TrackerInvariance, PTL

(***************************************************************************)
(* Nor is it accepted twice at all, when the cache outlives the codes: the *)
(* delays that the daemon itself causes are part of LAG.                   *)
(***************************************************************************)
THEOREM SpentOnceInDaemon == LagCovers /\ CacheOutlivesCode => (KnockdSpec => []SingleUse)
<1> SUFFICES ASSUME LagCovers, CacheOutlivesCode
             PROVE  KnockdSpec => []SingleUse
  OBVIOUS
<1>1. IInv => SingleUse
  BY InvariantImpliesSingleUse
<1> QED BY <1>1, TrackerInvariance, PTL

(***************************************************************************)
(* Whatever waits, fails or restarts, a knock in progress is one that can  *)
(* still be completed.                                                     *)
(***************************************************************************)
THEOREM PrefixesInDaemon == LagCovers => (KnockdSpec => []CandidateIsPrefix)
<1> SUFFICES ASSUME LagCovers
             PROVE  KnockdSpec => []CandidateIsPrefix
  OBVIOUS
<1>1. KnockdInit => CandidateIsPrefix
  BY DEF KnockdInit, Init, EmptyMap, CandidateIsPrefix
<1>2. IInv /\ CandidateIsPrefix /\ [Next \/ Forget]_vars => CandidateIsPrefix'
  <2>1. Forget => CandidateIsPrefix'
    BY DEF Forget, EmptyMap, CandidateIsPrefix
  <2>2. IInv /\ CandidateIsPrefix /\ [Next]_vars => CandidateIsPrefix'
    BY PrefixStep
  <2> QED BY <2>1, <2>2
<1>3. KnockdSpec => SessionSteps
  BY TrackerOfSession
<1>4. KnockdSpec => KnockdInit
  BY DEF KnockdSpec
<1> QED BY <1>1, <1>2, <1>3, <1>4, TrackerInvariance, PTL DEF SessionSteps

LEMMA HorizonStep ==
    IInv /\ DaemonInv /\ HonouredInHorizon /\ [KnockdNext]_knockdVars
        => HonouredInHorizon'
<1> SUFFICES ASSUME IInv, DaemonInv, HonouredInHorizon, [KnockdNext]_knockdVars
             PROVE  HonouredInHorizon'
  OBVIOUS
<1>1. CASE honoured' = honoured
  BY <1>1 DEF HonouredInHorizon, Earliest, Latest
<1>2. ASSUME NEW s \in Sources, NEW p \in KnockPorts, NEW w, NEW c, AcceptMatch(s, p, w, c),
             honoured' = Put(honoured, <<s, w, c>>,
                             Append(VerifiedAt(<<s, w, c>>), clock))
      PROVE  HonouredInHorizon'
  <2> DEFINE code == <<s, w, c>>
             old == VerifiedAt(code)
  <2>1. /\ code[2] = w /\ clock \in Nat
        /\ Earliest(w) <= clock /\ clock <= Latest(w)
    BY <1>2, TypeOKParts, CompletionHorizon DEF IInv, AcceptMatch
  <2>2. old \in Seq(Nat) /\ (code \in DOMAIN honoured => old = honoured[code])
        /\ (code \notin DOMAIN honoured => old = <<>>)
    BY DEF DaemonInv, HistoryInv, VerifiedAt
  <2>3. /\ DOMAIN honoured' = DOMAIN honoured \cup {code}
        /\ honoured'[code] = Append(old, clock)
        /\ \A k \in DOMAIN honoured : k # code => honoured'[k] = honoured[k]
    <3> HIDE DEF old, code
    <3>1. honoured' = Put(honoured, code, Append(old, clock))
      BY <1>2 DEF old, code
    <3> QED BY <3>1 DEF Put
  <2> HIDE DEF code, old
  <2>4. /\ Len(old) \in Nat /\ Len(Append(old, clock)) = Len(old) + 1
        /\ \A i \in 1..Len(old) : Append(old, clock)[i] = old[i]
        /\ Append(old, clock)[Len(old) + 1] = clock
    BY <2>1, <2>2
  <2>5. \A i \in 1..Len(old) : Earliest(w) <= old[i] /\ old[i] <= Latest(w)
    BY <2>1, <2>2 DEF HonouredInHorizon
  <2>6. ASSUME NEW i \in 1..Len(Append(old, clock))
        PROVE  /\ Earliest(w) <= Append(old, clock)[i]
               /\ Append(old, clock)[i] <= Latest(w)
    <3>1. CASE i \in 1..Len(old)
      BY <2>4, <2>5, <3>1
    <3>2. CASE i = Len(old) + 1
      BY <2>1, <2>4, <3>2
    <3> QED BY <2>4, <3>1, <3>2
  <2> QED BY <2>1, <2>3, <2>6 DEF HonouredInHorizon, Earliest, Latest
<1>3. CASE HandlePacket
  <2>1. Head(capture).src \in Sources /\ Head(capture).port \in KnockPorts
    BY <1>3, HandleCases DEF DaemonInv, Packet
  <2> QED BY <1>1, <1>2, <1>3, <2>1 DEF HandlePacket
<1>4. CASE ~HandlePacket
  <2>1. honoured' = honoured
    BY <1>4 DEF KnockdNext, BuildRuleset, OpenCapture, StartFails, Unwind, OpenEnds,
       OpenFails, CommandEnds, ActionEnds, Terminate, LeaveLoop, CaptureFails, Crash,
       Restart, Start, End, PassTime, Receive, knockdVars
  <2> QED BY <1>1, <2>1
<1> QED BY <1>3, <1>4

(***************************************************************************)
(* A code that is honoured again after a restart is so within the span of  *)
(* its own window: no number of restarts prolongs the life of a knock.     *)
(***************************************************************************)
THEOREM HonouredInTime == LagCovers => (KnockdSpec => []HonouredInHorizon)
<1> SUFFICES ASSUME LagCovers
             PROVE  KnockdSpec => []HonouredInHorizon
  OBVIOUS
<1>1. KnockdInit => HonouredInHorizon
  BY DEF KnockdInit, HonouredInHorizon, EmptyMap
<1>2. IInv /\ DaemonInv /\ HonouredInHorizon /\ [KnockdNext]_knockdVars
          => HonouredInHorizon'
  BY HorizonStep
<1> QED BY <1>1, <1>2, TrackerInvariance, DaemonInvariance, PTL DEF KnockdSpec

-----------------------------------------------------------------------------
(***************************************************************************)
(* The inactivity timeout, measured between captures.  The tracker dates a *)
(* candidate by the handling of its last packet, which is no earlier than  *)
(* the capture and at most the longest wait later.                         *)
(***************************************************************************)
Dated(s) ==
    /\ s \in DOMAIN seen /\ seen[s] \in Nat
    /\ candidates[s] \in Candidate
    /\ seen[s] <= candidates[s].last_seen_mono
    /\ candidates[s].last_seen_mono <= seen[s] + LongestWait

\* An exception leaves the candidate as it was: no packet is handled after it.
SeenInv == phase # "unwinding" => \A s \in DOMAIN candidates : Dated(s)

\* The packet that is handled next.
LEMMA HeadWaited ==
    ASSUME DaemonInv, CaptureInv, phase = "listening", capture # <<>>
    PROVE  /\ Head(capture).captured_at \in Nat /\ clock \in Nat
           /\ Head(capture).captured_at <= clock
           /\ clock <= Head(capture).captured_at + LongestWait
<1>1. PICK t : t = Head(capture).captured_at
  OBVIOUS
<1>2. capture \in Seq(Packet) /\ clock \in Nat
  BY DEF DaemonInv, PhaseInv, QueueInv
<1>3. 1 \in 1..Len(capture) /\ capture[1] = Head(capture) /\ Head(capture) \in Packet
  BY <1>2
<1>4. t \in Nat
  BY <1>1, <1>3 DEF Packet
<1>5. t <= clock /\ clock - t <= Room(1 - 1)
  BY <1>1, <1>3 DEF DaemonInv, QueueInv, Waited, CaptureInv
<1>6. 1 - 1 = 0 /\ Room(0) \in Int /\ Room(0) <= LongestWait
  BY RoomSteps
<1>7. LongestWait \in Nat
  BY WaitIsNatural
<1>8. clock <= t + LongestWait
  <2>1. PICK wait \in Nat : wait = LongestWait
    BY <1>7
  <2>2. PICK room \in Int : room = Room(0)
    BY <1>6
  <2> QED BY <1>2, <1>4, <1>5, <1>6, <2>1, <2>2
<1> QED BY <1>1, <1>2, <1>4, <1>5, <1>8

\* The source's own candidate, if it still has one, is dated by the present.
LEMMA OwnIsDated ==
    ASSUME NEW s \in Sources, NEW p \in KnockPorts, NEW captured_at \in Nat,
           on_packet(s, p, captured_at),
           ~aborted', s \in DOMAIN candidates', clock \in Nat,
           s \in DOMAIN candidates => candidates[s] \in Candidate
    PROVE  candidates'[s] \in Candidate /\ candidates'[s].last_seen_mono = clock
<1> DEFINE longer == [candidates[s] EXCEPT !.ports = Extended(s, p),
                                           !.last_seen_mono = clock]
<1>1. \/ candidates' = Put(sweep_expired, s, Fresh(p, captured_at))
      \/ Extends(s) /\ candidates' = Put(sweep_expired, s, longer)
      \/ candidates' = Drop(sweep_expired, s)
  BY DEF on_packet, StartCandidate, BreakSequence, ExtendCandidate, RejectReplay,
         AcceptMatch, DerivationThrows
<1>2. CASE candidates' = Put(sweep_expired, s, Fresh(p, captured_at))
  <2>1. candidates'[s] = Fresh(p, captured_at)
    BY <1>2 DEF Put
  <2>2. <<p>> \in Seq(KnockPorts)
    OBVIOUS
  <2> QED BY <2>1, <2>2 DEF Fresh, Candidate
<1>3. CASE Extends(s) /\ candidates' = Put(sweep_expired, s, longer)
  <2>1. candidates[s] \in Candidate
    BY <1>3 DEF Extends, sweep_expired
  <2>2. Extended(s, p) \in Seq(KnockPorts)
    <3>1. candidates[s].ports \in Seq(KnockPorts)
      BY <2>1 DEF Candidate
    <3> QED BY <3>1, AppendProperties DEF Extended
  <2>3. longer \in Candidate /\ longer.last_seen_mono = clock
    BY <2>1, <2>2 DEF Candidate
  <2>4. candidates'[s] = longer
    <3> HIDE DEF longer
    <3> QED BY <1>3 DEF Put
  <2> QED BY <2>3, <2>4
<1>4. ~(candidates' = Drop(sweep_expired, s))
  BY DEF Drop
<1> QED BY <1>1, <1>2, <1>3, <1>4

LEMMA SeenStep ==
    DaemonInv /\ CaptureInv /\ SeenInv /\ [KnockdNext]_knockdVars => SeenInv'
<1> SUFFICES ASSUME DaemonInv, CaptureInv, SeenInv, [KnockdNext]_knockdVars
             PROVE  SeenInv'
  OBVIOUS
<1>1. ASSUME UNCHANGED <<candidates, seen>>, phase' # "unwinding" => phase # "unwinding"
      PROVE  SeenInv'
  BY <1>1 DEF SeenInv, Dated
<1>2. ASSUME candidates' = EmptyMap
      PROVE  SeenInv'
  BY <1>2 DEF SeenInv, EmptyMap
<1>3. CASE HandlePacket
  <2> SUFFICES ASSUME phase' # "unwinding", NEW x \in DOMAIN candidates'
               PROVE  Dated(x)'
    BY DEF SeenInv
  <2>1. PICK s, p, captured_at : /\ s = Head(capture).src /\ p = Head(capture).port
                                 /\ captured_at = Head(capture).captured_at
    OBVIOUS
  <2>2. /\ phase = "listening" /\ capture # <<>> /\ Head(capture) \in Packet
        /\ on_packet(s, p, captured_at) /\ clock' = clock
    BY <1>3, <2>1, HandleCases DEF DaemonInv
  <2>3. /\ s \in Sources /\ p \in KnockPorts /\ captured_at \in Nat /\ clock \in Nat
        /\ captured_at <= clock /\ clock <= captured_at + LongestWait
    BY <2>1, <2>2, HeadWaited DEF Packet
  <2>4. ~aborted'
    BY <1>3, HandleStep DEF DaemonInv, PhaseInv
  <2>5. seen' = Put(seen, s, captured_at)
    BY <1>3, <2>1 DEF HandlePacket
  <2>6. CASE x = s
    <3>1. candidates'[s] \in Candidate /\ candidates'[s].last_seen_mono = clock
      <4>1. s \in DOMAIN candidates => candidates[s] \in Candidate
        BY <2>2 DEF SeenInv, Dated
      <4> QED BY <2>2, <2>3, <2>4, <2>6, <4>1, OwnIsDated
    <3>2. s \in DOMAIN seen' /\ seen'[s] = captured_at
      BY <2>5 DEF Put
    <3> QED BY <2>3, <2>6, <3>1, <3>2 DEF Dated
  <2>7. CASE x # s
    <3>1. x \in DOMAIN candidates /\ candidates'[x] = candidates[x]
      BY <2>2, <2>3, <2>7, OthersAreSwept
    <3>2. Dated(x)
      BY <2>2, <3>1 DEF SeenInv
    <3>3. x \in DOMAIN seen' /\ seen'[x] = seen[x]
      BY <2>5, <2>7, <3>2 DEF Put, Dated
    <3> QED BY <3>1, <3>2, <3>3 DEF Dated
  <2> QED BY <2>6, <2>7
<1>4. ASSUME NEW how, End(how)
      PROVE  SeenInv'
  BY <1>2, <1>4 DEF End, Forget
<1>5. CASE StartFails \/ Unwind \/ LeaveLoop \/ CaptureFails \/ Crash
  BY <1>4, <1>5 DEF StartFails, Unwind, LeaveLoop, CaptureFails, Crash
<1>6. CASE Terminate
  <2>1. CASE End("stopped")
    BY <1>4, <2>1
  <2>2. CASE UNCHANGED <<vars, phase, seen>>
    BY <1>1, <2>2 DEF vars
  <2> QED BY <1>6, <2>1, <2>2 DEF Terminate
<1>7. CASE OpenEnds \/ OpenFails \/ CommandEnds
  BY <1>1, <1>7 DEF OpenEnds, OpenFails, CommandEnds, ActionEnds, vars
<1>8. CASE \/ BuildRuleset \/ OpenCapture
           \/ \E s \in Sources, p \in KnockPorts : Receive(s, p)
  BY <1>1, <1>8 DEF BuildRuleset, OpenCapture, Receive, vars
<1>9. CASE Restart \/ Start
  BY <1>1, <1>9 DEF Restart, Start, vars
<1>10. CASE PassTime
  BY <1>1, <1>10 DEF PassTime, Tick, daemonVars
<1>11. CASE UNCHANGED knockdVars
  BY <1>1, <1>11 DEF knockdVars, daemonVars, vars
<1> QED BY <1>3, <1>5, <1>6, <1>7, <1>8, <1>9, <1>10, <1>11 DEF KnockdNext

LEMMA SeenStarts == KnockdInit => SeenInv
BY DEF KnockdInit, Init, SeenInv, EmptyMap

\* A candidate's age at the next packet, against the pause between the captures.
LEMMA PauseIsAge ==
    ASSUME NEW now \in Nat, NEW captured_at \in Nat, NEW last \in Nat,
           NEW before \in Nat, NEW wait \in Nat,
           captured_at <= now, now <= captured_at + wait,
           before <= last, last <= before + wait
    PROVE  /\ now - last <= inactivity_timeout
                  => captured_at - before <= inactivity_timeout + wait
           /\ (captured_at - before) + wait <= inactivity_timeout
                  => now - last <= inactivity_timeout
BY SessionAssumption

(***************************************************************************)
(* The inactivity timeout holds between arrivals (spec/derivation.md), up  *)
(* to the time that one of the two packets waited for the read timeout and *)
(* the jobs before it, through every queue, job, failure and restart.      *)
(***************************************************************************)
THEOREM InactivityIsBetweenArrivals == KnockdSpec => []InactivityWithinWait
<1>1. DaemonInv /\ CaptureInv /\ SeenInv => InactivityWithinWait
  <2> SUFFICES ASSUME DaemonInv, CaptureInv, SeenInv,
                      phase = "listening", capture # <<>>,
                      NEW s, s = Head(capture).src, s \in DOMAIN candidates
               PROVE  LET pause == Head(capture).captured_at - seen[s]
                          wait == LongestWait
                      IN  /\ s \in DOMAIN sweep_expired => pause <= inactivity_timeout + wait
                          /\ pause + wait <= inactivity_timeout => s \in DOMAIN sweep_expired
    BY DEF InactivityWithinWait
  <2>1. PICK captured_at : captured_at = Head(capture).captured_at
    OBVIOUS
  <2>2. PICK wait : wait = LongestWait
    OBVIOUS
  <2>3. PICK last : last = candidates[s].last_seen_mono
    OBVIOUS
  <2>4. /\ captured_at \in Nat /\ clock \in Nat /\ wait \in Nat
        /\ captured_at <= clock /\ clock <= captured_at + wait
    BY <2>1, <2>2, HeadWaited, WaitIsNatural
  <2>5. seen[s] \in Nat /\ last \in Nat /\ seen[s] <= last /\ last <= seen[s] + wait
    BY <2>2, <2>3 DEF SeenInv, Dated, Candidate
  <2>6. s \in DOMAIN sweep_expired <=> clock - last <= inactivity_timeout
    BY <2>3 DEF sweep_expired
  <2> QED BY <2>1, <2>2, <2>4, <2>5, <2>6, PauseIsAge
<1>2. KnockdInit => CaptureInv /\ SeenInv
  BY CaptureStarts, SeenStarts
<1>3. DaemonInv /\ CaptureInv /\ [KnockdNext]_knockdVars => CaptureInv'
  BY CaptureStep
<1>4. DaemonInv /\ CaptureInv /\ SeenInv /\ [KnockdNext]_knockdVars => SeenInv'
  BY SeenStep
<1> QED BY <1>1, <1>2, <1>3, <1>4, DaemonInvariance, PTL DEF KnockdSpec
=============================================================================
