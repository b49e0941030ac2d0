----------------------------- MODULE HostProofs ------------------------------
(***************************************************************************)
(* Theorems about Host, for every configuration, keyed hash, set of        *)
(* sources and bound: what is proved of Firewall holds of its ruleset, the *)
(* daemon in it is that of Knockd, a guarded port lets in nobody who has   *)
(* not knocked, and the kernel holds no entry that the daemon does not     *)
(* know of.                                                                *)
(***************************************************************************)
EXTENDS Host, FirewallProofs

Packet == [src : Sources, port : D!KnockPorts, captured_at : Nat]

\* A knock of s on channel c was verified at time t.
WasVerified(s, c, t) ==
    \E code \in DOMAIN honoured :
        /\ code[1] = s /\ code[3] = c
        /\ \E i \in 1..Len(honoured[code]) : honoured[code][i] = t

(***************************************************************************)
(* The inductive invariant that ties the kernel's sets to the daemon's     *)
(* verifications: the job that runs was started by one, at most SLOW ago,  *)
(* and so was every entry when it was last opened.                         *)
(***************************************************************************)
HistoryInv ==
    /\ capture \in Seq(Packet)
    /\ \A code \in DOMAIN honoured : honoured[code] \in Seq(Nat)

JobInv ==
    phase = "acting" =>
        /\ job[1] \in Sources
        /\ started \in Nat /\ clock <= started + SLOW
        /\ WasVerified(job[1], job[2], started)

KnockInv ==
    \A x \in DOMAIN knocked :
        \E t \in Nat : WasVerified(x[2], x[1], t) /\ knocked[x] <= t + SLOW

LinkInv == HistoryInv /\ JobInv /\ KnockInv

-----------------------------------------------------------------------------
(***************************************************************************)
(* What the steps of the daemon change, of what matters here.              *)
(***************************************************************************)
\* No new job, no new verification.
Quiet ==
    /\ capture' = capture \/ capture' = <<>>
          \/ \E packet \in Packet : capture' = Append(capture, packet)
    /\ honoured' = honoured /\ clock' = clock
    /\ phase' = "acting" => phase = "acting" /\ UNCHANGED <<job, started>>

LEMMA EndsAreQuiet ==
    ASSUME ProcessEnds
    PROVE  Quiet /\ phase' # "acting"
<1>1. ASSUME NEW how \in {"failed", "exited", "stopped"}, D!End(how)
      PROVE  Quiet /\ phase' # "acting"
  BY <1>1 DEF D!End, D!Forget, Quiet
<1>2. D!StartFails \/ D!Unwind \/ D!LeaveLoop \/ D!CaptureFails \/ D!Crash
        => \E how \in {"failed", "exited", "stopped"} : D!End(how)
  BY DEF D!StartFails, D!Unwind, D!LeaveLoop, D!CaptureFails, D!Crash
<1>3. D!Terminate /\ ~stop_requested' => D!End("stopped")
  BY DEF D!Terminate
<1> QED BY <1>1, <1>2, <1>3 DEF ProcessEnds

LEMMA HandleStep ==
    ASSUME HistoryInv, clock \in Nat, D!HandlePacket
    PROVE  /\ capture' \in Seq(Packet) /\ clock' = clock
           /\ \/ honoured' = honoured /\ phase' # "acting"
              \/ \E s \in Sources : \E w, c :
                    LET code == <<s, w, c>>
                    IN  /\ honoured' = D!Put(honoured, code,
                                             Append(D!VerifiedAt(code), clock))
                        /\ phase' = "acting" => job' = <<s, c>> /\ started' = clock
<1> DEFINE packet == Head(capture)
<1>1. packet.src \in Sources /\ capture' = Tail(capture) /\ capture' \in Seq(Packet)
  <2>1. capture # <<>> /\ capture' = Tail(capture)
    BY DEF D!HandlePacket
  <2>2. packet \in Packet /\ Tail(capture) \in Seq(Packet)
    BY <2>1 DEF HistoryInv
  <2> QED BY <2>1, <2>2 DEF Packet
<1>2. phase = "listening"
  BY DEF D!HandlePacket
<1>3. CASE honoured' = honoured /\ UNCHANGED phase
  <2>1. clock' = clock
    BY <1>3 DEF D!HandlePacket, D!StartCandidate, D!BreakSequence, D!ExtendCandidate,
                D!RejectReplay, D!AcceptMatch, D!DerivationThrows
  <2> QED BY <1>1, <1>2, <1>3, <2>1
<1>4. ASSUME NEW x \in D!Tried(candidates[packet.src]),
             D!AcceptMatch(packet.src, packet.port, x[1], x[2]),
             honoured' = D!Put(honoured, <<packet.src, x[1], x[2]>>,
                               Append(D!VerifiedAt(<<packet.src, x[1], x[2]>>), clock)),
             D!Dispatch(packet.src, x[2])
      PROVE  /\ clock' = clock
             /\ \E s \in Sources : \E w, c :
                    LET code == <<s, w, c>>
                    IN  /\ honoured' = D!Put(honoured, code,
                                             Append(D!VerifiedAt(code), clock))
                        /\ phase' = "acting" => job' = <<s, c>> /\ started' = clock
  <2>1. clock' = clock
    BY <1>4 DEF D!AcceptMatch
  <2>2. phase' = "acting" => job' = <<packet.src, x[2]>> /\ started' = clock
    BY <1>2, <1>4 DEF D!Dispatch
  <2> QED BY <1>1, <1>4, <2>1, <2>2
<1>5. CASE D!DerivationThrows(packet.src) /\ phase' = "unwinding" /\ honoured' = honoured
  BY <1>1, <1>5 DEF D!DerivationThrows
<1> QED BY <1>1, <1>3, <1>4, <1>5 DEF D!HandlePacket

LEMMA DaemonIsQuiet ==
    ASSUME clock \in Nat,
           \/ D!OpenCapture \/ (\E s \in Sources, p \in D!KnockPorts : D!Receive(s, p))
           \/ D!OpenFails \/ D!CommandEnds \/ D!OpenEnds \/ D!BuildRuleset
           \/ D!Restart \/ D!Start \/ (D!Terminate /\ stop_requested')
    PROVE  Quiet
<1>1. ASSUME NEW s \in Sources, NEW p \in D!KnockPorts, D!Receive(s, p)
      PROVE  Quiet
  <2>1. [src |-> s, port |-> p, captured_at |-> clock] \in Packet
    BY DEF Packet
  <2> QED BY <1>1, <2>1 DEF D!Receive, D!vars, Quiet
<1>2. CASE D!OpenCapture \/ D!BuildRuleset \/ D!Restart \/ D!Start
  BY <1>2 DEF D!OpenCapture, D!BuildRuleset, D!Restart, D!Start, D!vars, Quiet
<1>3. CASE D!OpenFails \/ D!CommandEnds \/ D!OpenEnds
  BY <1>3 DEF D!OpenFails, D!CommandEnds, D!OpenEnds, D!ActionEnds, D!vars, Quiet
<1>4. CASE D!Terminate /\ stop_requested'
  BY <1>4 DEF D!Terminate, D!End, D!vars, Quiet
<1> QED BY <1>1, <1>2, <1>3, <1>4

-----------------------------------------------------------------------------
(***************************************************************************)
(* How such steps keep the invariant.                                      *)
(***************************************************************************)
\* The parts that look at the daemon, in a step that verifies nothing.
LEMMA QuietKeepsHistory ==
    ASSUME HistoryInv, JobInv, Quiet
    PROVE  /\ HistoryInv' /\ JobInv'
           /\ \A s, c, t : WasVerified(s, c, t) => WasVerified(s, c, t)'
<1>1. HistoryInv'
  <2>1. capture' \in Seq(Packet)
    <3>1. ASSUME NEW packet \in Packet, capture' = Append(capture, packet)
          PROVE  capture' \in Seq(Packet)
      BY <3>1 DEF HistoryInv
    <3>2. <<>> \in Seq(Packet)
      OBVIOUS
    <3> QED BY <3>1, <3>2 DEF HistoryInv, Quiet
  <2>2. \A code \in DOMAIN honoured' : honoured'[code] \in Seq(Nat)
    BY DEF HistoryInv, Quiet
  <2>3. Packet' = Packet
    BY DEF Packet, D!KnockPorts
  <2> QED BY <2>1, <2>2, <2>3 DEF HistoryInv
<1>2. ASSUME NEW s, NEW c, NEW t
      PROVE  WasVerified(s, c, t) <=> WasVerified(s, c, t)'
  BY DEF WasVerified, Quiet
<1>3. JobInv'
  <2> SUFFICES ASSUME phase' = "acting"
               PROVE  /\ job'[1] \in Sources
                      /\ started' \in Nat /\ clock' <= started' + SLOW
                      /\ WasVerified(job[1], job[2], started)'
    BY DEF JobInv
  <2>1. phase = "acting" /\ job' = job /\ started' = started /\ clock' = clock
    BY DEF Quiet
  <2>2. WasVerified(job[1], job[2], started)
    BY <2>1 DEF JobInv
  <2>3. WasVerified(job[1], job[2], started)'
    BY <2>1, <2>2 DEF WasVerified, Quiet
  <2> QED BY <2>1, <2>3 DEF JobInv
<1> QED BY <1>1, <1>2, <1>3

\* A verification adds the present to the times of one code.
LEMMA VerifyKeepsHistory ==
    ASSUME HistoryInv, JobInv, clock \in Nat, D!HandlePacket
    PROVE  /\ HistoryInv' /\ JobInv'
           /\ \A s, c, t : WasVerified(s, c, t) => WasVerified(s, c, t)'
<1>1. CASE honoured' = honoured /\ phase' # "acting"
  <2>1. HistoryInv' /\ JobInv'
    BY <1>1, HandleStep DEF HistoryInv, JobInv
  <2>2. ASSUME NEW s, NEW c, NEW t
        PROVE  WasVerified(s, c, t) => WasVerified(s, c, t)'
    BY <1>1 DEF WasVerified
  <2> QED BY <2>1, <2>2
<1>2. ASSUME NEW s0 \in Sources, NEW w0, NEW c0,
             honoured' = D!Put(honoured, <<s0, w0, c0>>,
                               Append(D!VerifiedAt(<<s0, w0, c0>>), clock)),
             phase' = "acting" => job' = <<s0, c0>> /\ started' = clock
      PROVE  /\ HistoryInv' /\ JobInv'
             /\ \A s, c, t : WasVerified(s, c, t) => WasVerified(s, c, t)'
  <2> DEFINE code == <<s0, w0, c0>>
             old == D!VerifiedAt(code)
  <2>1. /\ old \in Seq(Nat)
        /\ code \in DOMAIN honoured => old = honoured[code]
    BY DEF HistoryInv, D!VerifiedAt
  <2>2. /\ Append(old, clock) \in Seq(Nat)
        /\ Len(Append(old, clock)) = Len(old) + 1 /\ Len(old) \in Nat
        /\ \A i \in 1..Len(old) : Append(old, clock)[i] = old[i]
        /\ Append(old, clock)[Len(old) + 1] = clock
    <3> HIDE DEF old
    <3> QED BY <2>1
  <2>3. /\ DOMAIN honoured' = DOMAIN honoured \cup {code}
        /\ honoured'[code] = Append(old, clock)
        /\ \A k0 \in DOMAIN honoured : k0 # code => honoured'[k0] = honoured[k0]
    <3> HIDE DEF old, code
    <3>1. honoured' = D!Put(honoured, code, Append(old, clock))
      BY <1>2 DEF old, code
    <3> QED BY <3>1 DEF D!Put
  <2>4. code[1] = s0 /\ code[3] = c0
    OBVIOUS
  <2> HIDE DEF old, code
  <2>5. HistoryInv'
    BY <2>2, <2>3, HandleStep DEF HistoryInv
  <2>6. ASSUME NEW s, NEW c, NEW t, WasVerified(s, c, t)
        PROVE  WasVerified(s, c, t)'
    <3>1. PICK k0 \in DOMAIN honoured :
             /\ k0[1] = s /\ k0[3] = c
             /\ \E i \in 1..Len(honoured[k0]) : honoured[k0][i] = t
      BY <2>6 DEF WasVerified
    <3>2. \E i \in 1..Len(honoured'[k0]) : honoured'[k0][i] = t
      <4>1. CASE k0 = code
        BY <3>1, <4>1, <2>1, <2>2, <2>3
      <4>2. CASE k0 # code
        BY <3>1, <4>2, <2>3
      <4> QED BY <4>1, <4>2
    <3> QED BY <3>1, <3>2, <2>3 DEF WasVerified
  <2>7. WasVerified(s0, c0, clock)'
    <3>1. Len(old) + 1 \in 1..Len(honoured'[code]) /\ honoured'[code][Len(old) + 1] = clock
      BY <2>2, <2>3
    <3>2. clock' = clock
      BY HandleStep
    <3> QED BY <2>3, <2>4, <3>1, <3>2 DEF WasVerified
  <2>8. JobInv'
    <3> SUFFICES ASSUME phase' = "acting"
                 PROVE  /\ job'[1] \in Sources
                        /\ started' \in Nat /\ clock' <= started' + SLOW
                        /\ WasVerified(job[1], job[2], started)'
      BY DEF JobInv
    <3>1. job' = <<s0, c0>> /\ started' = clock /\ clock' = clock
      BY <1>2, HandleStep
    <3>2. job'[1] = s0 /\ job'[2] = c0
      BY <3>1
    <3>3. WasVerified(job[1], job[2], started)'
      BY <2>7, <3>1, <3>2 DEF WasVerified
    <3> QED BY <3>1, <3>2, <3>3, HostAssumption
  <2> QED BY <2>5, <2>6, <2>8
<1> QED BY <1>1, <1>2, HandleStep

-----------------------------------------------------------------------------
(***************************************************************************)
(* What the steps of the ruleset do to the knocks that it remembers.       *)
(***************************************************************************)
\* Only an opening adds one.
LEMMA KnocksOnlyLost ==
    ASSUME \/ ensure_base_ruleset \/ NftRejects \/ Fail \/ Restart \/ stop_service
           \/ Kill \/ Start \/ (\E s \in Sources, p \in Ports : Connect(s, p))
           \/ Tick \/ RulesetStays
    PROVE  knocked' = knocked \/ knocked' = EmptyMap
<1>1. CASE ensure_base_ruleset
  BY <1>1 DEF ensure_base_ruleset, AddTable, DeleteTable, RecreateTable, AddChain,
              AcceptHost, AddSet, AcceptMembers,
              DropOthers, AddRule, NoRuleset
<1>2. CASE NftRejects \/ Fail \/ Restart \/ stop_service \/ Kill \/ Start
  BY <1>2 DEF NftRejects, Fail, Restart, stop_service, Kill, Start, NoRuleset, rulesetVars
<1>3. CASE (\E s \in Sources, p \in Ports : Connect(s, p)) \/ Tick \/ RulesetStays
  BY <1>3 DEF Connect, Tick, RulesetStays, rulesetVars, vars
<1> QED BY <1>1, <1>2, <1>3

LEMMA LostKnocksKeepInvariant ==
    ASSUME KnockInv, knocked' = knocked \/ knocked' = EmptyMap,
           \A s, c, t : WasVerified(s, c, t) => WasVerified(s, c, t)'
    PROVE  KnockInv'
<1> SUFFICES ASSUME NEW x \in DOMAIN knocked'
             PROVE  \E t \in Nat : WasVerified(x[2], x[1], t)' /\ knocked'[x] <= t + SLOW
  BY DEF KnockInv
<1>1. x \in DOMAIN knocked /\ knocked'[x] = knocked[x]
  BY DEF EmptyMap
<1>2. PICK t \in Nat : WasVerified(x[2], x[1], t) /\ knocked[x] <= t + SLOW
  BY <1>1 DEF KnockInv
<1> QED BY <1>1, <1>2

\* The job that opens a set was started by a verification, at most SLOW ago.
LEMMA OpenKeepsInvariant ==
    ASSUME LinkInv, clock \in Nat, OpenSet
    PROVE  LinkInv'
<1>1. Quiet
  BY DaemonIsQuiet DEF OpenSet
<1>2. /\ HistoryInv' /\ JobInv'
      /\ \A s, c, t : WasVerified(s, c, t) => WasVerified(s, c, t)'
  BY <1>1, QuietKeepsHistory DEF LinkInv
<1>3. /\ started \in Nat /\ clock <= started + SLOW
      /\ WasVerified(job[1], job[2], started)
  BY DEF OpenSet, D!OpenEnds, D!ActionEnds, LinkInv, JobInv
<1>4. knocked' = Put(knocked, <<job[2], job[1]>>, clock)
  BY DEF OpenSet, open_port_for, add_to_set
<1>5. ASSUME NEW x \in DOMAIN knocked'
      PROVE  \E t \in Nat : WasVerified(x[2], x[1], t)' /\ knocked'[x] <= t + SLOW
  <2>1. CASE x = <<job[2], job[1]>>
    <3>1. x[1] = job[2] /\ x[2] = job[1] /\ knocked'[x] = clock
      BY <2>1, <1>4 DEF Put
    <3>2. PICK t \in Nat : t = started
      BY <1>3
    <3>3. WasVerified(x[2], x[1], t) /\ clock <= t + SLOW
      BY <3>1, <3>2, <1>3
    <3> QED BY <3>1, <3>3, <1>2
  <2>2. CASE x # <<job[2], job[1]>>
    <3>1. x \in DOMAIN knocked /\ knocked'[x] = knocked[x]
      BY <2>2, <1>4 DEF Put
    <3>2. PICK t \in Nat : WasVerified(x[2], x[1], t) /\ knocked[x] <= t + SLOW
      BY <3>1 DEF LinkInv, KnockInv
    <3> QED BY <3>1, <3>2, <1>2
  <2> QED BY <2>1, <2>2
<1>6. KnockInv'
  BY <1>5 DEF KnockInv
<1> QED BY <1>2, <1>6 DEF LinkInv

LEMMA TimeKeepsInvariant ==
    ASSUME LinkInv, clock \in Nat, Time
    PROVE  LinkInv'
<1>1. /\ clock' = clock + 1 /\ UNCHANGED <<phase, capture, job, started, honoured>>
      /\ phase = "acting" => clock < started + SLOW
      /\ knocked' = knocked
  BY DEF Time, D!PassTime, D!daemonVars, Tick
<1>2. ASSUME NEW s, NEW c, NEW t
      PROVE  WasVerified(s, c, t) <=> WasVerified(s, c, t)'
  BY <1>1 DEF WasVerified
<1>3. HistoryInv'
  <2>1. Packet' = Packet
    BY DEF Packet, D!KnockPorts
  <2> QED BY <1>1, <2>1 DEF LinkInv, HistoryInv
<1>4. JobInv'
  <2> SUFFICES ASSUME phase' = "acting"
               PROVE  /\ job'[1] \in Sources
                      /\ started' \in Nat /\ clock' <= started' + SLOW
                      /\ WasVerified(job[1], job[2], started)'
    BY DEF JobInv
  <2>1. WasVerified(job[1], job[2], started) /\ job[1] \in Sources /\ started \in Nat
    BY <1>1 DEF LinkInv, JobInv
  <2>2. WasVerified(job[1], job[2], started)'
    BY <1>1, <2>1 DEF WasVerified
  <2> QED BY <1>1, <2>1, <2>2, HostAssumption
<1>5. KnockInv'
  BY <1>1, <1>2, LostKnocksKeepInvariant DEF LinkInv
<1> QED BY <1>3, <1>4, <1>5 DEF LinkInv

\* A step that opens nothing, and verifies nothing or is the daemon's own.
LEMMA OtherStepKeepsInvariant ==
    ASSUME LinkInv, clock \in Nat, Quiet \/ D!HandlePacket,
           knocked' = knocked \/ knocked' = EmptyMap
    PROVE  LinkInv'
<1>1. /\ HistoryInv' /\ JobInv'
      /\ \A s, c, t : WasVerified(s, c, t) => WasVerified(s, c, t)'
  BY QuietKeepsHistory, VerifyKeepsHistory DEF LinkInv
<1>2. KnockInv'
  BY <1>1, LostKnocksKeepInvariant DEF LinkInv
<1> QED BY <1>1, <1>2 DEF LinkInv

LEMMA DaemonStaysIsQuiet ==
    ASSUME DaemonStays, clock' = clock
    PROVE  Quiet
BY DEF DaemonStays, ownVars, Quiet

-----------------------------------------------------------------------------
(***************************************************************************)
(* The parts of a step of the host.                                        *)
(***************************************************************************)
\* The ruleset takes a step of Firewall, or none.
LEMMA RulesetSteps ==
    ASSUME LinkInv, [HostNext]_hostVars
    PROVE  [Next]_vars
<1>1. CASE Script
  BY <1>1 DEF Script, Next
<1>2. CASE EndOfProcess
  BY <1>2 DEF EndOfProcess, RulesetStays, Next
<1>3. CASE RequestStop \/ Daemon
  BY <1>3 DEF RequestStop, Daemon, RulesetStays
<1>4. CASE OpenSet
  <2>1. job[1] \in Sources
    BY <1>4 DEF OpenSet, D!OpenEnds, D!ActionEnds, LinkInv, JobInv
  <2> QED BY <1>4, <2>1 DEF OpenSet, open_port_for, Next
<1>5. CASE StartAgain \/ Stop \/ Connection \/ Time
  BY <1>5 DEF StartAgain, Stop, Connection, Time, Next
<1>6. CASE UNCHANGED hostVars
  BY <1>6 DEF hostVars
<1> QED BY <1>1, <1>2, <1>3, <1>4, <1>5, <1>6 DEF HostNext

LEMMA RulesetKeepsClock ==
    ASSUME \/ ensure_base_ruleset \/ NftRejects \/ Fail \/ Restart \/ stop_service
           \/ Kill \/ Start \/ (\E s \in Sources, p \in Ports : Connect(s, p))
           \/ RulesetStays
    PROVE  clock' = clock
<1>1. CASE ensure_base_ruleset
  BY <1>1 DEF ensure_base_ruleset, AddTable, DeleteTable, RecreateTable, AddChain,
              AcceptHost, AddSet, AcceptMembers,
              DropOthers, AddRule
<1>2. CASE NftRejects \/ Fail \/ Restart \/ stop_service \/ Kill \/ Start
  BY <1>2 DEF NftRejects, Fail, Restart, stop_service, Kill, Start
<1>3. CASE (\E s \in Sources, p \in Ports : Connect(s, p)) \/ RulesetStays
  BY <1>3 DEF Connect, RulesetStays, vars
<1> QED BY <1>1, <1>2, <1>3

LEMMA LinkStep ==
    ASSUME LinkInv, clock \in Nat, [HostNext]_hostVars
    PROVE  LinkInv'
<1>1. CASE Script
  <2>1. Quiet
    BY <1>1, DaemonIsQuiet, DaemonStaysIsQuiet, RulesetKeepsClock DEF Script
  <2> QED BY <1>1, <2>1, KnocksOnlyLost, OtherStepKeepsInvariant DEF Script
<1>2. CASE EndOfProcess
  BY <1>2, EndsAreQuiet, KnocksOnlyLost, OtherStepKeepsInvariant DEF EndOfProcess
<1>3. CASE RequestStop \/ Daemon
  <2>1. Quiet \/ D!HandlePacket
    BY <1>3, DaemonIsQuiet DEF RequestStop, Daemon
  <2>2. knocked' = knocked
    BY <1>3 DEF RequestStop, Daemon, RulesetStays, vars, rulesetVars
  <2> QED BY <2>1, <2>2, OtherStepKeepsInvariant
<1>4. CASE OpenSet
  BY <1>4, OpenKeepsInvariant
<1>5. CASE StartAgain
  BY <1>5, DaemonIsQuiet, KnocksOnlyLost, OtherStepKeepsInvariant DEF StartAgain
<1>6. CASE Stop \/ Connection
  <2>1. Quiet
    BY <1>6, DaemonStaysIsQuiet, RulesetKeepsClock DEF Stop, Connection
  <2> QED BY <1>6, <2>1, KnocksOnlyLost, OtherStepKeepsInvariant DEF Stop, Connection
<1>7. CASE Time
  BY <1>7, TimeKeepsInvariant
<1>8. CASE UNCHANGED hostVars
  <2>1. /\ Quiet /\ knocked' = knocked
    BY <1>8 DEF hostVars, ownVars, vars, rulesetVars, Quiet
  <2> QED BY <2>1, OtherStepKeepsInvariant
<1> QED BY <1>1, <1>2, <1>3, <1>4, <1>5, <1>6, <1>7, <1>8 DEF HostNext

LEMMA LinkInit == HostInit => LinkInv
BY DEF HostInit, Init, EmptyMap, D!KnockdInit, D!EmptyMap, LinkInv, HistoryInv, JobInv,
       KnockInv

LEMMA HostInvariance == HostSpec => [](IInv /\ LinkInv)
<1>1. HostInit => IInv /\ LinkInv
  BY InitInvariant, LinkInit DEF HostInit
<1>2. IInv /\ LinkInv /\ [HostNext]_hostVars => (IInv /\ LinkInv)'
  BY RulesetSteps, NextInvariant, LinkStep DEF IInv, TypeOK
<1> QED BY <1>1, <1>2, PTL DEF HostSpec

-----------------------------------------------------------------------------
(***************************************************************************)
(* What happens to the ruleset on the host is a behaviour of Firewall: all *)
(* that is proved of Firewall holds there.                                 *)
(***************************************************************************)
THEOREM ImplementsFirewall == HostSpec => Spec
<1>1. HostInit => Init
  BY DEF HostInit
<1>2. LinkInv /\ [HostNext]_hostVars => [Next]_vars
  BY RulesetSteps
<1> QED BY <1>1, <1>2, HostInvariance, PTL DEF HostSpec, Spec

(***************************************************************************)
(* What the daemon does on the host is a behaviour of Knockd: running the  *)
(* script command by command, and deleting the table under the daemon, add *)
(* nothing that Knockd does not know.                                      *)
(***************************************************************************)
THEOREM ImplementsKnockd == HostSpec => D!KnockdSpec
<1>1. HostInit => D!KnockdInit
  BY DEF HostInit
<1>2. [HostNext]_hostVars => [D!KnockdNext]_(D!knockdVars)
  <2> SUFFICES ASSUME [HostNext]_hostVars
               PROVE  [D!KnockdNext]_(D!knockdVars)
    OBVIOUS
  <2>1. DaemonStays /\ clock' = clock => UNCHANGED D!knockdVars
    BY DEF DaemonStays, ownVars, D!knockdVars, D!vars, D!daemonVars
  <2>2. CASE Script
    BY <2>1, <2>2, RulesetKeepsClock DEF Script, D!KnockdNext
  <2>3. CASE EndOfProcess
    BY <2>3 DEF EndOfProcess, ProcessEnds, D!KnockdNext
  <2>4. CASE RequestStop \/ Daemon
    BY <2>4 DEF RequestStop, Daemon, D!KnockdNext
  <2>5. CASE OpenSet \/ StartAgain \/ Time
    BY <2>5 DEF OpenSet, StartAgain, Time, D!KnockdNext
  <2>6. CASE Stop \/ Connection
    BY <2>1, <2>6, RulesetKeepsClock DEF Stop, Connection
  <2>7. CASE UNCHANGED hostVars
    BY <2>1, <2>7 DEF hostVars, vars, DaemonStays
  <2> QED BY <2>2, <2>3, <2>4, <2>5, <2>6, <2>7 DEF HostNext
<1> QED BY <1>1, <1>2, PTL DEF HostSpec, D!KnockdSpec

(***************************************************************************)
(* The end to end promise: whatever the daemon, its commands and its       *)
(* service manager go through, a new connection to a guarded port was      *)
(* preceded by a verified knock of its own source, on a channel with that  *)
(* port, less than open_duration and one nft command ago (main.cpp's match *)
(* callback, Firewall::add_to_set).                                        *)
(***************************************************************************)
THEOREM NobodyWithoutKnock == HostSpec => []DoorNeedsKnock
<1>1. IInv /\ LinkInv => DoorNeedsKnock
  <2> SUFFICES ASSUME IInv, LinkInv, NEW s \in Sources, NEW p \in Gated,
                      Guarded(p), Accepted(NewPacket(s, p)),
                      ~(default_deny /\ p \in PortSet(always_allow_ports))
               PROVE  KnockedLately(s, p)
    BY DEF DoorNeedsKnock
  <2>1. OpenedBy(s, p)
    BY InvariantClosesGate DEF GateClosed
  <2>2. PICK g \in Groups :
           /\ p \in PortSet(PortsOf(g))
           /\ <<g, s>> \in DOMAIN knocked
           /\ clock < knocked[<<g, s>>] + open_duration
    BY <2>1 DEF OpenedBy
  <2>3. PICK t \in Nat : WasVerified(s, g, t) /\ knocked[<<g, s>>] <= t + SLOW
    BY <2>2 DEF LinkInv, KnockInv
  <2>4. clock < t + SLOW + open_duration
    <3>1. knocked[<<g, s>>] \in Nat /\ clock \in Nat /\ open_duration \in Nat /\ SLOW \in Nat
      BY <2>2, FirewallAssumption, HostAssumption DEF IInv, TypeOK
    <3> QED BY <2>2, <2>3, <3>1
  <2> QED BY <2>2, <2>3, <2>4 DEF WasVerified, KnockedLately
<1> QED BY <1>1, HostInvariance, PTL

-----------------------------------------------------------------------------
\* A job runs only in phase acting.
IdleInv ==
    /\ troubles \in Nat
    /\ phase # "acting" => job = <<>>

LEMMA IdleStep ==
    ASSUME IdleInv, [HostNext]_hostVars
    PROVE  IdleInv'
<1>1. ASSUME NEW how \in {"failed", "exited", "stopped"}, D!End(how)
      PROVE  job' = <<>>
  BY <1>1 DEF D!End, D!NoJob
<1>2. CASE ProcessEnds
  <2>1. \E how \in {"failed", "exited", "stopped"} : D!End(how)
    BY <1>2 DEF ProcessEnds, D!StartFails, D!Unwind, D!LeaveLoop, D!CaptureFails,
                D!Crash, D!Terminate
  <2>2. troubles' = troubles \/ troubles' = troubles + 1
    BY <1>2 DEF ProcessEnds, D!StartFails, D!Unwind, D!LeaveLoop, D!CaptureFails,
                D!Crash, D!Terminate, D!CountFailure
  <2> QED BY <1>1, <2>1, <2>2 DEF IdleInv
<1>3. CASE D!HandlePacket
  <2>1. job = <<>> /\ phase = "listening"
    BY <1>3 DEF IdleInv, D!HandlePacket
  <2>2. troubles' = troubles \/ troubles' = troubles + 1
    BY <1>3 DEF D!HandlePacket, D!CountFailure
  <2>3. phase' # "acting" => job' = job
    BY <1>3 DEF D!HandlePacket, D!Dispatch
  <2> QED BY <2>1, <2>2, <2>3 DEF IdleInv
<1>4. CASE D!Terminate /\ stop_requested'
  BY <1>4 DEF IdleInv, D!Terminate, D!End, D!CountFailure
<1>5. CASE D!OpenCapture \/ (\E s \in Sources, p \in D!KnockPorts : D!Receive(s, p))
             \/ D!BuildRuleset \/ D!Restart \/ D!Start \/ DaemonStays
  BY <1>5 DEF IdleInv, D!OpenCapture, D!Receive, D!BuildRuleset, D!Restart, D!Start,
              D!Capturing, DaemonStays, ownVars
<1>6. CASE D!OpenFails \/ D!CommandEnds \/ D!OpenEnds
  <2>1. job' = <<>>
    BY <1>6 DEF D!OpenFails, D!CommandEnds, D!OpenEnds, D!ActionEnds, D!NoJob
  <2>2. troubles' = troubles \/ troubles' = troubles + 1
    BY <1>6 DEF D!OpenFails, D!CommandEnds, D!OpenEnds, D!CountFailure
  <2> QED BY <2>1, <2>2 DEF IdleInv
<1>7. CASE D!PassTime
  BY <1>7 DEF IdleInv, D!PassTime, D!daemonVars
<1>8. CASE UNCHANGED hostVars
  BY <1>8 DEF IdleInv, hostVars, ownVars
<1> QED BY <1>2, <1>3, <1>4, <1>5, <1>6, <1>7, <1>8
        DEF HostNext, Script, EndOfProcess, RequestStop, Daemon, OpenSet, StartAgain,
            Stop, Connection, Time

\* Of the steps that end a job, the one that counts no failure and is not that
\* of a command has put the source into the set.
LEMMA JobEndsOpened ==
    ASSUME IdleInv, NEW s \in Sources, NEW c \in Groups, [HostNext]_hostVars,
           job = <<s, c>>, phase' = "listening", troubles' = troubles
    PROVE  OpenSet
<1>1. job # <<>> /\ phase = "acting" /\ job[2] = c
  BY DEF IdleInv
<1>2. ~D!IsCommand(job[2])
  <2>1. c = 0 \/ D!HasAction(c, "open_port")
    BY HostAssumption DEF Groups
  <2> QED BY <1>1, <2>1 DEF D!IsCommand, D!HasAction
<1>3. ~D!OpenFails /\ ~D!CommandEnds
  BY <1>2 DEF IdleInv, D!OpenFails, D!CountFailure, D!CommandEnds
<1>4. ~DaemonStays /\ ~UNCHANGED hostVars
  BY <1>1 DEF DaemonStays, ownVars, hostVars
<1>5. ~D!BuildRuleset /\ ~D!OpenCapture /\ ~D!HandlePacket /\ ~D!Restart /\ ~D!Start
  BY <1>1 DEF D!BuildRuleset, D!OpenCapture, D!HandlePacket, D!Restart, D!Start
<1>6. ~D!PassTime /\ \A x \in Sources, p \in D!KnockPorts : ~D!Receive(x, p)
  BY <1>1 DEF D!PassTime, D!daemonVars, D!Receive
<1>7. ~ProcessEnds
  <2>1. ASSUME NEW how \in {"failed", "exited", "stopped"}, D!End(how)
        PROVE  FALSE
    BY <2>1 DEF D!End
  <2> QED BY <2>1 DEF ProcessEnds, D!StartFails, D!Unwind, D!LeaveLoop, D!CaptureFails,
                      D!Crash, D!Terminate
<1>8. ~(D!Terminate /\ stop_requested')
  BY <1>1 DEF D!Terminate, D!End
<1> QED BY <1>3, <1>4, <1>5, <1>6, <1>7, <1>8
        DEF HostNext, Script, EndOfProcess, RequestStop, Daemon, OpenSet, StartAgain,
            Stop, Connection, Time

(***************************************************************************)
(* A knock takes effect: if no port is in two groups, or the policy is to  *)
(* drop, the end of a job that did not fail leaves every port of the       *)
(* channel open to its source (main.cpp's match callback, add_to_set,      *)
(* setup_port_group).                                                      *)
(***************************************************************************)
THEOREM KnocksTakeEffect ==
    default_deny \/ GroupsDisjoint => (HostSpec => KnockTakesEffect)
<1> SUFFICES ASSUME default_deny \/ GroupsDisjoint
             PROVE  HostSpec => KnockTakesEffect
  OBVIOUS
<1> DEFINE Effect ==
       \A s \in Sources, c \in Groups :
          job = <<s, c>> /\ phase' = "listening" /\ troubles' = troubles
              => Reaches(s, c)'
<1>1. HostInit => IdleInv
  BY DEF HostInit, D!KnockdInit, D!NoJob, IdleInv
<1>2. IdleInv /\ [HostNext]_hostVars => IdleInv'
  BY IdleStep
<1>3. IdleInv /\ KnockAdmits' /\ [HostNext]_hostVars => [Effect]_hostVars
  <2> SUFFICES ASSUME IdleInv, KnockAdmits', [HostNext]_hostVars,
                      NEW s \in Sources, NEW c \in Groups,
                      job = <<s, c>>, phase' = "listening", troubles' = troubles
               PROVE  Reaches(s, c)'
    OBVIOUS
  <2>1. /\ pc = "running" /\ pc' = "running"
        /\ <<c, s>> \in DOMAIN elements'
    <3>1. OpenSet /\ job[1] = s /\ job[2] = c
      BY JobEndsOpened
    <3> QED BY <3>1 DEF OpenSet, open_port_for, add_to_set, daemonVars, Put
  <2>2. \A p \in PortSet(PortsOf(c)) : Accepted(NewPacket(s, p))'
    BY <2>1 DEF KnockAdmits
  <2> QED BY <2>2 DEF Reaches, PortSet, PortsOf
<1>4. HostSpec => []KnockAdmits
  BY ImplementsFirewall, KnockOpens, PTL
<1> QED BY <1>1, <1>2, <1>3, <1>4, PTL DEF HostSpec, KnockTakesEffect

-----------------------------------------------------------------------------
(***************************************************************************)
(* The kernel's timed sets implement TimedGate.  A job is a source and a   *)
(* channel, and an entry a group and a source, the other way round.        *)
(***************************************************************************)
PairInv == phase = "acting" => job = <<job[1], job[2]>>

EntriesArePairs == \A x \in DOMAIN elements : x = <<x[1], x[2]>>

LEMMA EntriesTyped == IInv => EntriesArePairs
BY DEF IInv, TypeOK, EntriesArePairs

LEMMA PairStep ==
    ASSUME LinkInv, PairInv, clock \in Nat, [HostNext]_hostVars
    PROVE  PairInv'
<1>1. ASSUME Quiet
      PROVE  PairInv'
  BY <1>1 DEF Quiet, PairInv
<1>2. CASE Script
  BY <1>1, <1>2, DaemonIsQuiet, DaemonStaysIsQuiet, RulesetKeepsClock DEF Script
<1>3. CASE EndOfProcess
  BY <1>1, <1>3, EndsAreQuiet DEF EndOfProcess
<1>4. CASE RequestStop \/ Daemon
  <2>1. Quiet \/ D!HandlePacket
    BY <1>4, DaemonIsQuiet DEF RequestStop, Daemon
  <2>2. CASE D!HandlePacket
    <3>1. phase' = "acting" => \E s \in Sources : \E c : job' = <<s, c>>
      BY <2>2, HandleStep DEF LinkInv
    <3>2. ASSUME NEW s, NEW c, job' = <<s, c>>
          PROVE  job' = <<job'[1], job'[2]>>
      BY <3>2
    <3> QED BY <3>1, <3>2 DEF PairInv
  <2> QED BY <1>1, <2>1, <2>2
<1>5. CASE OpenSet \/ StartAgain
  BY <1>1, <1>5, DaemonIsQuiet DEF OpenSet, StartAgain
<1>6. CASE Stop \/ Connection
  BY <1>1, <1>6, DaemonStaysIsQuiet, RulesetKeepsClock DEF Stop, Connection
<1>7. CASE Time
  BY <1>7 DEF Time, D!PassTime, D!daemonVars, PairInv
<1>8. CASE UNCHANGED hostVars
  BY <1>8 DEF hostVars, ownVars, PairInv
<1> QED BY <1>2, <1>3, <1>4, <1>5, <1>6, <1>7, <1>8 DEF HostNext

LEMMA SwapEntry ==
    ASSUME EntriesArePairs
    PROVE  /\ \A a, b : <<a, b>> \in DOMAIN Swapped(elements) <=> <<b, a>> \in DOMAIN elements
           /\ \A a, b : <<b, a>> \in DOMAIN elements =>
                 Swapped(elements)[<<a, b>>] = elements[<<b, a>>]
<1>1. DOMAIN Swapped(elements) = {<<y[2], y[1]>> : y \in DOMAIN elements}
  BY DEF Swapped
<1>2. ASSUME NEW a, NEW b
      PROVE  <<a, b>> \in DOMAIN Swapped(elements) <=> <<b, a>> \in DOMAIN elements
  BY <1>1 DEF EntriesArePairs
<1>3. ASSUME NEW a, NEW b, <<b, a>> \in DOMAIN elements
      PROVE  Swapped(elements)[<<a, b>>] = elements[<<b, a>>]
  BY <1>2, <1>3 DEF Swapped
<1> QED BY <1>2, <1>3

\* An entry that is put into a set.
LEMMA SwapPut ==
    ASSUME EntriesArePairs, NEW s, NEW g, NEW v,
           elements' = Put(elements, <<g, s>>, v)
    PROVE  Swapped(elements)' = KernelDoors!Put(Swapped(elements), <<s, g>>, v)
<1> DEFINE new == KernelDoors!Put(Swapped(elements), <<s, g>>, v)
<1>1. EntriesArePairs'
  BY DEF EntriesArePairs, Put
<1>2. DOMAIN Swapped(elements)' = {<<y[2], y[1]>> : y \in DOMAIN elements'}
  BY DEF Swapped
<1>3. DOMAIN elements' = DOMAIN elements \cup {<<g, s>>}
  BY DEF Put
<1>4. DOMAIN Swapped(elements) = {<<y[2], y[1]>> : y \in DOMAIN elements}
  BY DEF Swapped
<1>5. DOMAIN new = DOMAIN Swapped(elements) \cup {<<s, g>>}
  BY DEF KernelDoors!Put
<1>6. DOMAIN Swapped(elements)' = DOMAIN new
  <2>1. <<g, s>>[2] = s /\ <<g, s>>[1] = g
    OBVIOUS
  <2>2. {<<y[2], y[1]>> : y \in DOMAIN elements \cup {<<g, s>>}}
          = {<<y[2], y[1]>> : y \in DOMAIN elements} \cup {<<s, g>>}
    BY <2>1, Zenon
  <2> QED BY <2>2, <1>2, <1>3, <1>4, <1>5
<1>7. ASSUME NEW x \in DOMAIN new
      PROVE  Swapped(elements)'[x] = new[x]
  <2>1. PICK y \in DOMAIN elements' : x = <<y[2], y[1]>>
    BY <1>2, <1>6, <1>7
  <2>2. y = <<x[2], x[1]>> /\ x = <<x[1], x[2]>>
    BY <1>1, <2>1 DEF EntriesArePairs
  <2>3. Swapped(elements)'[x] = elements'[y]
    BY <1>2, <1>6, <1>7, <2>2 DEF Swapped
  <2>4. CASE y = <<g, s>>
    <3>1. x = <<s, g>>
      BY <2>1, <2>4
    <3>2. new[x] = v
      BY <1>7, <3>1 DEF KernelDoors!Put
    <3> QED BY <2>3, <2>4, <3>2 DEF Put
  <2>5. CASE y # <<g, s>>
    <3>1. y \in DOMAIN elements /\ elements'[y] = elements[y]
      BY <2>5, <1>3 DEF Put
    <3>2. x # <<s, g>>
      BY <2>2, <2>5
    <3>3. x \in DOMAIN Swapped(elements) /\ Swapped(elements)[x] = elements[y]
      BY <1>4, <2>1, <2>2, <3>1 DEF Swapped
    <3>4. new[x] = Swapped(elements)[x]
      BY <1>7, <3>2 DEF KernelDoors!Put
    <3> QED BY <2>3, <3>1, <3>3, <3>4
  <2> QED BY <2>4, <2>5
<1> QED BY <1>6, <1>7 DEF Swapped, KernelDoors!Put

LEMMA SwapNothing ==
    ASSUME elements' = EmptyMap
    PROVE  Swapped(elements)' = KernelDoors!EmptyMap
<1>1. DOMAIN elements' = {}
  BY DEF EmptyMap
<1>2. {<<y[2], y[1]>> : y \in DOMAIN elements'} = {}
  BY <1>1
<1> QED BY <1>2 DEF Swapped, KernelDoors!EmptyMap

\* The entries that expire.
LEMMA SwapTick ==
    ASSUME EntriesArePairs, NEW t,
           elements' = [x \in {y \in DOMAIN elements : elements[y] > t} |-> elements[x]]
    PROVE  Swapped(elements)' =
               [x \in {y \in DOMAIN Swapped(elements) : Swapped(elements)[y] > t}
                   |-> Swapped(elements)[x]]
<1> DEFINE left == {y \in DOMAIN Swapped(elements) : Swapped(elements)[y] > t}
<1>1. /\ DOMAIN elements' = {y \in DOMAIN elements : elements[y] > t}
      /\ \A y \in DOMAIN elements' : elements'[y] = elements[y]
  OBVIOUS
<1>2. EntriesArePairs'
  BY <1>1 DEF EntriesArePairs
<1>3. /\ DOMAIN Swapped(elements)' = {<<y[2], y[1]>> : y \in DOMAIN elements'}
      /\ DOMAIN Swapped(elements) = {<<y[2], y[1]>> : y \in DOMAIN elements}
  BY DEF Swapped
<1>4. ASSUME NEW x \in DOMAIN Swapped(elements)'
      PROVE  /\ x \in left
             /\ Swapped(elements)'[x] = Swapped(elements)[x]
  <2>1. PICK y \in DOMAIN elements' : x = <<y[2], y[1]>>
    BY <1>3, <1>4
  <2>2. y = <<x[2], x[1]>>
    BY <1>2, <2>1 DEF EntriesArePairs
  <2>3. y \in DOMAIN elements /\ elements[y] > t /\ elements'[y] = elements[y]
    BY <1>1, <2>1
  <2>4. Swapped(elements)'[x] = elements'[y]
    BY <1>3, <1>4, <2>2 DEF Swapped
  <2>5. x \in DOMAIN Swapped(elements)
    BY <1>3, <2>1, <2>3
  <2>6. Swapped(elements)[x] = elements[y]
    BY <2>2, <2>5, <1>3 DEF Swapped
  <2> QED BY <2>3, <2>4, <2>5, <2>6
<1>5. ASSUME NEW x \in left
      PROVE  x \in DOMAIN Swapped(elements)'
  <2>1. PICK y \in DOMAIN elements : x = <<y[2], y[1]>>
    BY <1>3, <1>5
  <2>2. y = <<x[2], x[1]>>
    BY <2>1 DEF EntriesArePairs
  <2>3. Swapped(elements)[x] = elements[y]
    BY <1>3, <1>5, <2>2 DEF Swapped
  <2>4. y \in DOMAIN elements'
    BY <1>1, <1>5, <2>3
  <2> QED BY <1>3, <2>1, <2>4
<1>6. DOMAIN Swapped(elements)' = left
  BY <1>4, <1>5
<1> QED BY <1>4, <1>6 DEF Swapped

LEMMA DoorsInit == HostInit => KernelDoors!Init
<1>1. HostInit => elements = EmptyMap /\ phase = "starting" /\ honoured = EmptyMap /\ clock = 0
  BY DEF HostInit, Init, D!KnockdInit, D!EmptyMap, EmptyMap
<1>2. elements = EmptyMap => Swapped(elements) = KernelDoors!EmptyMap
  <2>1. ASSUME elements = EmptyMap
        PROVE  {<<y[2], y[1]>> : y \in DOMAIN elements} = {}
    BY <2>1 DEF EmptyMap
  <2> QED BY <2>1 DEF Swapped, KernelDoors!EmptyMap
<1>3. phase = "starting" => D!OpenJobs = {}
  BY DEF D!OpenJobs
<1> QED BY <1>1, <1>2, <1>3 DEF KernelDoors!Init, KernelDoors!EmptyMap, EmptyMap

\* The kernel's sets and the verifications stay; a job may end.
LEMMA DoorsQuiet ==
    ASSUME UNCHANGED <<honoured, elements, clock>>,
           D!OpenJobs' = {} \/ D!OpenJobs' = D!OpenJobs
    PROVE  [KernelDoors!Next]_(KernelDoors!vars)
<1>1. Swapped(elements)' = Swapped(elements)
  BY DEF Swapped
<1> QED BY <1>1 DEF KernelDoors!Next, KernelDoors!GiveUp, KernelDoors!vars

LEMMA JobStays ==
    ASSUME UNCHANGED <<phase, job>>
    PROVE  D!OpenJobs' = D!OpenJobs
BY DEF D!OpenJobs, D!IsOpen, D!HasAction, D!parse_channel_actions

LEMMA NoJobOpens ==
    ASSUME phase' # "acting"
    PROVE  D!OpenJobs' = {}
BY DEF D!OpenJobs

\* The table is deleted, by the script or by procd.
LEMMA DoorsLost ==
    ASSUME UNCHANGED <<honoured, clock>>, elements' = EmptyMap,
           D!OpenJobs' = D!OpenJobs
    PROVE  KernelDoors!Next
BY SwapNothing DEF KernelDoors!Next, KernelDoors!LoseEntries

\* A verification owes an opening, if its channel is one that opens ports.
LEMMA DoorsVerify ==
    ASSUME phase = "listening", NEW s, NEW w, NEW c \in D!Channels, D!Dispatch(s, c),
           honoured' = D!Put(honoured, <<s, w, c>>,
                             Append(D!VerifiedAt(<<s, w, c>>), clock)),
           UNCHANGED <<elements, clock>>
    PROVE  KernelDoors!Next
<1> DEFINE code == <<s, w, c>>
           opening == {x \in D!Channels : D!IsOpen(x)}
<1>1. code[1] = s /\ code[3] = c
  OBVIOUS
<1>2. D!OpenJobs = {}
  BY DEF D!OpenJobs
<1>3. c \in opening <=> D!IsOpen(c)
  OBVIOUS
<1>4. D!OpenJobs' = IF D!IsOpen(c) THEN {<<s, c>>} ELSE {}
  <2>1. CASE D!IsOpen(c) \/ D!IsCommand(c)
    <3>1. phase' = "acting" /\ job' = <<s, c>> /\ job'[2] = c
      BY <2>1 DEF D!Dispatch
    <3>2. D!IsOpen(job[2])' = D!IsOpen(c)
      BY <3>1 DEF D!IsOpen, D!HasAction, D!parse_channel_actions
    <3> QED BY <3>1, <3>2 DEF D!OpenJobs
  <2>2. CASE ~(D!IsOpen(c) \/ D!IsCommand(c))
    BY <2>2 DEF D!Dispatch, D!OpenJobs
  <2> QED BY <2>1, <2>2
<1>5. /\ honoured' = KernelDoors!Put(honoured, code,
                                     Append(KernelDoors!TimesOf(code), clock))
      /\ code \in DOMAIN honoured'
  BY DEF D!Put, KernelDoors!Put, KernelDoors!TimesOf, D!VerifiedAt
<1>6. Swapped(elements)' = Swapped(elements)
  BY DEF Swapped
<1>7. KernelDoors!Verify(code)
  <2> HIDE DEF code
  <2> QED BY <1>1, <1>2, <1>3, <1>4, <1>5, <1>6 DEF KernelDoors!Verify
<1> QED BY <1>5, <1>7 DEF KernelDoors!Next

LEMMA DoorsHandle ==
    ASSUME D!HandlePacket, UNCHANGED <<elements, clock>>
    PROVE  [KernelDoors!Next]_(KernelDoors!vars)
<1> DEFINE s == Head(capture).src
           p == Head(capture).port
<1>1. phase = "listening"
  BY DEF D!HandlePacket
<1>2. \/ UNCHANGED <<phase, job, honoured>>
      \/ \E x \in D!Tried(candidates[s]) :
            /\ honoured' = D!Put(honoured, <<s, x[1], x[2]>>,
                                 Append(D!VerifiedAt(<<s, x[1], x[2]>>), clock))
            /\ D!Dispatch(s, x[2])
      \/ phase' = "unwinding" /\ honoured' = honoured
  BY DEF D!HandlePacket
<1>3. ASSUME NEW x \in D!Tried(candidates[s]), D!Dispatch(s, x[2]),
             honoured' = D!Put(honoured, <<s, x[1], x[2]>>,
                               Append(D!VerifiedAt(<<s, x[1], x[2]>>), clock))
      PROVE  KernelDoors!Next
  <2>1. x[2] \in D!Channels
    BY DEF D!Tried
  <2> QED BY <1>1, <1>3, <2>1, DoorsVerify
<1> QED BY <1>2, <1>3, JobStays, NoJobOpens, DoorsQuiet

\* Only an opening, and time, change an entry.
LEMMA EntriesOnlyLost ==
    ASSUME \/ ensure_base_ruleset \/ NftRejects \/ Fail \/ Restart \/ stop_service
           \/ Kill \/ Start \/ (\E s \in Sources, p \in Ports : Connect(s, p))
           \/ RulesetStays
    PROVE  elements' = elements \/ elements' = EmptyMap
<1>1. CASE ensure_base_ruleset
  BY <1>1 DEF ensure_base_ruleset, AddTable, DeleteTable, RecreateTable, AddChain,
              AcceptHost, AddSet, AcceptMembers,
              DropOthers, AddRule, NoRuleset
<1>2. CASE NftRejects \/ Fail \/ Restart \/ stop_service \/ Kill \/ Start
  BY <1>2 DEF NftRejects, Fail, Restart, stop_service, Kill, Start, NoRuleset, rulesetVars
<1>3. CASE (\E s \in Sources, p \in Ports : Connect(s, p)) \/ RulesetStays
  BY <1>3 DEF Connect, RulesetStays, rulesetVars, vars
<1> QED BY <1>1, <1>2, <1>3

\* nft puts the source into the set, or finds it there.
LEMMA DoorsOpen ==
    ASSUME EntriesArePairs, PairInv, OpenSet
    PROVE  KernelDoors!Next
<1>1. /\ phase = "acting" /\ phase' = "listening" /\ D!IsOpen(job[2])
      /\ UNCHANGED honoured
  BY DEF OpenSet, D!OpenEnds, D!ActionEnds
<1>2. /\ \/ elements' = Put(elements, <<job[2], job[1]>>, clock + open_duration)
         \/ <<job[2], job[1]>> \in DOMAIN elements /\ UNCHANGED elements
      /\ UNCHANGED clock
  BY DEF OpenSet, open_port_for, add_to_set
<1> DEFINE x == <<job[1], job[2]>>
<1>3. D!OpenJobs' = {} /\ x \in D!OpenJobs
  BY <1>1 DEF D!OpenJobs, PairInv
<1>4. \/ Swapped(elements)' = KernelDoors!Put(Swapped(elements), x, clock + open_duration)
      \/ x \in DOMAIN Swapped(elements) /\ Swapped(elements)' = Swapped(elements)
  <2>1. CASE elements' = Put(elements, <<job[2], job[1]>>, clock + open_duration)
    BY <2>1, SwapPut
  <2>2. CASE <<job[2], job[1]>> \in DOMAIN elements /\ UNCHANGED elements
    <3>1. x \in DOMAIN Swapped(elements)
      BY <2>2, SwapEntry
    <3>2. Swapped(elements)' = Swapped(elements)
      BY <2>2 DEF Swapped
    <3> QED BY <3>1, <3>2
  <2> QED BY <1>2, <2>1, <2>2
<1>5. KernelDoors!Open
  <2> HIDE DEF x
  <2> QED BY <1>1, <1>2, <1>3, <1>4 DEF KernelDoors!Open
<1> QED BY <1>5 DEF KernelDoors!Next

LEMMA DoorsStep ==
    ASSUME EntriesArePairs, PairInv, [HostNext]_hostVars
    PROVE  [KernelDoors!Next]_(KernelDoors!vars)
<1>1. ASSUME honoured' = honoured, clock' = clock,
             elements' = elements \/ elements' = EmptyMap,
             phase' = phase, job' = job
      PROVE  [KernelDoors!Next]_(KernelDoors!vars)
  BY <1>1, JobStays, DoorsQuiet, DoorsLost
<1>2. ASSUME UNCHANGED <<honoured, elements, clock>>, phase' # "acting"
      PROVE  [KernelDoors!Next]_(KernelDoors!vars)
  BY <1>2, NoJobOpens, DoorsQuiet
<1>3. CASE Script
  <2>1. UNCHANGED clock /\ (elements' = elements \/ elements' = EmptyMap)
    BY <1>3, RulesetKeepsClock, EntriesOnlyLost DEF Script
  <2>2. CASE DaemonStays
    <3>1. honoured' = honoured /\ phase' = phase /\ job' = job
      BY <2>2 DEF DaemonStays, ownVars
    <3> QED BY <1>1, <2>1, <3>1
  <2>3. CASE D!BuildRuleset
    <3>1. UNCHANGED honoured /\ phase # "acting" /\ phase' # "acting"
      BY <2>3 DEF D!BuildRuleset
    <3>2. D!OpenJobs' = D!OpenJobs
      BY <3>1 DEF D!OpenJobs
    <3> QED BY <2>1, <3>1, <3>2, DoorsQuiet, DoorsLost
  <2> QED BY <1>3, <2>2, <2>3 DEF Script
<1>4. CASE EndOfProcess
  <2>1. UNCHANGED <<honoured, clock>> /\ phase' # "acting"
    BY <1>4, EndsAreQuiet DEF EndOfProcess, Quiet
  <2>2. UNCHANGED elements
    BY <1>4 DEF EndOfProcess, Kill, Fail, NftRejects, RulesetStays, rulesetVars, vars
  <2> QED BY <1>2, <2>1, <2>2
<1>5. CASE RequestStop
  <2>1. elements' = elements /\ clock' = clock
    BY <1>5 DEF RequestStop, RulesetStays, vars, rulesetVars
  <2>2. honoured' = honoured /\ phase' = phase /\ job' = job
    BY <1>5 DEF RequestStop, D!Terminate, D!End
  <2> QED BY <1>1, <2>1, <2>2
<1>6. CASE Daemon
  <2>1. UNCHANGED <<elements, clock>>
    BY <1>6 DEF Daemon, RulesetStays, vars, rulesetVars
  <2>2. CASE D!HandlePacket
    BY <2>1, <2>2, DoorsHandle
  <2>3. CASE D!OpenCapture \/ D!OpenFails \/ D!CommandEnds
    BY <1>2, <2>1, <2>3 DEF D!OpenCapture, D!OpenFails, D!CommandEnds, D!ActionEnds
  <2>4. CASE \E s \in Sources, p \in D!KnockPorts : D!Receive(s, p)
    <3>1. honoured' = honoured /\ phase' = phase /\ job' = job
      BY <2>4 DEF D!Receive
    <3> QED BY <1>1, <2>1, <3>1
  <2> QED BY <1>6, <2>2, <2>3, <2>4 DEF Daemon
<1>7. CASE OpenSet
  BY <1>7, DoorsOpen
<1>8. CASE StartAgain
  <2>1. UNCHANGED <<elements, clock>>
    BY <1>8 DEF StartAgain, Restart, Start, rulesetVars
  <2> QED BY <1>2, <1>8, <2>1 DEF StartAgain, D!Restart, D!Start
<1>9. CASE Stop \/ Connection
  <2>1. clock' = clock /\ (elements' = elements \/ elements' = EmptyMap)
    BY <1>9, RulesetKeepsClock, EntriesOnlyLost DEF Stop, Connection
  <2>2. honoured' = honoured /\ phase' = phase /\ job' = job
    BY <1>9 DEF Stop, Connection, DaemonStays, ownVars
  <2> QED BY <1>1, <2>1, <2>2
<1>10. CASE Time
  <2>1. UNCHANGED <<honoured, phase, job>>
    BY <1>10 DEF Time, D!PassTime, D!daemonVars
  <2>2. clock' = clock + 1 /\ Swapped(elements)' =
               [x \in {y \in DOMAIN Swapped(elements) : Swapped(elements)[y] > clock + 1}
                   |-> Swapped(elements)[x]]
    BY <1>10, SwapTick DEF Time, Tick
  <2>3. D!OpenJobs' = D!OpenJobs
    BY <2>1, JobStays
  <2> QED BY <2>1, <2>2, <2>3 DEF KernelDoors!Next, KernelDoors!Pass
<1>11. CASE UNCHANGED hostVars
  <2>1. /\ honoured' = honoured /\ clock' = clock /\ elements' = elements
        /\ phase' = phase /\ job' = job
    BY <1>11 DEF hostVars, ownVars, vars, rulesetVars
  <2> QED BY <1>1, <2>1
<1> QED BY <1>3, <1>4, <1>5, <1>6, <1>7, <1>8, <1>9, <1>10, <1>11 DEF HostNext

(***************************************************************************)
(* What the kernel lets in implements TimedGate as well: through every     *)
(* crash, half-built script, deletion of the table and restart, a source   *)
(* enters a set only by an opening that its own verification owes, once,   *)
(* and no entry outlives its time (add_to_set, the nft script,             *)
(* stop_service of server/openwrt/knockd.init).                            *)
(***************************************************************************)
THEOREM KernelIsTimedGate == HostSpec => KernelOpensVerified
<1>1. HostInit => PairInv /\ KernelDoors!Init
  BY DoorsInit DEF HostInit, D!KnockdInit, PairInv
<1>2. IInv /\ LinkInv /\ PairInv /\ [HostNext]_hostVars => PairInv'
  BY PairStep DEF IInv, TypeOK
<1>3. IInv /\ PairInv /\ [HostNext]_hostVars => [KernelDoors!Next]_(KernelDoors!vars)
  BY EntriesTyped, DoorsStep
<1> QED BY <1>1, <1>2, <1>3, HostInvariance, PTL
        DEF HostSpec, KernelOpensVerified, KernelDoors!Spec

-----------------------------------------------------------------------------
(***************************************************************************)
(* The kernel and the daemon agree.  Once the script has deleted the table *)
(* it finds, the new sets stay empty until it has ended; and what the      *)
(* daemon believes open expires no earlier than what the kernel has open.  *)
(***************************************************************************)
CleanInv ==
    pc \in Building \ {"add_table", "delete_table"} => elements = EmptyMap

PhasesAgree ==
    /\ phase \in {"arming", "listening", "acting", "unwinding"} => pc = "running"
    /\ phase = "starting" => pc \in Building
    /\ phase \in {"failed", "exited"} => pc = "down"
    /\ phase = "stopped" => pc \in {"down", "stopped"}

BeliefInv ==
    \A x \in DOMAIN elements :
        LET y == <<x[2], x[1]>>
        IN  y \in DOMAIN believed /\ believed[y] \in Nat /\ elements[x] <= believed[y]

AgreeInv == CleanInv /\ PhasesAgree /\ BeliefInv

LEMMA ScriptIsClean ==
    ASSUME ensure_base_ruleset, CleanInv
    PROVE  /\ pc \in Building /\ pc' \in Building \cup {"running"}
           /\ pc' \notin {"add_table", "delete_table"} => elements' = EmptyMap
<1>1. CASE AddTable \/ DeleteTable
  BY <1>1 DEF AddTable, DeleteTable, Goto, NoRuleset, Building
<1>2. CASE \/ RecreateTable \/ AddChain \/ AcceptHost \/ AddSet \/ AcceptMembers
           \/ DropOthers
  <2>1. /\ pc \in Building \ {"add_table", "delete_table"}
        /\ pc' \in Building \cup {"running"}
    BY <1>2 DEF RecreateTable, AddChain, AcceptHost, AddSet, AcceptMembers, DropOthers,
                NextPort, Goto, Building
  <2>2. elements' = elements
    BY <1>2 DEF RecreateTable, AddChain, AcceptHost, AddSet, AcceptMembers, DropOthers,
                AddRule
  <2> QED BY <2>1, <2>2 DEF CleanInv
<1> QED BY <1>1, <1>2 DEF ensure_base_ruleset

\* Entries that stay, with what the daemon believes of them.
LEMMA BeliefStays ==
    ASSUME BeliefInv, elements' = elements \/ elements' = EmptyMap, believed' = believed
    PROVE  BeliefInv'
BY DEF BeliefInv, EmptyMap

LEMMA NothingToBelieve ==
    ASSUME elements' = EmptyMap
    PROVE  BeliefInv'
BY DEF BeliefInv, EmptyMap

LEMMA OpenKeepsBelief ==
    ASSUME IInv, PairInv, BeliefInv, OpenSet
    PROVE  BeliefInv'
<1> DEFINE x0 == <<job[2], job[1]>>
<1>1. /\ \/ elements' = Put(elements, x0, clock + open_duration)
         \/ x0 \in DOMAIN elements /\ elements' = elements
      /\ believed' = D!Put(believed, job, clock + open_duration)
      /\ job = <<job[1], job[2]>>
  BY DEF OpenSet, open_port_for, add_to_set, D!OpenEnds, D!ActionEnds, PairInv
<1>2. clock + open_duration \in Nat
  BY FirewallAssumption DEF IInv, TypeOK
<1>3. ASSUME NEW x \in DOMAIN elements'
      PROVE  LET y == <<x[2], x[1]>>
             IN  /\ y \in DOMAIN believed' /\ believed'[y] \in Nat
                 /\ elements'[x] <= believed'[y]
  <2>1. x \in DOMAIN elements \/ x = x0
    BY <1>1 DEF Put
  <2>2. CASE x = x0
    <3>1. <<x[2], x[1]>> = job
      BY <1>1, <2>2
    <3>2. job \in DOMAIN believed' /\ believed'[job] = clock + open_duration
      BY <1>1 DEF D!Put
    <3>3. elements'[x] \in Nat /\ elements'[x] <= clock + open_duration
      <4>1. CASE elements' = Put(elements, x0, clock + open_duration)
        <5>1. elements'[x] = clock + open_duration
          BY <2>2, <4>1 DEF Put
        <5> QED BY <1>2, <5>1
      <4>2. CASE x0 \in DOMAIN elements /\ elements' = elements
        <5>1. /\ elements[x] \in Nat /\ knocked[x] \in Nat /\ knocked[x] <= clock
              /\ elements[x] <= knocked[x] + open_duration
          BY <2>2, <4>2 DEF IInv, TypeOK, ElementInv
        <5>2. clock \in Nat /\ open_duration \in Nat
          BY FirewallAssumption DEF IInv, TypeOK
        <5> QED BY <4>2, <5>1, <5>2
      <4> QED BY <1>1, <4>1, <4>2
    <3> QED BY <1>2, <3>1, <3>2, <3>3
  <2>3. CASE x # x0
    <3>1. x \in DOMAIN elements /\ elements'[x] = elements[x]
      BY <1>1, <2>1, <2>3 DEF Put
    <3>2. x = <<x[1], x[2]>>
      BY <3>1, EntriesTyped DEF EntriesArePairs
    <3>3. <<x[2], x[1]>> # job
      BY <1>1, <2>3, <3>2
    <3>4. PICK y : y = <<x[2], x[1]>>
      OBVIOUS
    <3>5. y \in DOMAIN believed /\ believed[y] \in Nat /\ elements[x] <= believed[y]
      BY <3>1, <3>4 DEF BeliefInv
    <3>6. y \in DOMAIN believed' /\ believed'[y] = believed[y]
      BY <1>1, <3>3, <3>4, <3>5 DEF D!Put
    <3> QED BY <3>1, <3>4, <3>5, <3>6
  <2> QED BY <2>2, <2>3
<1> QED BY <1>3 DEF BeliefInv

LEMMA TimeKeepsBelief ==
    ASSUME IInv, BeliefInv, Time
    PROVE  BeliefInv'
<1>1. /\ elements' = [x \in {y \in DOMAIN elements : elements[y] > clock + 1} |-> elements[x]]
      /\ believed' = [x \in {y \in DOMAIN believed : believed[y] > clock + 1} |-> believed[x]]
  BY DEF Time, Tick, D!PassTime
<1>2. ASSUME NEW x \in DOMAIN elements'
      PROVE  LET y == <<x[2], x[1]>>
             IN  /\ y \in DOMAIN believed' /\ believed'[y] \in Nat
                 /\ elements'[x] <= believed'[y]
  <2>1. x \in DOMAIN elements /\ elements[x] > clock + 1 /\ elements'[x] = elements[x]
    BY <1>1
  <2>2. elements[x] \in Nat /\ clock \in Nat
    BY <2>1 DEF IInv, TypeOK
  <2>3. PICK y : y = <<x[2], x[1]>>
    OBVIOUS
  <2>4. y \in DOMAIN believed /\ believed[y] \in Nat /\ elements[x] <= believed[y]
    BY <2>1, <2>3 DEF BeliefInv
  <2>5. believed[y] > clock + 1
    BY <2>1, <2>2, <2>4
  <2>6. y \in DOMAIN believed' /\ believed'[y] = believed[y]
    BY <1>1, <2>4, <2>5
  <2> QED BY <2>1, <2>3, <2>4, <2>6
<1> QED BY <1>2 DEF BeliefInv

LEMMA AgreeStep ==
    ASSUME IInv, PairInv, AgreeInv, [HostNext]_hostVars
    PROVE  AgreeInv'
<1>1. CASE Script
  <2>1. /\ phase = "starting" /\ pc' \in Building \cup {"running"}
        /\ pc' \notin {"add_table", "delete_table"} => elements' = EmptyMap
    BY <1>1, ScriptIsClean DEF Script, AgreeInv
  <2>2. CASE pc' = "running" /\ D!BuildRuleset
    <3>1. phase' = "arming" /\ elements' = EmptyMap
      BY <2>1, <2>2 DEF D!BuildRuleset
    <3> QED BY <2>2, <3>1, NothingToBelieve DEF AgreeInv, CleanInv, PhasesAgree
  <2>3. CASE pc' # "running" /\ DaemonStays
    <3>1. phase' = phase /\ believed' = believed /\ pc' \in Building
      BY <2>1, <2>3 DEF DaemonStays, ownVars
    <3>2. elements' = elements \/ elements' = EmptyMap
      BY <1>1, EntriesOnlyLost DEF Script
    <3> QED BY <2>1, <3>1, <3>2, BeliefStays DEF AgreeInv, CleanInv, PhasesAgree
  <2> QED BY <1>1, <2>2, <2>3 DEF Script
<1>2. CASE EndOfProcess
  <2>1. phase' \in {"failed", "exited", "stopped"} /\ believed' = believed
    <3>1. \E how \in {"failed", "exited", "stopped"} : D!End(how)
      BY <1>2 DEF EndOfProcess, ProcessEnds, D!StartFails, D!Unwind, D!LeaveLoop,
                  D!CaptureFails, D!Crash, D!Terminate
    <3> QED BY <3>1 DEF D!End
  <2>2. /\ pc' = "down" \/ (pc' = "stopped" /\ phase' = "stopped")
        /\ elements' = elements
    BY <1>2 DEF EndOfProcess, Kill, Fail, NftRejects, RulesetStays, rulesetVars,
                daemonVars, vars
  <2>3. BeliefInv'
    BY <2>1, <2>2, BeliefStays DEF AgreeInv
  <2> QED BY <2>1, <2>2, <2>3 DEF AgreeInv, CleanInv, PhasesAgree, Building
<1>3. CASE RequestStop \/ Daemon
  <2>1. pc' = pc /\ elements' = elements
    BY <1>3 DEF RequestStop, Daemon, RulesetStays, vars, daemonVars, rulesetVars
  <2>2. /\ believed' = believed
        /\ \/ phase' = phase
           \/ /\ phase \in {"arming", "listening", "acting"}
              /\ phase' \in {"listening", "acting", "unwinding"}
    <3>1. CASE D!Terminate /\ stop_requested'
      BY <3>1 DEF D!Terminate, D!End
    <3>2. CASE D!OpenCapture \/ \E s \in Sources, p \in D!KnockPorts : D!Receive(s, p)
      BY <3>2 DEF D!OpenCapture, D!Receive
    <3>3. CASE D!HandlePacket
      BY <3>3 DEF D!HandlePacket, D!Dispatch
    <3>4. CASE D!OpenFails \/ D!CommandEnds
      BY <3>4 DEF D!OpenFails, D!CommandEnds, D!ActionEnds
    <3> QED BY <1>3, <3>1, <3>2, <3>3, <3>4 DEF RequestStop, Daemon
  <2>3. BeliefInv'
    BY <2>1, <2>2, BeliefStays DEF AgreeInv
  <2> QED BY <2>1, <2>2, <2>3 DEF AgreeInv, CleanInv, PhasesAgree
<1>4. CASE OpenSet
  <2>1. pc' = "running" /\ phase' = "listening"
    BY <1>4 DEF OpenSet, open_port_for, add_to_set, daemonVars, D!OpenEnds, D!ActionEnds
  <2>2. BeliefInv'
    BY <1>4, OpenKeepsBelief DEF AgreeInv
  <2> QED BY <2>1, <2>2 DEF AgreeInv, CleanInv, PhasesAgree, Building
<1>5. CASE StartAgain
  <2>1. pc' = "add_table" /\ phase' = "starting" /\ UNCHANGED <<elements, believed>>
    BY <1>5 DEF StartAgain, Restart, Start, rulesetVars, D!Restart, D!Start
  <2>2. BeliefInv'
    BY <2>1, BeliefStays DEF AgreeInv
  <2> QED BY <2>1, <2>2 DEF AgreeInv, CleanInv, PhasesAgree, Building
<1>6. CASE Stop \/ Connection
  <2>1. UNCHANGED <<phase, believed>>
    BY <1>6 DEF Stop, Connection, DaemonStays, ownVars
  <2>2. pc' = pc
    BY <1>6 DEF Stop, Connection, stop_service, Connect, daemonVars
  <2>3. elements' = elements \/ elements' = EmptyMap
    BY <1>6, EntriesOnlyLost DEF Stop, Connection
  <2>4. BeliefInv'
    BY <2>1, <2>3, BeliefStays DEF AgreeInv
  <2> QED BY <2>1, <2>2, <2>3, <2>4 DEF AgreeInv, CleanInv, PhasesAgree
<1>7. CASE Time
  <2>1. pc' = pc /\ phase' = phase
    BY <1>7 DEF Time, Tick, daemonVars, D!PassTime, D!daemonVars
  <2>2. elements = EmptyMap => elements' = EmptyMap
    BY <1>7 DEF Time, Tick, EmptyMap
  <2>3. BeliefInv'
    BY <1>7, TimeKeepsBelief DEF AgreeInv
  <2> QED BY <2>1, <2>2, <2>3 DEF AgreeInv, CleanInv, PhasesAgree
<1>8. CASE UNCHANGED hostVars
  <2>1. UNCHANGED <<pc, elements, phase, believed>>
    BY <1>8 DEF hostVars, ownVars, vars, daemonVars, rulesetVars
  <2>2. BeliefInv'
    BY <2>1, BeliefStays DEF AgreeInv
  <2> QED BY <2>1, <2>2 DEF AgreeInv, CleanInv, PhasesAgree
<1> QED BY <1>1, <1>2, <1>3, <1>4, <1>5, <1>6, <1>7, <1>8 DEF HostNext

(***************************************************************************)
(* The kernel and the daemon agree, through every crash, stop and restart: *)
(* packets are handled only while the ruleset is complete, and a source    *)
(* that the kernel lets in is one whose opening the daemon has seen end,   *)
(* for no longer (main.cpp's order of ensure_base_ruleset and Sniffer).    *)
(***************************************************************************)
THEOREM KernelAgrees == HostSpec => []HostTypeOK
<1>1. HostInit => PairInv /\ AgreeInv
  BY DEF HostInit, Init, EmptyMap, D!KnockdInit, PairInv, AgreeInv, CleanInv, PhasesAgree,
         BeliefInv, Building
<1>2. IInv /\ LinkInv /\ PairInv /\ [HostNext]_hostVars => PairInv'
  BY PairStep DEF IInv, TypeOK
<1>3. IInv /\ PairInv /\ AgreeInv /\ [HostNext]_hostVars => AgreeInv'
  BY AgreeStep
<1>4. AgreeInv => HostTypeOK
  BY DEF AgreeInv, PhasesAgree, BeliefInv, HostTypeOK
<1> QED BY <1>1, <1>2, <1>3, <1>4, HostInvariance, PTL DEF HostSpec
=============================================================================
