---------------------------- MODULE ClientProofs -----------------------------
(***************************************************************************)
(* Theorems about Client, for every number of clients, addresses, clocks,  *)
(* pauses, delays and faults, and every keyed hash: what the tracker       *)
(* accepts was sent by clients of that address, no code is accepted more   *)
(* often than clients of its address have sent to its last port, and an    *)
(* unmistakable knock that nobody disturbs gets through.                   *)
(***************************************************************************)
EXTENDS Client, SessionProofs, FiniteSetTheorems, SequenceTheorems

AnyPacket == [client : Clients, attempt : Nat, place : 1..n_ports,
              port : KnockPorts, sent_at : Nat]

-----------------------------------------------------------------------------
(***************************************************************************)
(* The ports of a digest of bytes are knock ports.                         *)
(***************************************************************************)
LEMMA RemainderBounds ==
    ASSUME NEW n \in Nat, NEW d \in Nat \ {0}
    PROVE  n % d \in 0..(d - 1)
OBVIOUS

LEMMA DerivedPorts ==
    ASSUME ValidArguments, NEW w \in SentWindows, NEW c \in Channels, NEW i \in 1..n_ports
    PROVE  derive_ports(w, c)[i] \in KnockPorts
<1> DEFINE digest == hmac_sha256(message(w, c))
<1>1. digest \in [1..32 -> Byte]
  BY ClientAssumption
<1>2. 2 * i - 1 \in 1..32 /\ 2 * i \in 1..32
  BY DerivationAssumption DEF ValidArguments
<1> HIDE DEF digest
<1>3. raw16(digest, i) \in Nat
  <2>1. digest[2 * i - 1] \in Nat /\ digest[2 * i] \in Nat
    <3>1. \A b \in Byte : b \in Nat
      BY SMT DEF Byte
    <3>2. \A k \in 1..32 : digest[k] \in Byte
      BY <1>1
    <3> QED BY <1>2, <3>1, <3>2
  <2> QED BY <2>1 DEF raw16
<1>4. span \in Nat \ {0} /\ port_low + (span - 1) = port_high
  BY DerivationAssumption DEF span, ValidArguments
<1>5. raw16(digest, i) % span \in 0..(span - 1)
  BY <1>3, <1>4, RemainderBounds
<1>6. derive_ports(w, c)[i] = port_low + (raw16(digest, i) % span)
  BY DEF derive_ports, digest
<1> QED BY <1>4, <1>5, <1>6, DerivationAssumption DEF KnockPorts

(***************************************************************************)
(* Which knocks there are, and that a step only adds to them.              *)
(***************************************************************************)
LEMMA KnocksAre ==
    /\ \A c \in Clients : \A a \in 1..Len(attempts[c]) : <<c, a>> \in Knocks
    /\ \A x \in Knocks : /\ x[1] \in Clients /\ x[2] \in 1..Len(attempts[x[1]])
                         /\ x = <<x[1], x[2]>>
BY DEF Knocks, Attempt

AttemptsOK == attempts \in [Clients -> Seq(Knock)]

LEMMA KnockFields ==
    ASSUME AttemptsOK, NEW x \in Knocks
    PROVE  /\ attempts[x[1]][x[2]] \in Knock
           /\ attempts[x[1]][x[2]].sent \in 0..n_ports /\ attempts[x[1]][x[2]].sent \in Int
<1>1. /\ x[1] \in Clients /\ x[2] \in 1..Len(attempts[x[1]])
      /\ attempts[x[1]] \in Seq(Knock)
  BY KnocksAre DEF AttemptsOK
<1>2. attempts[x[1]][x[2]] \in Knock
  BY <1>1, ElementOfSeq
<1>3. attempts[x[1]][x[2]].sent \in 0..n_ports
  BY <1>2 DEF Knock
<1> QED BY <1>2, <1>3

Grows ==
    /\ Knocks \subseteq Knocks'
    /\ \A x \in Knocks :
          LET old == attempts[x[1]][x[2]]
              new == attempts'[x[1]][x[2]]
          IN  /\ new.window = old.window /\ new.channel = old.channel
              /\ old.sent <= new.sent

LEMMA GrowthKeeps ==
    ASSUME AttemptsOK, AttemptsOK', Grows
    PROVE  /\ \A s, p : WasSent(s, p) => WasSent(s, p)'
           /\ \A s : SentPorts(s) \subseteq SentPorts(s)'
           /\ \A k : LastPortsSent(k) \subseteq LastPortsSent(k)'
           /\ clock' = clock => \A s : Travelling(s) \subseteq Travelling(s)'
<1>1. ASSUME NEW x \in Knocks
      PROVE  /\ x \in Knocks' /\ attempts[x[1]][x[2]] \in Knock
             /\ attempts'[x[1]][x[2]] \in Knock
             /\ PortsOf(attempts'[x[1]][x[2]]) = PortsOf(attempts[x[1]][x[2]])
             /\ attempts'[x[1]][x[2]].window = attempts[x[1]][x[2]].window
             /\ attempts'[x[1]][x[2]].channel = attempts[x[1]][x[2]].channel
             /\ 1..attempts[x[1]][x[2]].sent \subseteq 1..attempts'[x[1]][x[2]].sent
             /\ \A i \in 1..n_ports : i <= attempts[x[1]][x[2]].sent =>
                                        i <= attempts'[x[1]][x[2]].sent
  <2>1. x \in Knocks' /\ attempts[x[1]][x[2]] \in Knock
    BY KnockFields DEF Grows
  <2>2. attempts'[x[1]][x[2]] \in Knock
    <3>1. \A y \in Knocks' : attempts'[y[1]][y[2]] \in Knock
      <4>1. \A y \in Knocks : attempts[y[1]][y[2]] \in Knock
        BY KnockFields
      <4>2. ASSUME NEW y \in Knocks'
            PROVE  attempts'[y[1]][y[2]] \in Knock
        <5>1. /\ y[1] \in Clients /\ y[2] \in 1..Len(attempts'[y[1]])
          BY DEF Knocks, Attempt
        <5>2. attempts'[y[1]] \in Seq(Knock)
          BY <5>1 DEF AttemptsOK
        <5> QED BY <5>1, <5>2, ElementOfSeq
      <4> QED BY <4>2
    <3> QED BY <2>1, <3>1
  <2>3. /\ attempts'[x[1]][x[2]].window = attempts[x[1]][x[2]].window
        /\ attempts'[x[1]][x[2]].channel = attempts[x[1]][x[2]].channel
        /\ attempts[x[1]][x[2]].sent <= attempts'[x[1]][x[2]].sent
    BY DEF Grows
  <2>4. attempts[x[1]][x[2]].sent \in Int /\ attempts'[x[1]][x[2]].sent \in Int
    BY <2>1, <2>2 DEF Knock
  <2>5. \A i \in 1..n_ports : i <= attempts[x[1]][x[2]].sent =>
                                 i <= attempts'[x[1]][x[2]].sent
    BY <2>3, <2>4
  <2> QED BY <2>1, <2>2, <2>3, <2>4, <2>5 DEF PortsOf
<1>2. ASSUME NEW s, NEW p, WasSent(s, p)
      PROVE  WasSent(s, p)'
  BY <1>1, <1>2 DEF WasSent
<1>3. \A s : SentPorts(s) \subseteq SentPorts(s)'
  BY <1>2 DEF SentPorts
<1>4. ASSUME NEW k, NEW y \in LastPortsSent(k)
      PROVE  y \in LastPortsSent(k)'
  <2> DEFINE x == y[1]
  <2>1. /\ y \in Knocks \X (1..n_ports) /\ x \in Knocks /\ y[2] \in 1..n_ports
        /\ address[x[1]] = k[1] /\ y[2] <= attempts[x[1]][x[2]].sent
        /\ PortsOf(attempts[x[1]][x[2]])[y[2]] = derive_ports(k[2], k[3])[n_ports]
    BY DEF LastPortsSent
  <2>2. /\ y \in Knocks' \X (1..n_ports) /\ y[2] <= attempts'[x[1]][x[2]].sent
        /\ PortsOf(attempts'[x[1]][x[2]])[y[2]] = derive_ports(k[2], k[3])[n_ports]
    BY <1>1, <2>1
  <2> QED BY <2>1, <2>2 DEF LastPortsSent, derive_ports
<1>5. ASSUME clock' = clock, NEW s, NEW packet \in Travelling(s)
      PROVE  packet \in Travelling(s)'
  <2> DEFINE x == <<packet.client, packet.attempt>>
  <2>1. /\ packet \in AnyPacket /\ x \in Knocks /\ address[x[1]] = s
        /\ packet.sent_at <= clock /\ clock <= packet.sent_at + DELAY
        /\ packet.place \in 1..n_ports /\ packet.place <= attempts[x[1]][x[2]].sent
        /\ packet.port = PortsOf(attempts[x[1]][x[2]])[packet.place]
    BY DEF Travelling, AnyPacket
  <2> HIDE DEF x
  <2>2. /\ x \in Knocks' /\ packet.sent_at <= clock' /\ clock' <= packet.sent_at + DELAY
        /\ packet.place <= attempts'[x[1]][x[2]].sent
        /\ packet.port = PortsOf(attempts'[x[1]][x[2]])[packet.place]
    BY <1>1, <1>5, <2>1
  <2> QED BY <2>1, <2>2 DEF Travelling, AnyPacket, x
<1> QED BY <1>2, <1>3, <1>4, <1>5

-----------------------------------------------------------------------------
(***************************************************************************)
(* What the network does to a queue: whatever it does, each of its packets *)
(* was one of the queue's before.                                          *)
(***************************************************************************)
LEMMA RemoveKeeps ==
    ASSUME NEW S, NEW seq \in Seq(S), NEW i \in 1..Len(seq)
    PROVE  RemoveAt(seq, i) \in Seq(S)
<1>1. Len(seq) \in Nat /\ \A j \in 1..Len(seq) : seq[j] \in S
  BY ElementOfSeq
<1>2. SubSeq(seq, 1, i - 1) \in Seq(S) /\ SubSeq(seq, i + 1, Len(seq)) \in Seq(S)
  BY <1>1, SubSeqProperties
<1> QED BY <1>2, ConcatProperties DEF RemoveAt

LEMMA InsertKeeps ==
    ASSUME NEW S, NEW seq \in Seq(S), NEW j \in 1..(Len(seq) + 1), NEW e \in S
    PROVE  InsertAt(seq, j, e) \in Seq(S)
<1>1. Len(seq) \in Nat /\ \A k \in 1..Len(seq) : seq[k] \in S
  BY ElementOfSeq
<1>2. SubSeq(seq, 1, j - 1) \in Seq(S) /\ SubSeq(seq, j, Len(seq)) \in Seq(S)
  BY <1>1, SubSeqProperties
<1>3. <<e>> \in Seq(S)
  OBVIOUS
<1>4. SubSeq(seq, 1, j - 1) \o <<e>> \in Seq(S)
  BY <1>2, <1>3, ConcatProperties
<1> QED BY <1>2, <1>4, ConcatProperties DEF InsertAt

LEMMA FaultKeeps ==
    ASSUME NEW s \in Sources, NEW i \in 1..Len(wire[s]), DOMAIN wire = Sources,
           Lose(s, i) \/ Duplicate(s, i) \/ Swap(s, i)
    PROVE  /\ UNCHANGED <<vars, attempts, wake>> /\ DOMAIN wire' = Sources
           /\ \A x \in Sources : \A S : wire[x] \in Seq(S) => wire'[x] \in Seq(S)
<1>1. PICK packets, hit : /\ Fault(s, packets, hit)
                          /\ \A S : wire[s] \in Seq(S) => packets \in Seq(S)
  <2>1. CASE Lose(s, i)
    <3>1. \A S : wire[s] \in Seq(S) => RemoveAt(wire[s], i) \in Seq(S)
      BY RemoveKeeps
    <3> QED BY <2>1, <3>1 DEF Lose
  <2>2. CASE Duplicate(s, i)
    <3>1. PICK j \in i..Len(wire[s]) :
             Fault(s, InsertAt(wire[s], j + 1, wire[s][i]), {wire[s][i]})
      BY <2>2 DEF Duplicate
    <3>2. \A S : wire[s] \in Seq(S) => InsertAt(wire[s], j + 1, wire[s][i]) \in Seq(S)
      <4> TAKE S
      <4> HAVE wire[s] \in Seq(S)
      <4>1. wire[s][i] \in S /\ j + 1 \in 1..(Len(wire[s]) + 1)
        BY ElementOfSeq
      <4> QED BY <4>1, InsertKeeps
    <3> QED BY <3>1, <3>2
  <2>3. CASE Swap(s, i)
    <3> DEFINE swapped == [wire[s] EXCEPT ![i] = wire[s][i + 1], ![i + 1] = wire[s][i]]
    <3>1. Fault(s, swapped, {wire[s][i], wire[s][i + 1]}) /\ i < Len(wire[s])
      BY <2>3 DEF Swap
    <3>2. \A S : wire[s] \in Seq(S) => swapped \in Seq(S)
      <4> TAKE S
      <4> HAVE wire[s] \in Seq(S)
      <4>1. Len(wire[s]) \in Nat /\ i + 1 \in 1..Len(wire[s])
        BY <3>1
      <4>2. wire[s][i] \in S /\ wire[s][i + 1] \in S
        BY <4>1, ElementOfSeq
      <4> DEFINE half == [wire[s] EXCEPT ![i] = wire[s][i + 1]]
      <4>3. half \in Seq(S) /\ Len(half) = Len(wire[s])
        BY <4>2, ExceptSeq
      <4>4. swapped = [half EXCEPT ![i + 1] = wire[s][i]]
        OBVIOUS
      <4> HIDE DEF half, swapped
      <4> QED BY <4>1, <4>2, <4>3, <4>4, ExceptSeq
    <3> QED BY <3>1, <3>2
  <2> QED BY <2>1, <2>2, <2>3
<1>2. /\ UNCHANGED <<vars, attempts, wake>> /\ wire' = [wire EXCEPT ![s] = packets]
  BY <1>1 DEF Fault
<1> QED BY <1>1, <1>2

-----------------------------------------------------------------------------
(***************************************************************************)
(* What the clients' own steps do to their knocks.                         *)
(***************************************************************************)
LEMMA NextKnocksAre ==
    /\ \A c \in Clients : \A a \in 1..Len(attempts'[c]) : <<c, a>> \in Knocks'
    /\ \A x \in Knocks' : /\ x[1] \in Clients /\ x[2] \in 1..Len(attempts'[x[1]])
                          /\ x = <<x[1], x[2]>>
BY DEF Knocks, Attempt

SendingOK ==
    \A c \in Clients :
        Sending(c) => ValidArguments /\ Attempt(c) > 0 /\ Current(c).sent < n_ports

LEMMA WindowIsSent ==
    ASSUME clock \in BOOT..MAX_CLOCK, NEW c \in Clients, 0 <= clock + skew[c]
    PROVE  time_counter(clock + skew[c]) \in SentWindows
<1>1. skew[c] \in Int /\ clock \in Int
  BY ClientAssumption, SessionAssumption
<1>2. clock + skew[c] \in Nat
  BY <1>1
<1>3. (clock + skew[c]) \div time_step_seconds \in Nat
  BY <1>2, DivisionBounds, SessionAssumption
<1> QED BY <1>3 DEF SentWindows, time_counter

LEMMA StartKeeps ==
    ASSUME ClientTypeOK, NEW c \in Clients, NEW channel \in Channels, StartKnock(c, channel)
    PROVE  AttemptsOK' /\ Grows /\ IsFiniteSet(Knocks)' /\ SendingOK'
<1> DEFINE knock == [window |-> time_counter(clock + skew[c]), channel |-> channel, sent |-> 0]
           n == Len(attempts[c])
<1>1. /\ attempts \in [Clients -> Seq(Knock)] /\ attempts[c] \in Seq(Knock) /\ n \in Nat
      /\ ValidArguments /\ SendingOK /\ IsFiniteSet(Knocks)
      /\ attempts' = [attempts EXCEPT ![c] = Append(@, knock)]
      /\ wake \in [Clients -> Int] /\ wake' = [wake EXCEPT ![c] = clock]
  BY DEF ClientTypeOK, StartKnock, SendingOK
<1>2. knock \in Knock
  <2>1. knock.window \in SentWindows
    BY WindowIsSent DEF ClientTypeOK, StartKnock
  <2>2. 0 \in 0..n_ports
    BY DerivationAssumption
  <2> QED BY <2>1, <2>2 DEF Knock
<1> HIDE DEF knock
<1>3. /\ attempts'[c] = Append(attempts[c], knock) /\ attempts'[c] \in Seq(Knock)
      /\ Len(attempts'[c]) = n + 1 /\ attempts'[c][n + 1] = knock
      /\ \A a \in 1..n : attempts'[c][a] = attempts[c][a]
      /\ \A d \in Clients : d # c => attempts'[d] = attempts[d]
  BY <1>1, <1>2
<1>4. AttemptsOK'
  BY <1>1, <1>3 DEF AttemptsOK
<1>5. ASSUME NEW x \in Knocks PROVE x \in Knocks' /\ attempts'[x[1]][x[2]] = attempts[x[1]][x[2]]
  <2>1. x[1] \in Clients /\ x[2] \in 1..Len(attempts[x[1]]) /\ x = <<x[1], x[2]>>
    BY KnocksAre
  <2>2. CASE x[1] # c
    BY <1>3, <2>1, <2>2, NextKnocksAre
  <2>3. CASE x[1] = c
    <3>1. x[2] \in 1..n /\ x[2] \in 1..(n + 1)
      BY <1>1, <2>1, <2>3
    <3> QED BY <1>3, <2>1, <2>3, <3>1, NextKnocksAre
  <2> QED BY <2>2, <2>3
<1>6. Knocks' = Knocks \cup {<<c, n + 1>>}
  <2>1. ASSUME NEW x \in Knocks' PROVE x \in Knocks \cup {<<c, n + 1>>}
    <3>1. x[1] \in Clients /\ x[2] \in 1..Len(attempts'[x[1]]) /\ x = <<x[1], x[2]>>
      BY NextKnocksAre
    <3>2. CASE x[1] # c
      BY <1>3, <3>1, <3>2, KnocksAre
    <3>3. CASE x[1] = c
      <4>1. x[2] \in 1..n \/ x[2] = n + 1
        BY <1>1, <1>3, <3>1, <3>3
      <4> QED BY <3>1, <3>3, <4>1, KnocksAre
    <3> QED BY <3>2, <3>3
  <2>3. <<c, n + 1>> \in Knocks'
    <3>1. n + 1 \in 1..Len(attempts'[c])
      BY <1>1, <1>3
    <3> QED BY <3>1, NextKnocksAre
  <2> QED BY <1>5, <2>1, <2>3
<1>7. Grows
  <2>1. \A x \in Knocks : attempts[x[1]][x[2]].sent \in Int
    BY <1>1, KnockFields DEF AttemptsOK
  <2> QED BY <1>5, <2>1 DEF Grows
<1>8. IsFiniteSet(Knocks')
  BY <1>1, <1>6, FS_AddElement
<1>9. SendingOK'
  <2> SUFFICES ASSUME NEW d \in Clients, Sending(d)'
               PROVE  ValidArguments /\ Attempt(d)' > 0 /\ Current(d)'.sent < n_ports
    BY DEF SendingOK
  <2>1. CASE d = c
    <3>1. Attempt(d)' = n + 1 /\ Current(d)' = knock
      BY <1>3, <2>1 DEF Attempt, Current
    <3>2. knock.sent = 0 /\ 0 < n_ports /\ n + 1 > 0
      BY <1>1, DerivationAssumption DEF knock, ValidArguments
    <3> QED BY <1>1, <3>1, <3>2
  <2>2. CASE d # c
    BY <1>1, <1>3, <2>2 DEF SendingOK, Attempt, Current, Sending
  <2> QED BY <2>1, <2>2
<1> QED BY <1>4, <1>7, <1>8, <1>9

LEMMA SendKeeps ==
    ASSUME ClientTypeOK, NEW c \in Clients, SendPacket(c)
    PROVE  /\ AttemptsOK' /\ Grows /\ Knocks' = Knocks /\ SendingOK'
           /\ <<c, Attempt(c)>> \in Knocks /\ Current(c).sent < n_ports
           /\ [client |-> c, attempt |-> Attempt(c), place |-> Current(c).sent + 1,
               port |-> PortsOf(Current(c))[Current(c).sent + 1],
               sent_at |-> clock] \in Travelling(address[c])'
<1> DEFINE n == Len(attempts[c])
           old == attempts[c][n]
           i == old.sent + 1
           new == [old EXCEPT !.sent = i]
<1>1. /\ attempts \in [Clients -> Seq(Knock)] /\ attempts[c] \in Seq(Knock)
      /\ n \in Nat /\ n > 0 /\ ValidArguments /\ SendingOK /\ old.sent < n_ports
      /\ attempts' = [attempts EXCEPT ![c][n].sent = i]
      /\ wake \in [Clients -> Int] /\ wake' = [wake EXCEPT ![c] = IF i < n_ports THEN clock + knock_interval ELSE -1]
      /\ UNCHANGED clock
  BY DEF ClientTypeOK, SendPacket, SendingOK, Attempt, Current, vars
<1>2. n \in 1..n /\ old \in Knock /\ old.sent \in Nat /\ i \in 1..n_ports /\ i \in 0..n_ports
  <2>1. n \in 1..n /\ old \in Knock
    BY <1>1, ElementOfSeq
  <2>2. old.sent \in 0..n_ports
    BY <2>1 DEF Knock
  <2> QED BY <1>1, <2>1, <2>2, DerivationAssumption
<1>3. /\ new \in Knock /\ new.sent = i
      /\ new.window = old.window /\ new.channel = old.channel
  BY <1>2 DEF Knock
<1>4. attempts'[c] = [attempts[c] EXCEPT ![n] = new]
  BY <1>1
<1> HIDE DEF new
<1>5. /\ attempts'[c] \in Seq(Knock) /\ Len(attempts'[c]) = n
      /\ attempts'[c][n] = new
      /\ \A a \in 1..n : a # n => attempts'[c][a] = attempts[c][a]
      /\ \A d \in Clients : d # c => attempts'[d] = attempts[d]
  <2>1. /\ [attempts[c] EXCEPT ![n] = new] \in Seq(Knock)
        /\ Len([attempts[c] EXCEPT ![n] = new]) = n
    BY <1>1, <1>2, <1>3, ExceptSeq
  <2>2. attempts'[c] \in Seq(Knock) /\ Len(attempts'[c]) = n
    BY ONLY <1>4, <2>1
  <2> QED BY <1>1, <1>2, <1>4, <2>2
<1>6. AttemptsOK'
  BY <1>1, <1>5 DEF AttemptsOK
<1>7. Knocks' = Knocks
  BY <1>1, <1>5 DEF Knocks, Attempt
<1>8. <<c, n>> \in Knocks /\ <<c, n>> \in Knocks'
  BY <1>2, <1>7, KnocksAre
<1>9. Grows
  <2> SUFFICES ASSUME NEW x \in Knocks
               PROVE  /\ attempts'[x[1]][x[2]].window = attempts[x[1]][x[2]].window
                      /\ attempts'[x[1]][x[2]].channel = attempts[x[1]][x[2]].channel
                      /\ attempts[x[1]][x[2]].sent <= attempts'[x[1]][x[2]].sent
    BY <1>7 DEF Grows
  <2>1. /\ x[1] \in Clients /\ x[2] \in 1..Len(attempts[x[1]])
        /\ attempts[x[1]][x[2]].sent \in Int
    BY <1>1, KnocksAre, KnockFields DEF AttemptsOK
  <2>2. CASE x[1] = c /\ x[2] = n
    BY <1>2, <1>3, <1>5, <2>2
  <2>3. CASE ~(x[1] = c /\ x[2] = n)
    <3>1. attempts'[x[1]][x[2]] = attempts[x[1]][x[2]]
      BY <1>1, <1>5, <2>1, <2>3
    <3> QED BY <2>1, <3>1
  <2> QED BY <2>2, <2>3
<1>10. SendingOK'
  <2> SUFFICES ASSUME NEW d \in Clients, Sending(d)'
               PROVE  ValidArguments /\ Attempt(d)' > 0 /\ Current(d)'.sent < n_ports
    BY DEF SendingOK
  <2>1. CASE d = c
    <3>1. Attempt(d)' = n /\ Current(d)' = new
      BY <1>5, <2>1 DEF Attempt, Current
    <3>2. i < n_ports
      BY <1>1, <2>1 DEF Sending
    <3> QED BY <1>1, <1>3, <3>1, <3>2
  <2>2. CASE d # c
    BY <1>1, <1>5, <2>2 DEF SendingOK, Attempt, Current, Sending
  <2> QED BY <2>1, <2>2
<1>11. PortsOf(old)[i] \in KnockPorts /\ PortsOf(new) = PortsOf(old)
  BY <1>1, <1>2, <1>3, DerivedPorts DEF PortsOf, Knock
<1>12. [client |-> c, attempt |-> n, place |-> i, port |-> PortsOf(old)[i], sent_at |-> clock]
          \in Travelling(address[c])'
  <2> DEFINE packet == [client |-> c, attempt |-> n, place |-> i, port |-> PortsOf(old)[i],
                        sent_at |-> clock]
  <2>1. /\ packet \in AnyPacket
        /\ packet.client = c /\ packet.attempt = n /\ packet.sent_at = clock
        /\ packet.place = i /\ packet.port = PortsOf(old)[i]
    <3>1. clock \in Nat
      BY SessionAssumption DEF ClientTypeOK
    <3> HIDE DEF i
    <3> QED BY <1>1, <1>2, <1>11, <3>1 DEF AnyPacket
  <2>2. clock <= clock /\ clock <= clock + DELAY
    BY SessionAssumption, ClientAssumption DEF ClientTypeOK
  <2>3. i <= attempts'[c][n].sent /\ PortsOf(old)[i] = PortsOf(attempts'[c][n])[i]
    BY <1>2, <1>3, <1>5, <1>11
  <2> HIDE DEF packet, i
  <2> QED BY <1>1, <1>8, <2>1, <2>2, <2>3 DEF Travelling, packet, AnyPacket
<1> QED BY <1>1, <1>6, <1>7, <1>8, <1>9, <1>10, <1>12 DEF Attempt, Current

-----------------------------------------------------------------------------
(***************************************************************************)
(* Each step keeps the types, and adds to what the clients have sent.      *)
(***************************************************************************)
WireOK ==
    DOMAIN wire = Sources /\ \A s \in Sources : wire[s] \in Seq(Travelling(s))

LEMMA SameAttempts ==
    ASSUME AttemptsOK, attempts' = attempts
    PROVE  AttemptsOK' /\ Grows /\ Knocks' = Knocks
<1>1. AttemptsOK' /\ Knocks' = Knocks
  BY DEF AttemptsOK, Knocks, Attempt
<1>2. \A x \in Knocks : attempts[x[1]][x[2]].sent \in Int
  BY KnockFields
<1> QED BY <1>1, <1>2 DEF Grows

LEMMA OwnStepKeepsTypes ==
    ASSUME ClientTypeOK, NEW c \in Clients,
           \/ \E channel \in Channels : StartKnock(c, channel)
           \/ SendPacket(c)
           \/ GiveUp(c)
    PROVE  ClientTypeOK' /\ Grows
<1>1. /\ AttemptsOK /\ IsFiniteSet(Knocks) /\ wake \in [Clients -> Int] /\ SendingOK /\ WireOK
      /\ UNCHANGED vars /\ UNCHANGED clock /\ clock \in BOOT..MAX_CLOCK /\ clock \in Int
      /\ knock_interval \in Int /\ address[c] \in Sources
  <2>1. AttemptsOK /\ IsFiniteSet(Knocks) /\ wake \in [Clients -> Int] /\ SendingOK /\ WireOK
    BY DEF ClientTypeOK, AttemptsOK, SendingOK, WireOK
  <2>2. UNCHANGED vars
    BY DEF StartKnock, SendPacket, GiveUp
  <2>3. clock \in BOOT..MAX_CLOCK /\ clock \in Int /\ knock_interval \in Int
    BY ClientAssumption, SessionAssumption DEF ClientTypeOK
  <2> QED BY <2>1, <2>2, <2>3, ClientAssumption DEF vars
<1>2. wake' \in [Clients -> Int]
  <2>1. \E due \in Int : wake' = [wake EXCEPT ![c] = due]
    <3>1. CASE \E channel \in Channels : StartKnock(c, channel)
      BY <1>1, <3>1 DEF StartKnock
    <3>2. CASE SendPacket(c)
      <4>1. clock + knock_interval \in Int /\ -1 \in Int
        BY <1>1
      <4> QED BY <3>2, <4>1 DEF SendPacket
    <3>3. CASE GiveUp(c)
      <4>1. -1 \in Int
        OBVIOUS
      <4> QED BY <3>3, <4>1 DEF GiveUp
    <3> QED BY <3>1, <3>2, <3>3
  <2> QED BY <1>1, <2>1
<1>3. AttemptsOK' /\ Grows /\ IsFiniteSet(Knocks') /\ SendingOK'
  <2>1. CASE \E channel \in Channels : StartKnock(c, channel)
    BY <2>1, StartKeeps
  <2>2. CASE SendPacket(c)
    BY <1>1, <2>2, SendKeeps
  <2>3. CASE GiveUp(c)
    <3>1. AttemptsOK' /\ Grows /\ Knocks' = Knocks
      BY <1>1, <2>3, SameAttempts DEF GiveUp
    <3>2. SendingOK'
      BY <1>1, <2>3 DEF GiveUp, SendingOK, Sending, Attempt, Current
    <3> QED BY <1>1, <3>1, <3>2
  <2> QED BY <2>1, <2>2, <2>3
<1>4. \A s \in Sources : wire[s] \in Seq(Travelling(s)')
  <2> TAKE s \in Sources
  <2>1. Travelling(s) \subseteq Travelling(s)'
    BY <1>1, <1>3, GrowthKeeps
  <2> QED BY <1>1, <2>1, SeqMonotonic DEF WireOK
<1>5. WireOK'
  <2>1. CASE wire' = wire
    BY <1>1, <1>4, <2>1 DEF WireOK
  <2>2. CASE SendPacket(c)
    <3>1. PICK packet \in Travelling(address[c])' :
             wire' = [wire EXCEPT ![address[c]] = Append(@, packet)]
      <4>1. [client |-> c, attempt |-> Attempt(c), place |-> Current(c).sent + 1,
             port |-> PortsOf(Current(c))[Current(c).sent + 1],
             sent_at |-> clock] \in Travelling(address[c])'
        BY <2>2, SendKeeps
      <4> QED BY <2>2, <4>1 DEF SendPacket
    <3>2. Append(wire[address[c]], packet) \in Seq(Travelling(address[c])')
      BY <1>1, <1>4, <3>1, AppendProperties
    <3> QED BY <1>1, <1>4, <3>1, <3>2 DEF WireOK
  <2> QED BY <2>1, <2>2 DEF StartKnock, GiveUp
<1> QED BY <1>1, <1>2, <1>3, <1>5 DEF ClientTypeOK, AttemptsOK, SendingOK, WireOK

LEMMA NetworkKeepsTypes ==
    ASSUME ClientTypeOK, NEW s \in Sources,
           Deliver(s) \/ \E i \in 1..Len(wire[s]) : Lose(s, i) \/ Duplicate(s, i) \/ Swap(s, i)
    PROVE  /\ ClientTypeOK' /\ Grows
           /\ \A x \in Sources : \A S : wire[x] \in Seq(S) => wire'[x] \in Seq(S)
<1>1. AttemptsOK /\ WireOK
  BY DEF ClientTypeOK, AttemptsOK, WireOK
<1>2. /\ UNCHANGED <<clock, attempts, wake>> /\ DOMAIN wire' = Sources
      /\ \A x \in Sources : \A S : wire[x] \in Seq(S) => wire'[x] \in Seq(S)
  <2>1. CASE Deliver(s)
    <3>1. /\ UNCHANGED <<attempts, wake>> /\ wire[s] # <<>>
          /\ wire' = [wire EXCEPT ![s] = Tail(@)]
          /\ on_packet(s, Head(wire[s]).port, clock)
      BY <2>1 DEF Deliver
    <3>2. clock' = clock
      BY <3>1, OthersAreSwept
    <3>3. \A S : wire[s] \in Seq(S) => Tail(wire[s]) \in Seq(S)
      BY <3>1, HeadTailProperties
    <3> QED BY <1>1, <3>1, <3>2, <3>3 DEF WireOK
  <2>2. CASE \E i \in 1..Len(wire[s]) : Lose(s, i) \/ Duplicate(s, i) \/ Swap(s, i)
    <3>1. PICK i \in 1..Len(wire[s]) : Lose(s, i) \/ Duplicate(s, i) \/ Swap(s, i)
      BY <2>2
    <3>2. /\ UNCHANGED <<vars, attempts, wake>> /\ DOMAIN wire' = Sources
          /\ \A x \in Sources : \A S : wire[x] \in Seq(S) => wire'[x] \in Seq(S)
      BY <1>1, <3>1, FaultKeeps DEF WireOK
    <3> QED BY <3>2 DEF vars
  <2> QED BY <2>1, <2>2
<1>3. AttemptsOK' /\ Grows /\ Knocks' = Knocks
  BY <1>1, <1>2, SameAttempts
<1>4. WireOK'
  <2>1. ASSUME NEW x \in Sources PROVE wire'[x] \in Seq(Travelling(x)')
    <3>1. Travelling(x) \subseteq Travelling(x)'
      BY <1>1, <1>2, <1>3, GrowthKeeps
    <3>2. wire'[x] \in Seq(Travelling(x))
      BY <1>1, <1>2 DEF WireOK
    <3> QED BY <3>1, <3>2, SeqMonotonic
  <2> QED BY <1>2, <2>1 DEF WireOK
<1>5. ClientTypeOK'
  <2>1. SendingOK'
    BY <1>2 DEF ClientTypeOK, SendingOK, Sending, Attempt, Current
  <2> QED BY <1>2, <1>3, <1>4, <2>1 DEF ClientTypeOK, AttemptsOK, SendingOK, WireOK
<1> QED BY <1>2, <1>3, <1>5

LEMMA TimeKeepsTypes ==
    ASSUME ClientTypeOK, PassTime
    PROVE  ClientTypeOK' /\ Grows
<1>1. /\ AttemptsOK /\ WireOK /\ UNCHANGED <<attempts, wake, wire>>
      /\ clock' = clock + 1 /\ clock' \in BOOT..MAX_CLOCK /\ clock \in Int
      /\ \A s \in Sources : \A i \in 1..Len(wire[s]) : clock < wire[s][i].sent_at + DELAY
  BY SessionAssumption DEF ClientTypeOK, AttemptsOK, WireOK, PassTime, Tick
<1>2. AttemptsOK' /\ Grows /\ Knocks' = Knocks
  BY <1>1, SameAttempts
<1>3. ASSUME NEW s \in Sources, NEW i \in 1..Len(wire[s])
      PROVE  wire[s][i] \in Travelling(s)'
  <2>1. wire[s][i] \in Travelling(s)
    BY <1>1, ElementOfSeq DEF WireOK
  <2>2. /\ wire[s][i].sent_at <= clock' /\ clock' <= wire[s][i].sent_at + DELAY
    <3>1. wire[s][i].sent_at \in Int /\ wire[s][i].sent_at <= clock
      BY <2>1 DEF Travelling
    <3> QED BY <1>1, <3>1, ClientAssumption
  <2> QED BY <1>1, <1>2, <2>1, <2>2 DEF Travelling
<1>4. WireOK'
  <2>1. ASSUME NEW s \in Sources PROVE wire[s] \in Seq(Travelling(s)')
    <3>1. wire[s] \in Seq(Travelling(s))
      BY <1>1 DEF WireOK
    <3> QED BY <1>3, <3>1
  <2> QED BY <1>1, <2>1 DEF WireOK
<1>5. SendingOK'
  BY <1>1 DEF ClientTypeOK, SendingOK, Sending, Attempt, Current
<1> QED BY <1>1, <1>2, <1>4, <1>5 DEF ClientTypeOK, AttemptsOK, SendingOK, WireOK

LEMMA StepKeepsTypes == ClientTypeOK /\ [ClientNext]_clientVars => ClientTypeOK' /\ Grows
<1> SUFFICES ASSUME ClientTypeOK, [ClientNext]_clientVars
             PROVE  ClientTypeOK' /\ Grows
  OBVIOUS
<1>1. CASE \E c \in Clients : \/ \E channel \in Channels : StartKnock(c, channel)
                              \/ SendPacket(c)
                              \/ GiveUp(c)
  BY <1>1, OwnStepKeepsTypes
<1>2. CASE \E s \in Sources :
              Deliver(s) \/ \E i \in 1..Len(wire[s]) : Lose(s, i) \/ Duplicate(s, i) \/ Swap(s, i)
  BY <1>2, NetworkKeepsTypes
<1>3. CASE PassTime
  BY <1>3, TimeKeepsTypes
<1>4. CASE UNCHANGED clientVars
  <2>1. UNCHANGED <<clock, attempts, wake, wire>>
    BY <1>4 DEF clientVars, vars
  <2>2. AttemptsOK' /\ Grows /\ Knocks' = Knocks
    BY <2>1, SameAttempts DEF ClientTypeOK, AttemptsOK
  <2>3. WireOK'
    <3>1. ASSUME NEW s \in Sources PROVE wire[s] \in Seq(Travelling(s)')
      <4>1. Travelling(s) \subseteq Travelling(s)' /\ wire[s] \in Seq(Travelling(s))
        BY <2>1, <2>2, GrowthKeeps DEF ClientTypeOK, AttemptsOK
      <4> QED BY <4>1, SeqMonotonic
    <3> QED BY <2>1, <3>1 DEF ClientTypeOK, WireOK
  <2>4. SendingOK'
    BY <2>1 DEF ClientTypeOK, SendingOK, Sending, Attempt, Current
  <2> QED BY <2>1, <2>2, <2>3, <2>4 DEF ClientTypeOK, AttemptsOK, SendingOK, WireOK
<1> QED BY <1>1, <1>2, <1>3, <1>4 DEF ClientNext

-----------------------------------------------------------------------------
(***************************************************************************)
(* What a delivery brings to the tracker.                                  *)
(***************************************************************************)
LEMMA Delivery ==
    ASSUME ClientTypeOK, NEW s \in Sources, Deliver(s)
    PROVE  /\ Head(wire[s]) \in Travelling(s) /\ Head(wire[s]).port \in SentPorts(s)
           /\ Head(wire[s]).port \in KnockPorts /\ clock \in (clock - LAG)..(clock + LEAD)
           /\ on_packet(s, Head(wire[s]).port, clock)
           /\ UNCHANGED <<attempts, clock>>
<1>1. /\ wire[s] # <<>> /\ wire[s] \in Seq(Travelling(s))
      /\ on_packet(s, Head(wire[s]).port, clock) /\ UNCHANGED attempts
  BY DEF ClientTypeOK, Deliver
<1>2. Head(wire[s]) \in Travelling(s)
  BY <1>1, HeadTailProperties
<1>3. Head(wire[s]).port \in SentPorts(s) /\ Head(wire[s]).port \in KnockPorts
  <2> DEFINE packet == Head(wire[s])
             x == <<packet.client, packet.attempt>>
  <2> HIDE DEF packet
  <2>1. /\ x \in Knocks /\ address[x[1]] = s /\ packet.port \in KnockPorts
        /\ packet.place \in 1..n_ports /\ packet.place <= attempts[x[1]][x[2]].sent
        /\ packet.port = PortsOf(attempts[x[1]][x[2]])[packet.place]
    BY <1>2 DEF Travelling, packet
  <2>2. packet.place \in 1..attempts[x[1]][x[2]].sent
    <3>1. attempts[x[1]][x[2]].sent \in Int
      BY <2>1, KnockFields DEF AttemptsOK, ClientTypeOK
    <3> HIDE DEF x
    <3> QED BY <2>1, <3>1
  <2> QED BY <2>1, <2>2 DEF SentPorts, WasSent, packet
<1>4. clock \in (clock - LAG)..(clock + LEAD)
  BY SessionAssumption DEF ClientTypeOK
<1>5. UNCHANGED clock
  BY <1>1, OthersAreSwept
<1> QED BY <1>1, <1>2, <1>3, <1>4, <1>5

\* Every other step leaves the tracker alone, or lets time pass.
LEMMA OnlyDeliveries ==
    ASSUME [ClientNext]_clientVars, ~\E s \in Sources : Deliver(s)
    PROVE  /\ Tick \/ UNCHANGED vars
           /\ UNCHANGED <<candidates, replay_cache, accepted>>
<1>1. CASE \E c \in Clients : \/ \E channel \in Channels : StartKnock(c, channel)
                              \/ SendPacket(c)
                              \/ GiveUp(c)
  BY <1>1 DEF StartKnock, SendPacket, GiveUp, vars
<1>2. CASE \E s \in Sources :
              \E i \in 1..Len(wire[s]) : Lose(s, i) \/ Duplicate(s, i) \/ Swap(s, i)
  BY <1>2 DEF Lose, Duplicate, Swap, Fault, vars
<1>3. CASE PassTime
  BY <1>3 DEF PassTime, Tick
<1>4. CASE UNCHANGED clientVars
  BY <1>4 DEF clientVars, vars
<1> QED BY <1>1, <1>2, <1>3, <1>4 DEF ClientNext

LEMMA TrackerKept == ClientTypeOK /\ IInv /\ [ClientNext]_clientVars => IInv'
<1> SUFFICES ASSUME ClientTypeOK, IInv, [ClientNext]_clientVars
             PROVE  IInv'
  OBVIOUS
<1>1. CASE \E s \in Sources : Deliver(s)
  <2>1. PICK s \in Sources : Deliver(s)
    BY <1>1
  <2>2. Next
    BY <2>1, Delivery DEF Next
  <2> QED BY <2>2, NextKeepsInvariant
<1>2. CASE ~\E s \in Sources : Deliver(s)
  <2>1. [Next]_vars
    BY <1>2, OnlyDeliveries DEF Next
  <2> QED BY <2>1, NextKeepsInvariant
<1> QED BY <1>1, <1>2

\* A packet is the start of the candidate of its source or extends it.
LEMMA PacketJoins ==
    ASSUME IInv, NEW s \in Sources, NEW p \in KnockPorts, NEW captured_at,
           on_packet(s, p, captured_at), NEW x \in DOMAIN candidates'
    PROVE  \/ x \in DOMAIN candidates /\ candidates'[x] = candidates[x]
           \/ x = s /\ candidates'[x].ports = <<p>>
           \/ /\ x = s /\ s \in DOMAIN candidates
              /\ candidates'[x].ports = Extended(s, p)
<1>2. CASE x # s
  BY <1>2, OthersAreSwept
<1>3. CASE x = s
  <2>1. CASE StartCandidate(s, p, captured_at) \/ BreakSequence(s, p, captured_at)
    <3>1. candidates' = Put(sweep_expired, s, Fresh(p, captured_at))
      BY <2>1 DEF StartCandidate, BreakSequence
    <3>2. candidates'[s] = Fresh(p, captured_at)
      BY <3>1 DEF Put
    <3> QED BY <1>3, <3>2 DEF Fresh
  <2>2. CASE ExtendCandidate(s, p)
    <3> DEFINE cand == [candidates[s] EXCEPT !.ports = Extended(s, p), !.last_seen_mono = clock]
    <3>1. candidates' = Put(sweep_expired, s, cand) /\ s \in DOMAIN candidates
      BY <2>2, SweptCandidates DEF ExtendCandidate, Extends
    <3>2. candidates[s] \in Candidate
      BY <3>1 DEF IInv, TypeOK
    <3>3. cand.ports = Extended(s, p)
      BY <3>2 DEF Candidate
    <3> HIDE DEF cand
    <3>4. candidates'[s] = cand
      BY <3>1 DEF Put
    <3> QED BY <1>3, <3>1, <3>3, <3>4
  <2>3. CASE candidates' = Drop(sweep_expired, s) \/ candidates' = sweep_expired
    <3>1. x \in DOMAIN sweep_expired /\ candidates'[x] = sweep_expired[x]
      BY <2>3 DEF Drop
    <3> QED BY <3>1, SweptCandidates
  <2> QED BY <2>1, <2>2, <2>3 DEF on_packet, RejectReplay, AcceptMatch, DerivationThrows
<1> QED BY <1>2, <1>3

\* So every port of a candidate was sent.
LEMMA CandidatesStaySent ==
    ASSUME ClientInv, [ClientNext]_clientVars
    PROVE  CandidatesWereSent'
<1>1. /\ IInv /\ ClientTypeOK /\ ClientTypeOK' /\ AttemptsOK /\ AttemptsOK' /\ Grows
      /\ CandidatesWereSent
  BY StepKeepsTypes DEF ClientInv, ClientTypeOK, AttemptsOK
<1>2. \A s : SentPorts(s) \subseteq SentPorts(s)'
  BY <1>1, GrowthKeeps
<1> SUFFICES ASSUME NEW x \in DOMAIN candidates'
             PROVE  candidates'[x].ports \in Seq(SentPorts(x)')
  BY DEF CandidatesWereSent
<1>3. CASE x \in DOMAIN candidates /\ candidates'[x] = candidates[x]
  BY <1>1, <1>2, <1>3, SeqMonotonic DEF CandidatesWereSent
<1>4. CASE \E s \in Sources : Deliver(s)
  <2>1. PICK s \in Sources : Deliver(s)
    BY <1>4
  <2> DEFINE p == Head(wire[s]).port
  <2>2. p \in KnockPorts /\ p \in SentPorts(s)' /\ on_packet(s, p, clock)
    BY <1>1, <1>2, <2>1, Delivery
  <2> HIDE DEF p
  <2>3. \/ x \in DOMAIN candidates /\ candidates'[x] = candidates[x]
        \/ x = s /\ candidates'[x].ports = <<p>>
        \/ /\ x = s /\ s \in DOMAIN candidates
           /\ candidates'[x].ports = Extended(s, p)
    BY <1>1, <2>2, PacketJoins
  <2>4. CASE x = s /\ candidates'[x].ports = <<p>>
    BY <2>2, <2>4
  <2>5. CASE /\ x = s /\ s \in DOMAIN candidates
             /\ candidates'[x].ports = Extended(s, p)
    <3>1. candidates[s].ports \in Seq(SentPorts(s)')
      BY <1>1, <1>2, <2>5, SeqMonotonic DEF CandidatesWereSent
    <3>2. Append(candidates[s].ports, p) \in Seq(SentPorts(s)')
      BY <2>2, <3>1, AppendProperties
    <3> QED BY <2>5, <3>2 DEF Extended
  <2> QED BY <1>3, <2>3, <2>4, <2>5
<1>5. CASE ~\E s \in Sources : Deliver(s)
  BY <1>3, <1>5, OnlyDeliveries
<1> QED BY <1>4, <1>5

-----------------------------------------------------------------------------
(***************************************************************************)
(* An acceptance: every port of the sequence was sent to, and the packet   *)
(* that completes it went to the last one.                                 *)
(***************************************************************************)
LEMMA AcceptedIsSent ==
    ASSUME ClientInv, NEW s \in Sources, NEW p \in SentPorts(s),
           NEW w, NEW c, AcceptMatch(s, p, w, c)
    PROVE  /\ n_ports \in Nat \ {0} /\ p = derive_ports(w, c)[n_ports]
           /\ \A i \in 1..n_ports : WasSent(s, derive_ports(w, c)[i])
<1> DEFINE cand == candidates[s]
           ports == Extended(s, p)
<1>1. CandidatesWereSent
  BY DEF ClientInv
<1>2. s \in DOMAIN candidates /\ ValidArguments /\ IsFullMatch(ports, w, c)
  BY SweptCandidates DEF AcceptMatch, Extends, IsFirstMatch
<1>3. n_ports \in Nat \ {0}
  BY <1>2, DerivationAssumption DEF ValidArguments
<1>4. ports \in Seq(SentPorts(s)) /\ ports[Len(ports)] = p /\ Len(ports) = n_ports
  <2>1. cand.ports \in Seq(SentPorts(s))
    BY <1>1, <1>2 DEF CandidatesWereSent
  <2>2. ports \in Seq(SentPorts(s)) /\ ports[Len(ports)] = p
    BY <2>1, AppendProperties DEF Extended
  <2> QED BY <1>2, <2>2 DEF IsFullMatch
<1>5. \A i \in 1..n_ports : ports[i] = derive_ports(w, c)[i]
  BY <1>2, <1>4 DEF IsFullMatch, IsPrefixOf
<1> HIDE DEF ports, cand
<1>6. ASSUME NEW i \in 1..n_ports
      PROVE  WasSent(s, derive_ports(w, c)[i])
  <2>1. ports[i] \in SentPorts(s)
    BY <1>4, ElementOfSeq
  <2> QED BY <1>5, <2>1 DEF SentPorts
<1>7. p = derive_ports(w, c)[n_ports]
  <2>1. n_ports \in 1..n_ports
    BY <1>3
  <2> QED BY <1>4, <1>5, <2>1
<1> QED BY <1>3, <1>6, <1>7

\* What a packet does to the codes accepted.
LEMMA PacketAccepts ==
    ASSUME NEW s \in Sources, NEW p, NEW captured_at, on_packet(s, p, captured_at)
    PROVE  \/ accepted' = accepted
           \/ \E w, c : AcceptMatch(s, p, w, c)
BY DEF on_packet, StartCandidate, BreakSequence, ExtendCandidate, RejectReplay, DerivationThrows

LEMMA AcceptedStaysSent ==
    ASSUME ClientInv, [ClientNext]_clientVars
    PROVE  AcceptedWasSent'
<1>1. /\ ClientTypeOK /\ ClientTypeOK' /\ AttemptsOK /\ AttemptsOK' /\ Grows
      /\ AcceptedWasSent
  BY StepKeepsTypes DEF ClientInv, ClientTypeOK, AttemptsOK
<1>2. ASSUME NEW k \in DOMAIN accepted', NEW i \in 1..n_ports
      PROVE  WasSent(k[1], derive_ports(k[2], k[3])[i])
  <2>1. CASE k \in DOMAIN accepted
    BY <1>1, <2>1 DEF AcceptedWasSent
  <2>2. CASE k \notin DOMAIN accepted
    <3>1. PICK s \in Sources : Deliver(s)
      BY <2>2, OnlyDeliveries
    <3> DEFINE p == Head(wire[s]).port
    <3>2. p \in SentPorts(s) /\ on_packet(s, p, clock)
      BY <1>1, <3>1, Delivery
    <3> HIDE DEF p
    <3>3. PICK w, c : AcceptMatch(s, p, w, c)
      BY <2>2, <3>2, PacketAccepts
    <3>4. k = <<s, w, c>>
      BY <2>2, <3>3 DEF AcceptMatch, Put
    <3> QED BY <3>2, <3>3, <3>4, AcceptedIsSent
  <2> QED BY <2>1, <2>2
<1>3. ASSUME NEW k \in DOMAIN accepted', NEW i \in 1..n_ports
      PROVE  WasSent(k[1], derive_ports(k[2], k[3])[i])'
  BY <1>1, <1>2, GrowthKeeps DEF derive_ports
<1> QED BY <1>3 DEF AcceptedWasSent

-----------------------------------------------------------------------------
(***************************************************************************)
(* Each acceptance uses up a packet to the last port.                      *)
(***************************************************************************)
LEMMA NewPackets ==
    ASSUME ClientTypeOK, [ClientNext]_clientVars, NEW s \in Sources, NEW i \in 1..Len(wire'[s])
    PROVE  LET packet == wire'[s][i]
           IN  \/ \E j \in 1..Len(wire[s]) : packet = wire[s][j]
               \/ attempts[packet.client][packet.attempt].sent < packet.place
<1> DEFINE S == {wire[s][j] : j \in 1..Len(wire[s])}
<1>1. /\ wire[s] \in Seq(S) /\ wire[s] \in Seq(Travelling(s))
      /\ DOMAIN wire = Sources /\ WireOK /\ Len(wire[s]) \in Nat
  BY DEF ClientTypeOK, WireOK
<1>2. CASE wire'[s] \in Seq(S)
  <2>1. wire'[s][i] \in S
    BY <1>2, ElementOfSeq
  <2> QED BY <2>1
<1>3. CASE \E c \in Clients : SendPacket(c)
  <2>1. PICK c \in Clients : SendPacket(c)
    BY <1>3
  <2> DEFINE new == [client |-> c, attempt |-> Attempt(c), place |-> Current(c).sent + 1,
                     port |-> PortsOf(Current(c))[Current(c).sent + 1], sent_at |-> clock]
  <2>2. wire' = [wire EXCEPT ![address[c]] = Append(@, new)]
    BY <2>1 DEF SendPacket
  <2>3. attempts[new.client][new.attempt].sent < new.place
    <3>1. <<c, Attempt(c)>> \in Knocks /\ AttemptsOK
      BY <2>1, SendKeeps DEF ClientTypeOK, AttemptsOK
    <3>2. attempts[c][Attempt(c)].sent \in Int
      BY <3>1, KnockFields
    <3> QED BY <3>2 DEF Current
  <2> HIDE DEF new, S
  <2>4. CASE address[c] = s
    <3>1. wire'[s] = Append(wire[s], new)
      BY <1>1, <2>2, <2>4
    <3>2. i \in 1..(Len(wire[s]) + 1)
      BY <1>1, <3>1
    <3>3. i \in 1..Len(wire[s]) \/ i = Len(wire[s]) + 1
      BY <1>1, <3>2
    <3>4. wire'[s][i] = new \/ \E j \in 1..Len(wire[s]) : wire'[s][i] = wire[s][j]
      BY <1>1, <3>1, <3>3
    <3> QED BY <2>3, <3>4
  <2>5. CASE address[c] # s
    <3>1. wire'[s] = wire[s]
      BY <1>1, <2>2, <2>5
    <3> QED BY <1>2, <1>1, <3>1
  <2> QED BY <2>4, <2>5
<1>4. CASE \E x \in Sources :
              Deliver(x) \/ \E j \in 1..Len(wire[x]) : Lose(x, j) \/ Duplicate(x, j) \/ Swap(x, j)
  <2>1. wire'[s] \in Seq(S)
    BY <1>1, <1>4, NetworkKeepsTypes
  <2> QED BY <1>2, <2>1
<1>5. CASE wire' = wire
  BY <1>1, <1>2, <1>5
<1>6. \/ wire' = wire
      \/ \E c \in Clients : SendPacket(c)
      \/ \E x \in Sources :
            Deliver(x) \/ \E j \in 1..Len(wire[x]) : Lose(x, j) \/ Duplicate(x, j) \/ Swap(x, j)
  <2>1. CASE UNCHANGED clientVars
    BY <2>1 DEF clientVars
  <2>2. CASE ClientNext
    BY <2>2 DEF ClientNext, StartKnock, GiveUp, PassTime
  <2> QED BY <2>1, <2>2
<1> QED BY <1>3, <1>4, <1>5, <1>6

UsedUp(k, U, time) ==
    /\ U \subseteq LastPortsSent(k)
    /\ OnlyStale(k[1], U, time)

LEMMA StaysUsedUp ==
    ASSUME ClientTypeOK, [ClientNext]_clientVars, NEW k, k[1] \in Sources,
           NEW U, NEW time, UsedUp(k, U, time)
    PROVE  UsedUp(k, U, time)'
<1>1. AttemptsOK /\ AttemptsOK' /\ Grows
  BY StepKeepsTypes DEF ClientTypeOK, AttemptsOK
<1>2. U \subseteq LastPortsSent(k) /\ U \subseteq LastPortsSent(k)'
  BY <1>1, GrowthKeeps DEF UsedUp
<1>3. ASSUME NEW i \in 1..Len(wire'[k[1]]),
             <<<<wire'[k[1]][i].client, wire'[k[1]][i].attempt>>, wire'[k[1]][i].place>> \in U
      PROVE  wire'[k[1]][i].sent_at <= time
  <2> DEFINE packet == wire'[k[1]][i]
             y == <<<<packet.client, packet.attempt>>, packet.place>>
  <2>1. ~(attempts[packet.client][packet.attempt].sent < packet.place)
    <3>1. y \in LastPortsSent(k)
      BY <1>2, <1>3
    <3>2. /\ y[1] \in Knocks /\ y[2] \in 1..n_ports /\ y[2] <= attempts[y[1][1]][y[1][2]].sent
      BY <3>1 DEF LastPortsSent
    <3>3. attempts[y[1][1]][y[1][2]].sent \in Int
      BY <1>1, <3>2, KnockFields
    <3>4. /\ packet.place \in 1..n_ports
          /\ packet.place <= attempts[packet.client][packet.attempt].sent
          /\ attempts[packet.client][packet.attempt].sent \in Int
      BY <3>2, <3>3
    <3> HIDE DEF packet
    <3> QED BY <3>4
  <2>2. PICK j \in 1..Len(wire[k[1]]) : packet = wire[k[1]][j]
    BY <2>1, NewPackets
  <2> QED BY <1>3, <2>2 DEF UsedUp, OnlyStale
<1>4. OnlyStale(k[1], U, time)'
  BY <1>3 DEF OnlyStale
<1> QED BY <1>2, <1>4 DEF UsedUp

\* The packet that completes a knock was not used up before.
LEMMA AcceptanceUsesUp ==
    ASSUME ClientInv, DELAY <= replay_ttl, NEW s \in Sources, Deliver(s),
           NEW w, NEW c, AcceptMatch(s, Head(wire[s]).port, w, c),
           NEW U, NEW last \in Int, UsedUp(<<s, w, c>>, U, last), clock - last > replay_ttl
    PROVE  \E y \in LastPortsSent(<<s, w, c>>) : y \notin U
<1> DEFINE packet == Head(wire[s])
           x == <<packet.client, packet.attempt>>
           y == <<x, packet.place>>
           k == <<s, w, c>>
<1>1. /\ ClientTypeOK /\ packet \in Travelling(s) /\ packet.port \in SentPorts(s)
      /\ wire[s] # <<>> /\ wire[s] \in Seq(Travelling(s))
  BY Delivery DEF ClientInv, ClientTypeOK, Deliver
<1>2. packet.port = derive_ports(w, c)[n_ports]
  BY <1>1, AcceptedIsSent
<1>3. /\ x \in Knocks /\ address[x[1]] = s /\ clock <= packet.sent_at + DELAY
      /\ packet.sent_at \in Int /\ packet.place \in 1..n_ports
      /\ packet.place <= attempts[x[1]][x[2]].sent
      /\ packet.port = PortsOf(attempts[x[1]][x[2]])[packet.place]
  <2> HIDE DEF packet
  <2> QED BY <1>1 DEF Travelling
<1>4. y \in LastPortsSent(k)
  <2> HIDE DEF x, packet
  <2> QED BY <1>2, <1>3 DEF LastPortsSent
<1>5. y \notin U
  <2> SUFFICES ASSUME y \in U PROVE FALSE
    OBVIOUS
  <2>1. 1 \in 1..Len(wire[s]) /\ packet = wire[s][1]
    BY <1>1
  <2>2. packet.sent_at <= last
    <3>1. OnlyStale(s, U, last)
      BY DEF UsedUp
    <3> HIDE DEF packet
    <3> QED BY <2>1, <3>1 DEF OnlyStale
  <2>3. clock \in Int /\ DELAY \in Int /\ replay_ttl \in Int
    BY <1>1, ClientAssumption, SessionAssumption DEF ClientTypeOK
  <2> HIDE DEF packet
  <2> QED BY <1>3, <2>2, <2>3
<1> QED BY <1>4, <1>5

LEMMA LastPortsAreFinite ==
    ASSUME IsFiniteSet(Knocks), NEW k
    PROVE  IsFiniteSet(LastPortsSent(k))
<1>1. IsFiniteSet(1..n_ports)
  BY FS_Interval, DerivationAssumption
<1>2. IsFiniteSet(Knocks \X (1..n_ports))
  BY <1>1, FS_Product
<1> QED BY <1>2, FS_Subset DEF LastPortsSent

LEMMA KnocksStayUsedUp ==
    ASSUME ClientInv, [ClientNext]_clientVars
    PROVE  AcceptedUsedUp'
<1>1. /\ IInv /\ IInv' /\ ClientTypeOK /\ ClientTypeOK' /\ IsFiniteSet(Knocks) /\ AcceptedUsedUp
      /\ clock \in Int /\ replay_ttl \in Nat
  BY StepKeepsTypes, TrackerKept, SessionAssumption DEF ClientInv, ClientTypeOK
<1>2. /\ DOMAIN accepted \subseteq Code /\ DOMAIN accepted' \subseteq Code
      /\ \A k \in DOMAIN accepted : accepted[k] \in Seq(Nat) /\ Len(accepted[k]) > 0
      /\ \A k \in DOMAIN accepted' : accepted'[k] \in Seq(Nat) /\ Len(accepted'[k]) > 0
  BY <1>1 DEF IInv, TypeOK, CacheInv
<1> SUFFICES ASSUME DELAY <= replay_ttl, NEW k \in DOMAIN accepted'
             PROVE  \E U, time : /\ Len(accepted'[k]) <= Cardinality(U) /\ UsedUp(k, U, time)'
                                 /\ time = accepted'[k][Len(accepted'[k])]
  BY DEF AcceptedUsedUp, UsedUp
<1>3. k[1] \in Sources
  BY <1>2 DEF Code
\* The times of the code before this step.
<1>4. ASSUME k \in DOMAIN accepted
      PROVE  \E U, time : /\ Len(accepted[k]) <= Cardinality(U) /\ UsedUp(k, U, time)
                          /\ time = accepted[k][Len(accepted[k])]
  BY <1>1, <1>4 DEF AcceptedUsedUp, UsedUp
<1>5. CASE k \in DOMAIN accepted /\ accepted'[k] = accepted[k]
  <2>1. PICK U, time : /\ Len(accepted[k]) <= Cardinality(U) /\ UsedUp(k, U, time)
                       /\ time = accepted[k][Len(accepted[k])]
    BY <1>4, <1>5
  <2>2. UsedUp(k, U, time)'
    BY <1>1, <1>3, <2>1, StaysUsedUp
  <2> QED BY <1>5, <2>1, <2>2
<1>6. CASE ~(k \in DOMAIN accepted /\ accepted'[k] = accepted[k])
  <2>1. PICK s \in Sources : Deliver(s)
    BY <1>6, OnlyDeliveries
  <2> DEFINE p == Head(wire[s]).port
             n == Len(Times(k))
  <2>2. p \in SentPorts(s) /\ on_packet(s, p, clock) /\ clock' = clock
    BY <1>1, <2>1, Delivery
  <2>3. PICK w, c : AcceptMatch(s, p, w, c)
    BY <1>6, <2>2, PacketAccepts
  <2>4. /\ k = <<s, w, c>> /\ accepted'[k] = Append(Times(k), clock)
    BY <1>6, <2>3 DEF AcceptMatch, Put
  <2>5. /\ Times(k) \in Seq(Nat) /\ n \in Nat /\ clock \in Nat
        /\ Len(accepted'[k]) = n + 1 /\ accepted'[k][n + 1] = clock
        /\ \A i \in 1..n : accepted'[k][i] = Times(k)[i] /\ Times(k)[i] \in Nat
    <3>1. Times(k) \in Seq(Nat) /\ clock \in Nat
      BY <1>1, <1>2 DEF Times, IInv, TypeOK
    <3>2. /\ n \in Nat /\ Len(Append(Times(k), clock)) = n + 1
          /\ Append(Times(k), clock)[n + 1] = clock
          /\ \A i \in 1..n : Append(Times(k), clock)[i] = Times(k)[i] /\ Times(k)[i] \in Nat
      BY <3>1, AppendProperties, ElementOfSeq
    <3> HIDE DEF n
    <3> QED BY <2>4, <3>1, <3>2
  <2>6. PICK U, last : /\ n <= Cardinality(U) /\ UsedUp(k, U, last)
                       /\ last \in Int /\ clock - last > replay_ttl
    <3>1. CASE k \in DOMAIN accepted
      <4>1. PICK U, time : /\ Len(accepted[k]) <= Cardinality(U) /\ UsedUp(k, U, time)
                           /\ time = accepted[k][Len(accepted[k])]
        BY <1>4, <3>1
      <4>2. Times(k) = accepted[k] /\ n > 0
        BY <1>2, <3>1 DEF Times
      <4>3. n \in 1..(n + 1) /\ n + 1 \in 1..(n + 1) /\ n < n + 1 /\ n \in 1..n
        BY <2>5, <4>2
      <4>4. accepted'[k][n + 1] - accepted'[k][n] > replay_ttl
        BY <1>1, <2>5, <4>3 DEF IInv, ReuseOnlyAfterTTL
      <4>5. accepted'[k][n] = time /\ time \in Nat
        BY <2>5, <4>1, <4>2, <4>3
      <4> QED BY <2>5, <4>1, <4>2, <4>4, <4>5
    <3>2. CASE k \notin DOMAIN accepted
      <4>1. n = 0
        BY <3>2 DEF Times
      <4>2. UsedUp(k, {}, clock - replay_ttl - 1) /\ Cardinality({}) = 0
        BY FS_EmptySet DEF UsedUp, OnlyStale
      <4>3. clock - replay_ttl - 1 \in Int /\ clock - (clock - replay_ttl - 1) > replay_ttl
        BY <1>1
      <4> QED BY <4>1, <4>2, <4>3
    <3> QED BY <3>1, <3>2
  <2>7. PICK x \in LastPortsSent(k) : x \notin U
    BY <2>1, <2>3, <2>4, <2>6, AcceptanceUsesUp
  <2> HIDE DEF n
  <2>8. Cardinality(U \cup {x}) = Cardinality(U) + 1 /\ Cardinality(U) \in Nat
    <3>1. U \in SUBSET LastPortsSent(k)
      BY <2>6 DEF UsedUp
    <3>2. IsFiniteSet(U)
      BY <1>1, <3>1, LastPortsAreFinite, FS_Subset
    <3> QED BY <2>7, <3>2, FS_AddElement, FS_CardinalityType
  <2>9. PICK time : time = clock
    OBVIOUS
  <2>10. UsedUp(k, U \cup {x}, time)
    <3>1. ASSUME NEW i \in 1..Len(wire[k[1]]) PROVE wire[k[1]][i].sent_at <= clock
      <4>1. wire[k[1]] \in Seq(Travelling(k[1]))
        BY <1>1, <1>3 DEF ClientTypeOK
      <4>2. wire[k[1]][i] \in Travelling(k[1])
        BY <4>1, ElementOfSeq
      <4> QED BY <4>2 DEF Travelling
    <3> QED BY <2>6, <2>7, <2>9, <3>1 DEF UsedUp, OnlyStale
  <2>11. UsedUp(k, U \cup {x}, time)'
    BY <1>1, <1>3, <2>10, StaysUsedUp
  <2>12. Len(accepted'[k]) <= Cardinality(U \cup {x})
    BY <2>5, <2>6, <2>8
  <2>13. time = accepted'[k][Len(accepted'[k])]
    BY <2>5, <2>9
  <2> QED BY <2>11, <2>12, <2>13
<1> QED BY <1>5, <1>6

-----------------------------------------------------------------------------
(***************************************************************************)
(* The inductive invariant holds of clients, network and tracker.          *)
(***************************************************************************)
THEOREM ClientInvariance == ClientSpec => []ClientInv
<1>1. ClientInit => ClientInv
  <2> SUFFICES ASSUME ClientInit PROVE ClientInv
    OBVIOUS
  <2>1. /\ Init /\ attempts = [c \in Clients |-> <<>>] /\ wake = [c \in Clients |-> -1]
        /\ wire = [s \in Sources |-> <<>>] /\ accepted = EmptyMap /\ candidates = EmptyMap
        /\ clock = BOOT
    BY DEF ClientInit, Init
  <2>2. IInv
    BY <2>1, InitEstablishesInvariant
  <2>3. Knocks = {}
    BY <2>1 DEF Knocks, Attempt
  <2>4. ClientTypeOK
    <3>1. clock \in BOOT..MAX_CLOCK /\ -1 \in Int
      BY <2>1, SessionAssumption
    <3>2. IsFiniteSet(Knocks)
      BY <2>3, FS_EmptySet
    <3>3. attempts \in [Clients -> Seq(Knock)] /\ wake \in [Clients -> Int]
      BY <2>1, <3>1
    <3>4. \A c \in Clients : ~Sending(c)
      BY <2>1 DEF Sending
    <3>5. DOMAIN wire = Sources /\ \A s \in Sources : wire[s] \in Seq(Travelling(s))
      BY <2>1
    <3> QED BY <3>1, <3>2, <3>3, <3>4, <3>5 DEF ClientTypeOK
  <2>5. CandidatesWereSent /\ AcceptedWasSent /\ AcceptedUsedUp
    BY <2>1 DEF EmptyMap, CandidatesWereSent, AcceptedWasSent, AcceptedUsedUp
  <2> QED BY <2>2, <2>4, <2>5 DEF ClientInv
<1>2. ClientInv /\ [ClientNext]_clientVars => ClientInv'
  BY StepKeepsTypes, TrackerKept, CandidatesStaySent, AcceptedStaysSent, KnocksStayUsedUp
     DEF ClientInv
<1> QED BY <1>1, <1>2, PTL DEF ClientSpec

(***************************************************************************)
(* What the tracker accepts was sent: for each port of an accepted code    *)
(* there is a packet that a client at that address has sent to it,         *)
(* whatever the network has lost, duplicated or swapped, however many      *)
(* knocks were mixed and whatever ports they share.                        *)
(***************************************************************************)
THEOREM AcceptancesWereSent == ClientSpec => []AcceptedWasSent
<1>1. ClientInv => AcceptedWasSent
  BY DEF ClientInv
<1> QED BY <1>1, ClientInvariance, PTL

(***************************************************************************)
(* No code is accepted more often than clients of its address have sent a  *)
(* packet to its last port: each acceptance uses one up.                   *)
(***************************************************************************)
THEOREM KnocksAreNotMultiplied == ClientSpec => []OncePerSend
<1>1. ClientInv => OncePerSend
  <2> SUFFICES ASSUME ClientInv, DELAY <= replay_ttl, NEW k \in DOMAIN accepted
               PROVE  Len(accepted[k]) <= Cardinality(LastPortsSent(k))
    BY DEF OncePerSend
  <2>1. PICK U \in SUBSET LastPortsSent(k) : Len(accepted[k]) <= Cardinality(U)
    BY DEF ClientInv, AcceptedUsedUp
  <2>2. IsFiniteSet(LastPortsSent(k))
    BY LastPortsAreFinite DEF ClientInv, ClientTypeOK
  <2>3. IsFiniteSet(U) /\ Cardinality(U) <= Cardinality(LastPortsSent(k))
    BY <2>1, <2>2, FS_Subset
  <2>4. /\ Cardinality(U) \in Int /\ Cardinality(LastPortsSent(k)) \in Int
        /\ Len(accepted[k]) \in Int
    BY <2>2, <2>3, FS_CardinalityType DEF ClientInv, IInv, TypeOK
  <2> QED BY <2>1, <2>3, <2>4
<1> QED BY <1>1, ClientInvariance, PTL

-----------------------------------------------------------------------------
(***************************************************************************)
(* A knock that nobody disturbs.  Packets n + 1 to m of the a-th knock of  *)
(* c wait in the queue q, in their order; at[i] is where the i-th waits,   *)
(* and time[i] is when it was sent.                                        *)
(***************************************************************************)
IsOf(packet, c, a) == packet.client = c /\ packet.attempt = a

Lined(q, c, a, ports, n, m, at, time) ==
    /\ at \in [(n + 1)..m -> 1..Len(q)]
    /\ \A i \in (n + 1)..m :
          IsOf(q[at[i]], c, a) /\ q[at[i]].port = ports[i] /\ q[at[i]].sent_at = time[i]
    /\ \A i, j \in (n + 1)..m : i < j => at[i] < at[j]
    /\ \A p \in 1..Len(q) : IsOf(q[p], c, a) => \E i \in (n + 1)..m : at[i] = p

\* f moves the packets of the knock from q to new in their order.
Moves(q, new, c, a, f) ==
    /\ \A p \in 1..Len(q) : IsOf(q[p], c, a) => f[p] \in 1..Len(new) /\ new[f[p]] = q[p]
    /\ \A p, r \in 1..Len(q) :
          IsOf(q[p], c, a) /\ IsOf(q[r], c, a) /\ p < r => f[p] < f[r]
    /\ \A r \in 1..Len(new) :
          IsOf(new[r], c, a) => \E p \in 1..Len(q) : f[p] = r /\ IsOf(q[p], c, a)

Survives(q, new, c, a) == \E f : Moves(q, new, c, a, f)

LEMMA LineMoves ==
    ASSUME NEW q, NEW new, NEW c, NEW a, NEW ports, NEW n \in Int, NEW m \in Int, NEW at, NEW time,
           Lined(q, c, a, ports, n, m, at, time), Survives(q, new, c, a)
    PROVE  \E moved : Lined(new, c, a, ports, n, m, moved, time)
<1>1. PICK f : Moves(q, new, c, a, f)
  BY DEF Survives
<1> DEFINE moved == [i \in (n + 1)..m |-> f[at[i]]]
<1>2. ASSUME NEW i \in (n + 1)..m
      PROVE  /\ at[i] \in 1..Len(q) /\ moved[i] = f[at[i]] /\ moved[i] \in 1..Len(new)
             /\ new[moved[i]] = q[at[i]] /\ IsOf(q[at[i]], c, a)
  BY <1>1 DEF Lined, Moves
<1>3. moved \in [(n + 1)..m -> 1..Len(new)]
  BY <1>2
<1> HIDE DEF moved
<1>4. \A i \in (n + 1)..m :
         IsOf(new[moved[i]], c, a) /\ new[moved[i]].port = ports[i] /\ new[moved[i]].sent_at = time[i]
  BY <1>2 DEF Lined
<1>5. \A i, j \in (n + 1)..m : i < j => moved[i] < moved[j]
  <2> SUFFICES ASSUME NEW i \in (n + 1)..m, NEW j \in (n + 1)..m, i < j
               PROVE  moved[i] < moved[j]
    OBVIOUS
  <2>1. at[i] < at[j]
    BY DEF Lined
  <2>2. f[at[i]] < f[at[j]]
    BY <1>1, <1>2, <2>1 DEF Moves
  <2> QED BY <1>2, <2>2
<1>6. \A r \in 1..Len(new) : IsOf(new[r], c, a) => \E i \in (n + 1)..m : moved[i] = r
  <2> SUFFICES ASSUME NEW r \in 1..Len(new), IsOf(new[r], c, a)
               PROVE  \E i \in (n + 1)..m : moved[i] = r
    OBVIOUS
  <2>1. PICK p \in 1..Len(q) : f[p] = r /\ IsOf(q[p], c, a)
    BY <1>1 DEF Moves
  <2>2. PICK i \in (n + 1)..m : at[i] = p
    BY <2>1 DEF Lined
  <2> QED BY <1>2, <2>1, <2>2
<1> QED BY <1>3, <1>4, <1>5, <1>6 DEF Lined

LEMMA SameSurvives ==
    ASSUME NEW S, NEW q \in Seq(S), NEW c, NEW a
    PROVE  Survives(q, q, c, a)
<1> DEFINE f == [p \in 1..Len(q) |-> p]
<1>1. Len(q) \in Nat
  OBVIOUS
<1>2. \A p \in 1..Len(q) : f[p] = p
  OBVIOUS
<1> HIDE DEF f
<1>3. Moves(q, q, c, a, f)
  BY <1>1, <1>2 DEF Moves
<1> QED BY <1>3 DEF Survives

LEMMA AppendSurvives ==
    ASSUME NEW S, NEW q \in Seq(S), NEW e \in S, NEW c, NEW a, ~IsOf(e, c, a)
    PROVE  Survives(q, Append(q, e), c, a)
<1> DEFINE f == [p \in 1..Len(q) |-> p]
<1>1. PICK new : new = Append(q, e)
  OBVIOUS
<1>2. /\ Len(q) \in Nat /\ Len(new) = Len(q) + 1 /\ new[Len(q) + 1] = e
      /\ \A p \in 1..Len(q) : new[p] = q[p]
  BY <1>1, AppendProperties
<1>3. \A p \in 1..Len(q) : f[p] = p
  OBVIOUS
<1> HIDE DEF f
<1>4. Moves(q, new, c, a, f)
  <2>1. \A r \in 1..Len(new) : r \in 1..Len(q) \/ r = Len(q) + 1
    BY <1>2
  <2>2. \A p \in 1..Len(q) : p \in 1..Len(new)
    BY <1>2
  <2> QED BY <1>2, <1>3, <2>1, <2>2 DEF Moves
<1> QED BY <1>1, <1>4 DEF Survives

LEMMA TailSurvives ==
    ASSUME NEW S, NEW q \in Seq(S), q # <<>>, NEW c, NEW a, ~IsOf(Head(q), c, a)
    PROVE  Survives(q, Tail(q), c, a)
<1> DEFINE f == [p \in 1..Len(q) |-> p - 1]
<1>1. PICK new : new = Tail(q)
  OBVIOUS
<1>2. /\ Len(q) \in Nat \ {0} /\ Len(new) = Len(q) - 1 /\ q[1] = Head(q)
      /\ \A r \in 1..Len(new) : new[r] = q[r + 1]
  BY <1>1, HeadTailProperties
<1>3. \A p \in 1..Len(q) : f[p] = p - 1
  OBVIOUS
<1> HIDE DEF f
<1>4. Moves(q, new, c, a, f)
  <2>1. ASSUME NEW p \in 1..Len(q), IsOf(q[p], c, a)
        PROVE  f[p] \in 1..Len(new) /\ new[f[p]] = q[p]
    <3>1. p # 1
      BY <1>2, <2>1
    <3>2. PICK r : r = p - 1
      OBVIOUS
    <3>3. r \in 1..Len(new) /\ r + 1 = p
      BY <1>2, <3>1, <3>2
    <3> QED BY <1>2, <1>3, <3>2, <3>3
  <2>2. \A p, r \in 1..Len(q) : p < r => f[p] < f[r]
    BY <1>3
  <2>3. ASSUME NEW r \in 1..Len(new), IsOf(new[r], c, a)
        PROVE  \E p \in 1..Len(q) : f[p] = r /\ IsOf(q[p], c, a)
    <3>1. PICK p : p = r + 1
      OBVIOUS
    <3>2. p \in 1..Len(q) /\ p - 1 = r /\ new[r] = q[p]
      BY <1>2, <3>1
    <3> QED BY <1>3, <2>3, <3>2
  <2> QED BY <2>1, <2>2, <2>3 DEF Moves
<1> QED BY <1>1, <1>4 DEF Survives

LEMMA RemoveSurvives ==
    ASSUME NEW S, NEW q \in Seq(S), NEW i \in 1..Len(q), NEW c, NEW a, ~IsOf(q[i], c, a)
    PROVE  Survives(q, RemoveAt(q, i), c, a)
<1> DEFINE f == [p \in 1..Len(q) |-> IF p < i THEN p ELSE p - 1]
<1>1. PICK new, left, right : /\ new = RemoveAt(q, i) /\ new = left \o right
                              /\ left = SubSeq(q, 1, i - 1) /\ right = SubSeq(q, i + 1, Len(q))
  BY DEF RemoveAt
<1>2. Len(q) \in Nat /\ i \in Nat /\ 1 <= i /\ i <= Len(q) /\ \A p \in 1..Len(q) : q[p] \in S
  BY ElementOfSeq
<1>3. /\ left \in Seq(S) /\ Len(left) = i - 1
      /\ \A r \in 1..(i - 1) : left[r] = q[r]
      /\ right \in Seq(S) /\ Len(right) = Len(q) - i
      /\ \A r \in 1..(Len(q) - i) : right[r] = q[r + i]
  <2>1. \A r \in (i + 1)..Len(q) : q[r] \in S
    BY <1>2
  <2> QED BY <1>1, <1>2, <2>1, SubSeqProperties
<1>4. /\ Len(new) = Len(q) - 1
      /\ \A r \in 1..(i - 1) : new[r] = q[r]
      /\ \A r \in i..(Len(q) - 1) : new[r] = q[r + 1]
  <2>1. /\ Len(new) = Len(left) + Len(right)
        /\ \A r \in 1..(Len(left) + Len(right)) :
              new[r] = IF r <= Len(left) THEN left[r] ELSE right[r - Len(left)]
    <3>1. new = left \o right
      BY <1>1
    <3>2. left \in Seq(S) /\ right \in Seq(S)
      BY <1>3
    <3> QED BY ONLY <3>1, <3>2, ConcatProperties
  <2>2. Len(new) = Len(q) - 1
    BY <1>2, <1>3, <2>1
  <2>3. ASSUME NEW r \in 1..(i - 1) PROVE new[r] = q[r]
    BY <1>2, <1>3, <2>1
  <2>4. ASSUME NEW r \in i..(Len(q) - 1) PROVE new[r] = q[r + 1]
    <3>1. PICK x : x = r - (i - 1)
      OBVIOUS
    <3>2. x \in 1..(Len(q) - i) /\ x + i = r + 1 /\ r \in 1..(Len(left) + Len(right)) /\ ~(r <= Len(left))
      BY <1>2, <1>3, <3>1
    <3>3. new[r] = right[x]
      BY <1>3, <2>1, <3>1, <3>2
    <3> QED BY <1>3, <3>2, <3>3
  <2> QED BY <2>2, <2>3, <2>4
<1>5. \A p \in 1..Len(q) : f[p] = IF p < i THEN p ELSE p - 1
  OBVIOUS
<1> HIDE DEF f
<1>6. ASSUME NEW p \in 1..Len(q), IsOf(q[p], c, a)
      PROVE  f[p] \in 1..Len(new) /\ new[f[p]] = q[p] /\ p # i
  <2>1. p # i
    BY <1>6
  <2>2. CASE p < i
    BY <1>2, <1>4, <1>5, <2>2
  <2>3. CASE ~(p < i)
    <3>1. PICK r : r = p - 1
      OBVIOUS
    <3>2. r \in i..(Len(q) - 1) /\ r + 1 = p /\ r \in 1..Len(new) /\ f[p] = r
      BY <1>2, <1>4, <1>5, <2>1, <2>3, <3>1
    <3> QED BY <1>4, <2>1, <3>2
  <2> QED BY <2>1, <2>2, <2>3
<1>7. ASSUME NEW p \in 1..Len(q), NEW r \in 1..Len(q), IsOf(q[p], c, a), IsOf(q[r], c, a), p < r
      PROVE  f[p] < f[r]
  BY <1>2, <1>5, <1>6, <1>7
<1>8. ASSUME NEW r \in 1..Len(new), IsOf(new[r], c, a)
      PROVE  \E p \in 1..Len(q) : f[p] = r /\ IsOf(q[p], c, a)
  <2>1. CASE r < i
    BY <1>2, <1>4, <1>5, <1>8, <2>1
  <2>2. CASE ~(r < i)
    <3>1. PICK p : p = r + 1
      OBVIOUS
    <3>2. r \in i..(Len(q) - 1) /\ p \in 1..Len(q) /\ ~(p < i) /\ p - 1 = r
      BY <1>2, <1>4, <2>2, <3>1
    <3> QED BY <1>4, <1>5, <1>8, <3>1, <3>2
  <2> QED BY <2>1, <2>2
<1>9. Moves(q, new, c, a, f)
  BY <1>6, <1>7, <1>8 DEF Moves
<1> QED BY <1>1, <1>9 DEF Survives

LEMMA InsertSurvives ==
    ASSUME NEW S, NEW q \in Seq(S), NEW j \in 1..(Len(q) + 1), NEW e \in S,
           NEW c, NEW a, ~IsOf(e, c, a)
    PROVE  Survives(q, InsertAt(q, j, e), c, a)
<1> DEFINE f == [p \in 1..Len(q) |-> IF p < j THEN p ELSE p + 1]
<1>1. PICK new, front, left, right :
         /\ new = InsertAt(q, j, e) /\ new = front \o right /\ front = left \o <<e>>
         /\ left = SubSeq(q, 1, j - 1) /\ right = SubSeq(q, j, Len(q))
  BY DEF InsertAt
<1>2. /\ Len(q) \in Nat /\ j \in Nat /\ 1 <= j /\ j <= Len(q) + 1
      /\ \A p \in 1..Len(q) : q[p] \in S
  BY ElementOfSeq
<1>3. /\ left \in Seq(S) /\ Len(left) = j - 1
      /\ \A r \in 1..(j - 1) : left[r] = q[r]
  BY <1>1, <1>2, SubSeqProperties
<1>4. /\ right \in Seq(S) /\ Len(right) = Len(q) - j + 1
      /\ \A r \in 1..(Len(q) - j + 1) : right[r] = q[j + r - 1]
  <2>1. \A r \in j..Len(q) : q[r] \in S
    BY <1>2
  <2> QED BY <1>1, <1>2, <2>1, SubSeqProperties
<1>5. /\ front \in Seq(S) /\ Len(front) = j
      /\ \A r \in 1..(j - 1) : front[r] = q[r]
      /\ front[j] = e
  <2>1. front = Append(left, e)
    BY <1>1, <1>3, AppendIsConcat
  <2> QED BY <1>2, <1>3, <2>1, AppendProperties
<1>6. /\ Len(new) = Len(q) + 1
      /\ \A r \in 1..(j - 1) : new[r] = q[r]
      /\ new[j] = e
      /\ \A r \in (j + 1)..(Len(q) + 1) : new[r] = q[r - 1]
  <2>1. /\ Len(new) = Len(front) + Len(right)
        /\ \A r \in 1..(Len(front) + Len(right)) :
              new[r] = IF r <= Len(front) THEN front[r] ELSE right[r - Len(front)]
    <3>1. new = front \o right
      BY <1>1
    <3>2. front \in Seq(S) /\ right \in Seq(S)
      BY <1>4, <1>5
    <3> QED BY ONLY <3>1, <3>2, ConcatProperties
  <2>2. Len(new) = Len(q) + 1
    BY <1>2, <1>4, <1>5, <2>1
  <2>3. ASSUME NEW r \in 1..(j - 1) PROVE new[r] = q[r]
    BY <1>2, <1>4, <1>5, <2>1
  <2>4. new[j] = e
    BY <1>2, <1>4, <1>5, <2>1
  <2>5. ASSUME NEW r \in (j + 1)..(Len(q) + 1) PROVE new[r] = q[r - 1]
    <3>1. PICK x, y : x = r - j /\ y = r - 1
      OBVIOUS
    <3>2. /\ x \in 1..(Len(q) - j + 1) /\ j + x - 1 = y
          /\ r \in 1..(Len(front) + Len(right)) /\ ~(r <= Len(front))
      BY <1>2, <1>4, <1>5, <3>1
    <3>3. new[r] = right[x]
      BY <1>5, <2>1, <3>1, <3>2
    <3>4. right[x] = q[y]
      BY <1>4, <3>2
    <3> QED BY <3>1, <3>3, <3>4
  <2> QED BY <2>2, <2>3, <2>4, <2>5
<1>7. \A p \in 1..Len(q) : f[p] = IF p < j THEN p ELSE p + 1
  OBVIOUS
<1> HIDE DEF f
<1>8. ASSUME NEW p \in 1..Len(q)
      PROVE  f[p] \in 1..Len(new) /\ new[f[p]] = q[p]
  <2>1. CASE p < j
    BY <1>2, <1>6, <1>7, <2>1
  <2>2. CASE ~(p < j)
    <3>1. PICK r : r = p + 1
      OBVIOUS
    <3>2. r \in (j + 1)..(Len(q) + 1) /\ r - 1 = p /\ r \in 1..Len(new) /\ f[p] = r
      BY <1>2, <1>6, <1>7, <2>2, <3>1
    <3> QED BY <1>6, <3>2
  <2> QED BY <2>1, <2>2
<1>9. \A p, r \in 1..Len(q) : p < r => f[p] < f[r]
  BY <1>2, <1>7
<1>10. ASSUME NEW r \in 1..Len(new), IsOf(new[r], c, a)
       PROVE  \E p \in 1..Len(q) : f[p] = r /\ IsOf(q[p], c, a)
  <2>1. r # j
    BY <1>6, <1>10
  <2>2. CASE r < j
    BY <1>2, <1>6, <1>7, <1>10, <2>2
  <2>3. CASE ~(r < j)
    <3>1. PICK p : p = r - 1
      OBVIOUS
    <3>2. r \in (j + 1)..(Len(q) + 1) /\ p \in 1..Len(q) /\ ~(p < j) /\ p + 1 = r
      BY <1>2, <1>6, <2>1, <2>3, <3>1
    <3> QED BY <1>6, <1>7, <1>10, <3>1, <3>2
  <2> QED BY <2>2, <2>3
<1>11. Moves(q, new, c, a, f)
  BY <1>8, <1>9, <1>10 DEF Moves
<1> QED BY <1>1, <1>11 DEF Survives

LEMMA SwapSurvives ==
    ASSUME NEW S, NEW q \in Seq(S), NEW i \in 1..Len(q), i < Len(q), NEW c, NEW a,
           ~IsOf(q[i], c, a), ~IsOf(q[i + 1], c, a)
    PROVE  Survives(q, [q EXCEPT ![i] = q[i + 1], ![i + 1] = q[i]], c, a)
<1> DEFINE f == [p \in 1..Len(q) |-> p]
           half == [q EXCEPT ![i] = q[i + 1]]
<1>1. PICK new, k : /\ new = [q EXCEPT ![i] = q[i + 1], ![i + 1] = q[i]]
                    /\ new = [half EXCEPT ![i + 1] = q[i]]
                    /\ k = i + 1
  OBVIOUS
<1>2. Len(q) \in Nat /\ k \in 1..Len(q) /\ q[i] \in S /\ q[k] \in S
  BY <1>1, ElementOfSeq
<1>3. half \in Seq(S) /\ Len(half) = Len(q) /\ \A p \in 1..Len(q) : p # i => half[p] = q[p]
  BY <1>1, <1>2, ExceptSeq
<1>4. half[i] = q[k]
  BY <1>1, <1>2, ExceptSeq
<1> HIDE DEF half
<1>5. /\ Len(new) = Len(q) /\ new[k] = q[i] /\ new[i] = q[k]
      /\ \A p \in 1..Len(q) : p # i /\ p # k => new[p] = q[p]
  <2>1. new = [half EXCEPT ![k] = q[i]] /\ k \in 1..Len(half) /\ k # i
    <3>1. new = [half EXCEPT ![i + 1] = q[i]] /\ k = i + 1
      BY <1>1
    <3>2. k \in 1..Len(half) /\ k # i
      BY <1>2, <1>3, <3>1
    <3>3. new = [half EXCEPT ![k] = q[i]]
      BY ONLY <3>1
    <3> QED BY <3>2, <3>3
  <2>2. /\ Len([half EXCEPT ![k] = q[i]]) = Len(half)
        /\ \A p \in 1..Len(half) : [half EXCEPT ![k] = q[i]][p] = IF p = k THEN q[i] ELSE half[p]
    BY <1>2, <1>3, <2>1, ExceptSeq
  <2>3. Len(new) = Len(half) /\ \A p \in 1..Len(half) : new[p] = IF p = k THEN q[i] ELSE half[p]
    BY ONLY <2>1, <2>2
  <2> QED BY <1>2, <1>3, <1>4, <2>1, <2>3
<1>6. \A p \in 1..Len(q) : f[p] = p
  OBVIOUS
<1> HIDE DEF f
<1>7. \A p \in 1..Len(q) : IsOf(q[p], c, a) \/ IsOf(new[p], c, a) => new[p] = q[p]
  <2>1. ~IsOf(q[i], c, a) /\ ~IsOf(q[k], c, a)
    BY <1>1
  <2> QED BY <1>5, <2>1
<1>8. Moves(q, new, c, a, f)
  BY <1>2, <1>5, <1>6, <1>7 DEF Moves
<1> QED BY <1>1, <1>8 DEF Survives

\* A fault that does not disturb c moves the packets of c at most.
LEMMA FaultSurvives ==
    ASSUME WireOK, NEW s \in Sources, NEW i \in 1..Len(wire[s]), NEW c, NEW a,
           Lose(s, i) \/ Duplicate(s, i) \/ Swap(s, i), c \notin spoiled'
    PROVE  /\ UNCHANGED <<vars, attempts, wake, arrived>> /\ c \notin spoiled
           /\ \A x \in Sources : Survives(wire[x], wire'[x], c, a)
<1>1. wire[s] \in Seq(Travelling(s)) /\ DOMAIN wire = Sources
  BY DEF WireOK
<1>2. PICK packets, hit : Fault(s, packets, hit) /\ Survives(wire[s], packets, c, a)
  <2>1. CASE Lose(s, i)
    <3>1. Fault(s, RemoveAt(wire[s], i), {wire[s][i]})
      BY <2>1 DEF Lose
    <3>2. ~IsOf(wire[s][i], c, a)
      BY <3>1 DEF Fault, IsOf
    <3>3. Survives(wire[s], RemoveAt(wire[s], i), c, a)
      BY <1>1, <3>2, RemoveSurvives
    <3> QED BY <3>1, <3>3
  <2>2. CASE Duplicate(s, i)
    <3>1. PICK j \in i..Len(wire[s]) :
             Fault(s, InsertAt(wire[s], j + 1, wire[s][i]), {wire[s][i]})
      BY <2>2 DEF Duplicate
    <3>2. ~IsOf(wire[s][i], c, a)
      BY <3>1 DEF Fault, IsOf
    <3>3. wire[s][i] \in Travelling(s) /\ j + 1 \in 1..(Len(wire[s]) + 1)
      BY <1>1, ElementOfSeq
    <3>4. Survives(wire[s], InsertAt(wire[s], j + 1, wire[s][i]), c, a)
      BY <1>1, <3>2, <3>3, InsertSurvives
    <3> QED BY <3>1, <3>4
  <2>3. CASE Swap(s, i)
    <3> DEFINE swapped == [wire[s] EXCEPT ![i] = wire[s][i + 1], ![i + 1] = wire[s][i]]
    <3>1. Fault(s, swapped, {wire[s][i], wire[s][i + 1]}) /\ i < Len(wire[s])
      BY <2>3 DEF Swap
    <3>2. ~IsOf(wire[s][i], c, a) /\ ~IsOf(wire[s][i + 1], c, a)
      BY <3>1 DEF Fault, IsOf
    <3>3. Survives(wire[s], swapped, c, a)
      BY <1>1, <3>1, <3>2, SwapSurvives
    <3> QED BY <3>1, <3>3
  <2> QED BY <2>1, <2>2, <2>3
<1>3. /\ UNCHANGED <<vars, attempts, wake, arrived>> /\ c \notin spoiled
      /\ wire' = [wire EXCEPT ![s] = packets]
  BY <1>2 DEF Fault
<1>4. ASSUME NEW x \in Sources
      PROVE  Survives(wire[x], wire'[x], c, a)
  <2>1. CASE x = s
    BY <1>1, <1>2, <1>3, <2>1
  <2>2. CASE x # s
    <3>1. wire'[x] = wire[x] /\ wire[x] \in Seq(Travelling(x))
      BY <1>1, <1>3, <2>2 DEF WireOK
    <3> QED BY <3>1, SameSurvives
  <2> QED BY <2>1, <2>2
<1> QED BY <1>3, <1>4

-----------------------------------------------------------------------------
(***************************************************************************)
(* The invariant behind GetsThrough.  The m packets of the present knock   *)
(* were sent at most a pause and an oversleeping apart, the first at most  *)
(* an oversleeping after its window was computed; the next is due in time; *)
(* those that have not arrived wait in their order; and those that have    *)
(* are the candidate of the address, which is anchored near the window.    *)
(***************************************************************************)
Schedule(w, c, m, time) ==
    /\ time \in [1..m -> Int]
    /\ \A i \in 1..(m - 1) : time[i + 1] <= time[i] + knock_interval + SLACK
    /\ m > 0 => \E t \in (time[1] - SLACK)..time[1] :
                   0 <= t + skew[c] /\ w = time_counter(t + skew[c])

DueInTime(c, time) ==
    LET m == Current(c).sent
    IN  Sending(c) =>
           /\ clock <= wake[c] + SLACK
           /\ m = 0 => /\ wake[c] <= clock /\ 0 <= wake[c] + skew[c]
                       /\ Current(c).window = time_counter(wake[c] + skew[c])
           /\ m > 0 => wake[c] <= time[m] + knock_interval

\* cand holds the first n packets of a knock.
HoldsFirst(cand, knock, n, time) ==
    /\ Len(cand.ports) = n /\ \A i \in 1..n : cand.ports[i] = PortsOf(knock)[i]
    /\ <<knock.window, knock.channel>> \in Tried(cand)
    /\ time[n] <= cand.last_seen_mono

HasMore(c) == arrived[c] < Current(c).sent \/ Sending(c)

OnTrack(c) ==
    /\ ValidArguments /\ arrived[c] \in 0..Current(c).sent
    /\ \E at, time :
          /\ Lined(wire[address[c]], c, Attempt(c), PortsOf(Current(c)),
                   arrived[c], Current(c).sent, at, time)
          /\ Schedule(Current(c).window, c, Current(c).sent, time)
          /\ DueInTime(c, time)
          /\ Underway(c) /\ HasMore(c) /\ ~aborted =>
                /\ address[c] \in DOMAIN candidates
                /\ HoldsFirst(candidates[address[c]], Current(c), arrived[c], time)

TrackInv ==
    /\ arrived \in [Clients -> Nat]
    /\ n_ports > 1 => \A c \in Clients :
          /\ Tolerable(c) /\ Attempt(c) > 0 /\ c \notin spoiled
          /\ Unmistakable(Current(c).window, Current(c).channel)
          => OnTrack(c)

\* What a knock knows of its own numbers.
LEMMA CurrentIs ==
    ASSUME ClientTypeOK, NEW c \in Clients, Attempt(c) > 0
    PROVE  /\ <<c, Attempt(c)>> \in Knocks /\ Current(c) \in Knock
           /\ Current(c).sent \in 0..n_ports /\ Current(c).sent \in Nat
           /\ Current(c).window \in Nat /\ Current(c).channel \in Channels
           /\ Current(c).window \in SentWindows
<1>1. attempts[c] \in Seq(Knock) /\ Attempt(c) \in 1..Len(attempts[c])
  BY DEF ClientTypeOK, Attempt
<1>2. Current(c) \in Knock
  BY <1>1, ElementOfSeq DEF Current
<1>3. Current(c).sent \in 0..n_ports /\ n_ports \in Nat
  BY <1>2, DerivationAssumption DEF Knock
<1>4. Current(c).window \in SentWindows /\ Current(c).channel \in Channels
  BY <1>2 DEF Knock
<1>5. <<c, Attempt(c)>> \in Knocks
  BY <1>1, KnocksAre
<1> QED BY <1>2, <1>3, <1>4, <1>5 DEF SentWindows

\* A step that leaves the knock of c alone, and the order of its packets.
LEMMA Unaffected ==
    ASSUME ClientTypeOK, NEW c \in Clients, OnTrack(c), Attempt(c) > 0,
           Attempt(c)' = Attempt(c), Current(c)' = Current(c), arrived'[c] = arrived[c],
           wake'[c] \in {wake[c], -1}, clock' = clock,
           Survives(wire[address[c]], wire'[address[c]], c, Attempt(c)),
           Underway(c) /\ HasMore(c) /\ ~aborted' =>
              /\ ~aborted
              /\ address[c] \in DOMAIN candidates =>
                   /\ address[c] \in DOMAIN candidates'
                   /\ candidates'[address[c]] = candidates[address[c]]
    PROVE  OnTrack(c)'
<1>1. PICK at, time :
        /\ Lined(wire[address[c]], c, Attempt(c), PortsOf(Current(c)),
                 arrived[c], Current(c).sent, at, time)
        /\ Schedule(Current(c).window, c, Current(c).sent, time)
        /\ DueInTime(c, time)
        /\ Underway(c) /\ HasMore(c) /\ ~aborted =>
              /\ address[c] \in DOMAIN candidates
              /\ HoldsFirst(candidates[address[c]], Current(c), arrived[c], time)
  BY DEF OnTrack
<1>2. arrived[c] \in Int /\ Current(c).sent \in Int
  <2>1. arrived[c] \in 0..Current(c).sent
    BY DEF OnTrack
  <2>2. Current(c).sent \in Nat
    BY CurrentIs
  <2> QED BY <2>1, <2>2
<1>3. PICK moved :
        Lined(wire'[address[c]], c, Attempt(c), PortsOf(Current(c)),
              arrived[c], Current(c).sent, moved, time)
  BY <1>1, <1>2, LineMoves
<1>4. Sending(c)' => Sending(c) /\ wake'[c] = wake[c]
  BY DEF Sending
<1>5. DueInTime(c, time)'
  BY <1>1, <1>4 DEF DueInTime
<1>6. Underway(c)' /\ HasMore(c)' /\ ~aborted' =>
         /\ address[c] \in DOMAIN candidates'
         /\ HoldsFirst(candidates'[address[c]], Current(c), arrived[c], time)
  <2>1. Underway(c)' /\ HasMore(c)' => Underway(c) /\ HasMore(c)
    BY <1>4 DEF Underway, HasMore
  <2> QED BY <1>1, <2>1
<1>7. ValidArguments /\ arrived'[c] \in 0..Current(c)'.sent
  BY DEF OnTrack
<1> QED BY <1>1, <1>3, <1>5, <1>6, <1>7 DEF OnTrack

\* A new packet joins the queue behind the others.
LEMMA LineGrows ==
    ASSUME NEW S, NEW q \in Seq(S), NEW e \in S, NEW c, NEW a, NEW ports,
           NEW n \in Nat, NEW m \in Nat, n <= m, NEW at, NEW time, NEW later,
           Lined(q, c, a, ports, n, m, at, time),
           IsOf(e, c, a), e.port = ports[m + 1], later[m + 1] = e.sent_at,
           \A i \in (n + 1)..m : later[i] = time[i]
    PROVE  \E grown : Lined(Append(q, e), c, a, ports, n, m + 1, grown, later)
<1> DEFINE grown == [i \in (n + 1)..(m + 1) |-> IF i = m + 1 THEN Len(q) + 1 ELSE at[i]]
<1>1. PICK new, M, L : new = Append(q, e) /\ M = m + 1 /\ L = Len(q) + 1
  OBVIOUS
<1>2. /\ Len(q) \in Nat /\ Len(new) = L /\ new[L] = e /\ L \in 1..L
      /\ \A p \in 1..Len(q) : new[p] = q[p] /\ p \in 1..L /\ p < L
      /\ \A p \in 1..L : p \in 1..Len(q) \/ p = L
  BY <1>1, AppendProperties
<1>3. \A i \in (n + 1)..M : (i \in (n + 1)..m /\ i # M) \/ i = M
  BY <1>1
<1>4. /\ M \in (n + 1)..M
      /\ \A i \in (n + 1)..m : i \in (n + 1)..M /\ i # M /\ i < M
  BY <1>1
<1>5. /\ grown[M] = L /\ DOMAIN grown = (n + 1)..M
      /\ \A i \in (n + 1)..m : grown[i] = at[i] /\ at[i] \in 1..Len(q)
      /\ grown = [i \in (n + 1)..M |-> grown[i]]
  BY <1>1, <1>4 DEF Lined
<1> HIDE DEF grown
<1>6. grown \in [(n + 1)..M -> 1..Len(new)]
  <2>1. \A i \in (n + 1)..M : grown[i] \in 1..Len(new)
    BY <1>2, <1>3, <1>5
  <2> QED BY <1>5, <2>1
<1>7. \A i \in (n + 1)..M :
         /\ IsOf(new[grown[i]], c, a)
         /\ new[grown[i]].port = ports[i] /\ new[grown[i]].sent_at = later[i]
  <2>1. ASSUME NEW i \in (n + 1)..m
        PROVE  /\ IsOf(new[grown[i]], c, a)
               /\ new[grown[i]].port = ports[i] /\ new[grown[i]].sent_at = later[i]
    <3>1. new[grown[i]] = q[at[i]] /\ later[i] = time[i]
      BY <1>2, <1>5
    <3>2. IsOf(q[at[i]], c, a) /\ q[at[i]].port = ports[i] /\ q[at[i]].sent_at = time[i]
      BY DEF Lined
    <3> QED BY <3>1, <3>2
  <2>2. /\ IsOf(new[grown[M]], c, a)
        /\ new[grown[M]].port = ports[M] /\ new[grown[M]].sent_at = later[M]
    BY <1>1, <1>2, <1>5
  <2> QED BY <1>3, <2>1, <2>2
<1>8. \A i, j \in (n + 1)..M : i < j => grown[i] < grown[j]
  <2> SUFFICES ASSUME NEW i \in (n + 1)..M, NEW j \in (n + 1)..M, i < j
               PROVE  grown[i] < grown[j]
    OBVIOUS
  <2>1. i \in (n + 1)..m
    BY <1>1
  <2>2. CASE j = M
    BY <1>2, <1>5, <2>1, <2>2
  <2>3. CASE j \in (n + 1)..m
    BY <1>5, <2>1, <2>3 DEF Lined
  <2> QED BY <1>3, <2>2, <2>3
<1>9. \A p \in 1..Len(new) : IsOf(new[p], c, a) => \E i \in (n + 1)..M : grown[i] = p
  <2> SUFFICES ASSUME NEW p \in 1..Len(new), IsOf(new[p], c, a)
               PROVE  \E i \in (n + 1)..M : grown[i] = p
    OBVIOUS
  <2>1. CASE p = L
    BY <1>4, <1>5, <2>1
  <2>2. CASE p \in 1..Len(q)
    <3>1. PICK i \in (n + 1)..m : at[i] = p
      BY <1>2, <2>2 DEF Lined
    <3> QED BY <1>4, <1>5, <3>1
  <2>3. p \in 1..Len(q) \/ p = L
    BY <1>2
  <2> QED BY <2>1, <2>2, <2>3
<1>10. Lined(new, c, a, ports, n, M, grown, later)
  BY <1>6, <1>7, <1>8, <1>9 DEF Lined
<1> QED BY <1>1, <1>10

\* The next packet of the knock leaves the queue.
LEMMA LineShrinks ==
    ASSUME NEW S, NEW q \in Seq(S), q # <<>>, NEW c, NEW a, NEW ports,
           NEW n \in Nat, NEW m \in Nat, NEW at, NEW time,
           Lined(q, c, a, ports, n, m, at, time), IsOf(Head(q), c, a)
    PROVE  /\ n < m /\ Head(q).port = ports[n + 1] /\ Head(q).sent_at = time[n + 1]
           /\ \E shrunk : Lined(Tail(q), c, a, ports, n + 1, m, shrunk, time)
<1>1. PICK new, N : new = Tail(q) /\ N = n + 1
  OBVIOUS
<1>2. /\ Len(q) \in Nat \ {0} /\ Len(new) = Len(q) - 1 /\ q[1] = Head(q) /\ 1 \in 1..Len(q)
      /\ \A p \in 1..Len(new) : new[p] = q[p + 1]
  BY <1>1, HeadTailProperties
<1>3. PICK first \in (n + 1)..m : at[first] = 1
  BY <1>2 DEF Lined
<1>4. n < m /\ N \in (n + 1)..m /\ first = N
  <2>1. n < m /\ N \in (n + 1)..m
    BY <1>1
  <2>2. at[N] \in 1..Len(q) /\ (N < first => at[N] < at[first])
    BY <2>1 DEF Lined
  <2>3. ~(N < first)
    BY <1>2, <1>3, <2>2
  <2> QED BY <1>1, <2>1, <2>3
<1>5. at[N] = 1 /\ q[1].port = ports[N] /\ q[1].sent_at = time[N]
  BY <1>3, <1>4 DEF Lined
<1> DEFINE shrunk == [i \in (N + 1)..m |-> at[i] - 1]
<1>6. ASSUME NEW i \in (N + 1)..m
      PROVE  /\ i \in (n + 1)..m /\ at[i] \in 1..Len(q)
             /\ shrunk[i] = at[i] - 1
             /\ shrunk[i] \in 1..Len(new) /\ shrunk[i] + 1 = at[i]
             /\ new[shrunk[i]] = q[at[i]]
  <2>1. i \in (n + 1)..m /\ N < i
    BY <1>1
  <2>2. at[i] \in 1..Len(q) /\ at[N] < at[i]
    BY <1>4, <2>1 DEF Lined
  <2>3. PICK p : p = at[i] - 1
    OBVIOUS
  <2>4. shrunk[i] = p
    BY <2>3
  <2> HIDE DEF shrunk
  <2>5. p \in 1..Len(new) /\ p + 1 = at[i]
    BY <1>2, <1>5, <2>2, <2>3
  <2> QED BY <1>2, <2>1, <2>2, <2>3, <2>4, <2>5
<1>7. shrunk \in [(N + 1)..m -> 1..Len(new)]
  BY <1>6
<1> HIDE DEF shrunk
<1>8. \A i \in (N + 1)..m :
         /\ IsOf(new[shrunk[i]], c, a)
         /\ new[shrunk[i]].port = ports[i] /\ new[shrunk[i]].sent_at = time[i]
  BY <1>6 DEF Lined
<1>9. \A i, j \in (N + 1)..m : i < j => shrunk[i] < shrunk[j]
  <2> SUFFICES ASSUME NEW i \in (N + 1)..m, NEW j \in (N + 1)..m, i < j
               PROVE  shrunk[i] < shrunk[j]
    OBVIOUS
  <2>1. at[i] < at[j]
    BY <1>6 DEF Lined
  <2> QED BY <1>6, <2>1
<1>10. \A p \in 1..Len(new) : IsOf(new[p], c, a) => \E i \in (N + 1)..m : shrunk[i] = p
  <2> SUFFICES ASSUME NEW p \in 1..Len(new), IsOf(new[p], c, a)
               PROVE  \E i \in (N + 1)..m : shrunk[i] = p
    OBVIOUS
  <2>1. PICK r : r = p + 1
    OBVIOUS
  <2>2. r \in 1..Len(q) /\ r # 1 /\ r - 1 = p /\ new[p] = q[r]
    BY <1>2, <2>1
  <2>3. PICK i \in (n + 1)..m : at[i] = r
    BY <2>2 DEF Lined
  <2>4. i # N
    BY <1>5, <2>2, <2>3
  <2>5. i \in (N + 1)..m
    BY <1>1, <2>4
  <2> QED BY <1>6, <2>2, <2>3, <2>5
<1>11. Lined(new, c, a, ports, N, m, shrunk, time)
  BY <1>7, <1>8, <1>9, <1>10 DEF Lined
<1> QED BY <1>1, <1>2, <1>4, <1>5, <1>11

\* A knock that begins has nothing in the queue.
LEMMA StartTracks ==
    ASSUME ClientTypeOK, arrived \in [Clients -> Nat], NEW c \in Clients,
           NEW channel \in Channels, StartKnock(c, channel)
    PROVE  OnTrack(c)'
<1> DEFINE knock == [window |-> time_counter(clock + skew[c]), channel |-> channel, sent |-> 0]
           N == Len(attempts[c]) + 1
<1>1. /\ attempts[c] \in Seq(Knock) /\ Len(attempts[c]) \in Nat
      /\ attempts' = [attempts EXCEPT ![c] = Append(@, knock)] /\ DOMAIN attempts = Clients
      /\ wake \in [Clients -> Int] /\ wake'[c] = clock /\ arrived'[c] = 0
      /\ wire' = wire /\ clock' = clock /\ ValidArguments /\ 0 <= clock + skew[c]
      /\ clock \in Int
  BY SessionAssumption DEF ClientTypeOK, StartKnock, vars
<1>2. Attempt(c)' = N /\ Current(c)' = knock
  <2>1. attempts'[c] = Append(attempts[c], knock)
    BY <1>1
  <2> HIDE DEF knock
  <2>2. Len(attempts'[c]) = N /\ attempts'[c][N] = knock
    BY <1>1, <2>1
  <2> QED BY <2>2 DEF Attempt, Current
<1>3. knock.sent = 0 /\ knock.window = time_counter(clock + skew[c])
  OBVIOUS
<1> HIDE DEF knock
<1>4. \A p \in 1..Len(wire[address[c]]) : ~IsOf(wire[address[c]][p], c, N)
  <2> SUFFICES ASSUME NEW p \in 1..Len(wire[address[c]]), IsOf(wire[address[c]][p], c, N)
               PROVE  FALSE
    OBVIOUS
  <2>1. wire[address[c]] \in Seq(Travelling(address[c]))
    BY ClientAssumption DEF ClientTypeOK
  <2>2. wire[address[c]][p] \in Travelling(address[c])
    BY <2>1, ElementOfSeq
  <2>3. <<c, N>> \in Knocks
    BY <2>2 DEF Travelling, IsOf
  <2>4. N \in 1..Len(attempts[c])
    BY <2>3, KnocksAre
  <2> QED BY <1>1, <2>4
<1> DEFINE none == [i \in 1..0 |-> 0]
<1>5. Lined(wire[address[c]], c, N, PortsOf(knock), 0, 0, none, none)
  <2>1. \A i \in (0 + 1)..0 : FALSE
    OBVIOUS
  <2>2. none \in [(0 + 1)..0 -> 1..Len(wire[address[c]])]
    BY <2>1
  <2> HIDE DEF none
  <2> QED BY <1>4, <2>1, <2>2 DEF Lined
<1>6. Schedule(knock.window, c, 0, none)
  <2>1. none \in [1..0 -> Int] /\ \A i \in 1..(0 - 1) : FALSE
    OBVIOUS
  <2> HIDE DEF none
  <2> QED BY <2>1 DEF Schedule
<1> HIDE DEF none
<1>7. DueInTime(c, none)'
  <2>1. clock <= clock + SLACK /\ clock <= clock
    BY <1>1, ClientAssumption
  <2> QED BY <1>1, <1>2, <1>3, <2>1 DEF DueInTime
<1>8. ~Underway(c)'
  BY <1>1 DEF Underway
<1>9. arrived'[c] \in 0..Current(c)'.sent
  BY <1>1, <1>2, <1>3
<1>10. Lined(wire'[address[c]], c, Attempt(c)', PortsOf(Current(c)'),
             arrived'[c], Current(c)'.sent, none, none)
  BY <1>1, <1>2, <1>3, <1>5
<1>11. Schedule(Current(c)'.window, c, Current(c)'.sent, none)
  BY <1>2, <1>3, <1>6
<1> QED BY <1>1, <1>7, <1>8, <1>9, <1>10, <1>11 DEF OnTrack

LEMMA QueueIs ==
    ASSUME ClientTypeOK, NEW s \in Sources
    PROVE  /\ wire[s] \in Seq(AnyPacket)
           /\ \A p \in 1..Len(wire[s]) : wire[s][p] \in Travelling(s)
<1>1. wire[s] \in Seq(Travelling(s)) /\ Travelling(s) \subseteq AnyPacket
  BY DEF ClientTypeOK, Travelling, AnyPacket
<1> QED BY <1>1, SeqMonotonic, ElementOfSeq

\* The next packet is sent in time and joins the others.
LEMMA SendTracks ==
    ASSUME ClientTypeOK, NEW c \in Clients, SendPacket(c), OnTrack(c)
    PROVE  OnTrack(c)'
<1>1. PICK at, time, q, N, k, m, n :
        /\ q = wire[address[c]] /\ N = Attempt(c) /\ k = Current(c)
        /\ m = k.sent /\ n = arrived[c]
        /\ Lined(q, c, N, PortsOf(k), n, m, at, time)
        /\ Schedule(k.window, c, m, time)
        /\ DueInTime(c, time)
        /\ Underway(c) /\ HasMore(c) /\ ~aborted =>
              /\ address[c] \in DOMAIN candidates
              /\ HoldsFirst(candidates[address[c]], k, n, time)
  BY DEF OnTrack
<1>2. /\ Sending(c) /\ wake[c] <= clock /\ N > 0 /\ ValidArguments /\ clock \in Nat
      /\ attempts \in [Clients -> Seq(Knock)] /\ wake \in [Clients -> Int]
      /\ address[c] \in Sources /\ DOMAIN wire = Sources
      /\ UNCHANGED <<vars, arrived>>
  <2>1. /\ Sending(c) /\ clock >= wake[c] /\ UNCHANGED <<vars, arrived>>
    BY DEF SendPacket
  <2>2. /\ Attempt(c) > 0 /\ ValidArguments /\ clock \in BOOT..MAX_CLOCK
        /\ attempts \in [Clients -> Seq(Knock)] /\ wake \in [Clients -> Int]
        /\ DOMAIN wire = Sources
    BY <2>1 DEF ClientTypeOK
  <2>3. clock \in Nat /\ wake[c] \in Int /\ address[c] \in Sources
    BY <2>2, SessionAssumption, ClientAssumption
  <2> QED BY <1>1, <2>1, <2>2, <2>3
<1>3. /\ k \in Knock /\ m \in Nat /\ n \in Nat /\ n <= m
  <2>1. k \in Knock /\ m \in Nat
    BY <1>1, <1>2, CurrentIs
  <2>2. n \in 0..m
    BY <1>1 DEF OnTrack
  <2> QED BY <2>1, <2>2
<1>4. PICK k2, M : k2 = [k EXCEPT !.sent = M] /\ M = m + 1
  OBVIOUS
<1>5. /\ k2.sent = M /\ k2.window = k.window /\ k2.channel = k.channel
      /\ PortsOf(k2) = PortsOf(k) /\ M \in Nat /\ m < M /\ M > 0
  BY <1>3, <1>4 DEF Knock, PortsOf
<1>6. Attempt(c)' = N /\ Current(c)' = k2
  <2>1. attempts[c] \in Seq(Knock) /\ N = Len(attempts[c]) /\ N \in 1..N /\ k = attempts[c][N]
    BY <1>1, <1>2 DEF Attempt, Current
  <2>2. attempts'[c] = [attempts[c] EXCEPT ![N] = k2]
    BY <1>1, <1>2, <1>4, <2>1 DEF SendPacket
  <2>3. k2 \in Knock
    <3>1. N \in 1..Len(attempts'[c]) /\ Len(attempts'[c]) = N /\ attempts'[c][N] = k2
      BY <2>1, <2>2
    <3>2. AttemptsOK'
      BY SendKeeps
    <3> QED BY <3>1, <3>2, ElementOfSeq DEF AttemptsOK
  <2>4. Len(attempts'[c]) = N /\ attempts'[c][N] = k2
    BY <2>1, <2>2, <2>3, ExceptSeq
  <2> QED BY <2>4 DEF Attempt, Current
<1>7. PICK e \in AnyPacket :
        /\ IsOf(e, c, N) /\ e.port = PortsOf(k)[M] /\ e.sent_at = clock
        /\ wire'[address[c]] = Append(q, e)
  <2> DEFINE packet == [client |-> c, attempt |-> N, place |-> M,
                        port |-> PortsOf(k)[M], sent_at |-> clock]
  <2>1. wire'[address[c]] = Append(q, packet)
    BY <1>1, <1>2, <1>4 DEF SendPacket
  <2>2. PortsOf(k)[M] \in KnockPorts /\ M \in 1..n_ports
    <3>1. M \in 1..n_ports
      BY <1>1, <1>2, <1>3, <1>4, DerivationAssumption DEF ClientTypeOK
    <3> QED BY <1>2, <1>3, <3>1, DerivedPorts DEF PortsOf, Knock
  <2>3. packet \in AnyPacket
    <3>1. N \in Nat
      BY <1>1, <1>2 DEF Attempt
    <3> QED BY <1>2, <2>2, <3>1 DEF AnyPacket
  <2> QED BY <2>1, <2>3 DEF IsOf
<1>8. PICK later :
        /\ later[M] = clock /\ DOMAIN later = 1..M /\ later = [i \in 1..M |-> later[i]]
        /\ \A i \in 1..m : later[i] = time[i] /\ i \in 1..M
        /\ \A i \in 1..M : i \in 1..m \/ i = M
  <2> DEFINE added == [i \in 1..M |-> IF i = M THEN clock ELSE time[i]]
  <2>1. /\ added[M] = clock /\ DOMAIN added = 1..M /\ added = [i \in 1..M |-> added[i]]
        /\ \A i \in 1..m : added[i] = time[i] /\ i \in 1..M
        /\ \A i \in 1..M : i \in 1..m \/ i = M
    BY <1>3, <1>4
  <2> HIDE DEF added
  <2> QED BY <2>1
<1>9. PICK grown : Lined(Append(q, e), c, N, PortsOf(k), n, M, grown, later)
  <2>1. q \in Seq(AnyPacket)
    BY <1>1, <1>2, QueueIs
  <2>2. \A i \in (n + 1)..m : later[i] = time[i]
    <3>1. \A i \in (n + 1)..m : i \in 1..m
      BY <1>3
    <3> QED BY <1>8, <3>1
  <2>3. e.port = PortsOf(k)[m + 1] /\ later[m + 1] = e.sent_at
    BY <1>4, <1>7, <1>8
  <2>4. \E grown : Lined(Append(q, e), c, N, PortsOf(k), n, m + 1, grown, later)
    <3>1. PICK ports : ports = PortsOf(k)
      OBVIOUS
    <3>2. /\ Lined(q, c, N, ports, n, m, at, time) /\ IsOf(e, c, N)
          /\ e.port = ports[m + 1] /\ later[m + 1] = e.sent_at
          /\ n \in Nat /\ m \in Nat /\ n <= m
      BY <1>1, <1>3, <1>7, <2>3, <3>1
    <3>3. \E grown : Lined(Append(q, e), c, N, ports, n, m + 1, grown, later)
      BY ONLY <2>1, <2>2, <3>2, LineGrows
    <3> QED BY <3>1, <3>3
  <2> QED BY <1>4, <2>4
<1>10. time \in [1..m -> Int] /\ clock \in Int /\ wake[c] \in Int /\ SLACK \in Nat /\ knock_interval \in Nat
  BY <1>1, <1>2, ClientAssumption DEF Schedule
<1>11. /\ clock <= wake[c] + SLACK
       /\ m = 0 => wake[c] <= clock /\ 0 <= wake[c] + skew[c] /\ k.window = time_counter(wake[c] + skew[c])
       /\ m > 0 => wake[c] <= time[m] + knock_interval
  BY <1>1, <1>2 DEF DueInTime
<1>12. Schedule(k2.window, c, M, later)
  <2>1. later \in [1..M -> Int]
    <3>1. \A i \in 1..M : later[i] \in Int
      BY <1>8, <1>10
    <3> QED BY <1>8, <3>1
  <2>2. ASSUME NEW i \in 1..(M - 1)
        PROVE  later[i + 1] <= later[i] + knock_interval + SLACK
    <3>1. PICK j : j = i + 1
      OBVIOUS
    <3>2. i \in 1..m /\ j \in 1..M
      BY <1>3, <1>4, <3>1
    <3>3. CASE j = M
      <4>1. i = m /\ m > 0 /\ m \in 1..m
        BY <1>3, <1>4, <3>1, <3>2, <3>3
      <4>2. later[i] = time[m] /\ later[j] = clock /\ time[m] \in Int
        BY <1>8, <1>10, <3>3, <4>1
      <4> QED BY <1>10, <1>11, <3>1, <4>1, <4>2
    <3>4. CASE j # M
      <4>1. j \in 1..m /\ i \in 1..(m - 1)
        BY <1>3, <1>4, <3>1, <3>2, <3>4
      <4>2. time[i + 1] <= time[i] + knock_interval + SLACK
        BY <1>1, <4>1 DEF Schedule
      <4> QED BY <1>8, <3>1, <3>2, <4>1, <4>2
    <3> QED BY <3>3, <3>4
  <2>3. \E t \in (later[1] - SLACK)..later[1] : 0 <= t + skew[c] /\ k.window = time_counter(t + skew[c])
    <3>1. CASE m = 0
      <4>1. later[1] = clock /\ wake[c] \in (clock - SLACK)..clock
        BY <1>4, <1>8, <1>10, <1>11, <3>1
      <4> QED BY <1>11, <3>1, <4>1
    <3>2. CASE m > 0
      <4>1. later[1] = time[1]
        BY <1>3, <1>8, <3>2
      <4> QED BY <1>1, <3>2, <4>1 DEF Schedule
    <3> QED BY <1>3, <3>1, <3>2
  <2> QED BY <1>5, <2>1, <2>2, <2>3 DEF Schedule
<1>13. DueInTime(c, later)'
  <2>1. clock' = clock
    BY <1>2 DEF vars
  <2>2. wake'[c] = clock + knock_interval \/ wake'[c] = -1
    BY <1>2 DEF SendPacket
  <2>3. Sending(c)' => /\ clock' <= wake'[c] + SLACK
                       /\ wake'[c] <= later[M] + knock_interval
    BY <1>8, <1>10, <2>1, <2>2 DEF Sending
  <2>4. Current(c)'.sent = M /\ ~(M = 0)
    BY <1>5, <1>6
  <2> QED BY <2>3, <2>4 DEF DueInTime
<1>14. Underway(c)' /\ ~aborted' =>
          /\ address[c] \in DOMAIN candidates'
          /\ HoldsFirst(candidates'[address[c]], k2, n, later)
  <2>1. candidates' = candidates /\ aborted' = aborted /\ arrived' = arrived
    BY <1>2 DEF vars
  <2>2. ASSUME Underway(c), ~aborted
        PROVE  /\ address[c] \in DOMAIN candidates
               /\ HoldsFirst(candidates[address[c]], k2, n, later)
    <3>1. /\ address[c] \in DOMAIN candidates
          /\ HoldsFirst(candidates[address[c]], k, n, time)
      BY <1>1, <1>2, <2>2 DEF HasMore
    <3>2. later[n] = time[n]
      BY <1>1, <1>3, <1>8, <2>2 DEF Underway
    <3> QED BY <1>5, <3>1, <3>2 DEF HoldsFirst
  <2> QED BY <2>1, <2>2 DEF Underway
<1>15. arrived'[c] = n /\ n \in 0..M
  BY <1>1, <1>2, <1>3, <1>4
<1>16. Lined(wire'[address[c]], c, Attempt(c)', PortsOf(Current(c)'), arrived'[c],
             Current(c)'.sent, grown, later)
  BY <1>5, <1>6, <1>7, <1>9, <1>15
<1>17. /\ Schedule(Current(c)'.window, c, Current(c)'.sent, later)
       /\ arrived'[c] \in 0..Current(c)'.sent
       /\ Underway(c)' /\ ~aborted' =>
             /\ address[c] \in DOMAIN candidates'
             /\ HoldsFirst(candidates'[address[c]], Current(c)', arrived'[c], later)
  BY <1>5, <1>6, <1>12, <1>14, <1>15
<1>18. \E a, x :
          /\ Lined(wire'[address[c]], c, Attempt(c)', PortsOf(Current(c)'), arrived'[c],
                   Current(c)'.sent, a, x)
          /\ Schedule(Current(c)'.window, c, Current(c)'.sent, x)
          /\ DueInTime(c, x)'
          /\ Underway(c)' /\ ~aborted' =>
                /\ address[c] \in DOMAIN candidates'
                /\ HoldsFirst(candidates'[address[c]], Current(c)', arrived'[c], x)
  BY <1>13, <1>16, <1>17
<1> QED BY <1>2, <1>17, <1>18 DEF OnTrack

-----------------------------------------------------------------------------
(***************************************************************************)
(* Arrivals.  What a candidate is compared with is near the window of the  *)
(* knock whose packet arrives; and the window of a client within the       *)
(* tolerances is tried for its first packet.                               *)
(***************************************************************************)
LEMMA TriedTogetherAreNearby ==
    ASSUME NEW t \in Int, t <= MAX_CLOCK + LEAD, n_ports > 0,
           NEW w \in candidate_windows(time_counter_for(t)),
           NEW v \in candidate_windows(time_counter_for(t))
    PROVE  v \in Nearby(w)
<1>1. PICK b, T, D : b = time_counter_for(t) /\ T = time_step_seconds
                     /\ D = (n_ports - 1) * inactivity_timeout
  OBVIOUS
<1>2. T \in Nat \ {0} /\ D \in Nat /\ LAG \in Nat /\ LEAD \in Nat
  BY <1>1, SessionAssumption, DerivationAssumption
<1>3. v \in NearWindows /\ w \in NearWindows
  BY WindowIsNear
<1>4. v \in Nat /\ w \in Nat
  BY <1>3 DEF NearWindows
<1>5. w <= v + 2 /\ v <= w + 2
  <2>1. b \in Nat
    BY <1>1, <1>2, DivisionBounds DEF time_counter_for
  <2> QED BY <1>1, <1>4, <2>1 DEF candidate_windows
<1>6. w * T <= v * T + 2 * T /\ v * T <= w * T + 2 * T
  <2>1. (v + 2) * T = v * T + 2 * T /\ (w + 2) * T = w * T + 2 * T
    BY <1>2, <1>4, Distribute
  <2>2. w * T <= (v + 2) * T /\ v * T <= (w + 2) * T
    BY <1>2, <1>4, <1>5, Monotone
  <2> QED BY <2>1, <2>2
<1>7. PICK W, V : W = w * T /\ V = v * T
  OBVIOUS
<1>8. W \in Int /\ V \in Int
  BY <1>2, <1>4, <1>7
<1>9. W - V < 3 * T + D + LAG + LEAD /\ V - W < 3 * T + LAG + LEAD
  BY <1>2, <1>6, <1>7, <1>8
<1> QED BY <1>1, <1>3, <1>7, <1>9 DEF Nearby

LEMMA CandidateIs ==
    ASSUME ClientInv, NEW s \in DOMAIN candidates
    PROVE  /\ candidates[s] \in Candidate /\ KeepsPace(candidates[s])
           /\ candidates[s].first_seen_wall <= MAX_CLOCK + LEAD
           /\ clock \in Nat /\ clock <= MAX_CLOCK
<1>1. PICK cand : cand = candidates[s]
  OBVIOUS
<1>2. cand \in Candidate /\ KeepsPace(cand)
  BY <1>1 DEF ClientInv, IInv, TypeOK, CandidateInv
<1>3. /\ cand.first_seen_wall \in Int /\ cand.last_seen_mono \in Int
      /\ cand.first_seen_wall - LEAD <= cand.last_seen_mono /\ cand.last_seen_mono <= clock
  BY <1>2 DEF Candidate, KeepsPace
<1>4. clock \in Nat /\ clock <= MAX_CLOCK /\ LEAD \in Int /\ MAX_CLOCK \in Int
  BY SessionAssumption DEF ClientInv, ClientTypeOK
<1>5. cand.first_seen_wall <= MAX_CLOCK + LEAD
  BY <1>3, <1>4
<1> QED BY <1>1, <1>2, <1>4, <1>5

LEMMA NearDivisions ==
    ASSUME NEW a \in Nat, NEW b \in Nat, NEW d \in Nat \ {0}, a <= b + d
    PROVE  a \div d <= (b \div d) + 1
<1>1. PICK x, y : x = a \div d /\ y = b \div d
  OBVIOUS
<1>2. x \in Nat /\ y \in Nat /\ x * d <= a /\ b < (y + 1) * d
  BY <1>1, DivisionBounds
<1>3. (y + 2) * d = (y + 1) * d + d
  <2>1. (y + 1) + 1 = y + 2
    BY <1>2
  <2>2. ((y + 1) + 1) * d = (y + 1) * d + 1 * d
    BY <1>2, Distribute
  <2> QED BY <1>2, <2>1, <2>2
<1>4. x * d < (y + 2) * d
  <2>1. x * d \in Int /\ (y + 1) * d \in Int
    BY <1>2
  <2> QED BY <1>2, <1>3, <2>1
<1>5. ~(y + 2 <= x)
  <2>1. y + 2 <= x => (y + 2) * d <= x * d
    BY <1>2, Monotone
  <2>2. x * d \in Int /\ (y + 2) * d \in Int
    BY <1>2
  <2> QED BY <1>4, <2>1, <2>2
<1> QED BY <1>1, <1>2, <1>5

LEMMA WindowIsTried ==
    ASSUME clock \in Nat, NEW c \in Clients, Tolerable(c), NEW sent_at \in Int, NEW w,
           \E t \in (sent_at - SLACK)..sent_at : 0 <= t + skew[c] /\ w = time_counter(t + skew[c]),
           sent_at <= clock, clock <= sent_at + DELAY
    PROVE  w \in candidate_windows(time_counter_for(clock))
<1>1. PICK t \in (sent_at - SLACK)..sent_at : 0 <= t + skew[c] /\ w = time_counter(t + skew[c])
  OBVIOUS
<1>2. PICK u, T : u = t + skew[c] /\ T = time_step_seconds
  OBVIOUS
<1>3. /\ u \in Nat /\ T \in Nat \ {0} /\ clock <= u + T /\ u <= clock + T
  <2>1. skew[c] \in Int /\ SLACK \in Int /\ DELAY \in Int /\ T \in Nat \ {0}
    BY <1>2, ClientAssumption, SessionAssumption
  <2>2. skew[c] <= T /\ DELAY + SLACK - skew[c] <= T
    BY <1>2 DEF Tolerable
  <2> QED BY <1>1, <1>2, <2>1, <2>2
<1>4. u \div T <= (clock \div T) + 1 /\ clock \div T <= (u \div T) + 1
  BY <1>3, NearDivisions
<1>5. u \div T \in Nat /\ clock \div T \in Nat
  BY <1>3, DivisionBounds
<1>6. w = u \div T /\ time_counter_for(clock) = clock \div T
  <2>1. ~(clock < 0)
    OBVIOUS
  <2> QED BY <1>1, <1>2, <2>1 DEF time_counter, time_counter_for
<1>7. PICK x, y : x = u \div T /\ y = clock \div T
  OBVIOUS
<1>8. x \in Nat /\ y \in Nat /\ x <= y + 1 /\ y <= x + 1
  BY <1>4, <1>5, <1>7
<1>9. x \in {y - 1, y, y + 1} /\ x >= 0
  BY <1>8
<1> QED BY <1>6, <1>7, <1>9 DEF candidate_windows

\* The first packet of a knock extends nothing: it is a fresh start.
LEMMA FirstArrives ==
    ASSUME ClientInv, NEW s \in Sources, NEW knock, Unmistakable(knock.window, knock.channel),
           knock.window \in candidate_windows(time_counter_for(clock)),
           ValidArguments, NEW p \in KnockPorts, p = PortsOf(knock)[1],
           on_packet(s, p, clock)
    PROVE  \/ aborted'
           \/ s \in DOMAIN candidates' /\ candidates'[s] = Fresh(p, clock)
<1>1. CASE StartCandidate(s, p, clock) \/ BreakSequence(s, p, clock)
  <2>1. candidates' = Put(sweep_expired, s, Fresh(p, clock))
    BY <1>1 DEF StartCandidate, BreakSequence
  <2> QED BY <2>1 DEF Put
<1>2. ASSUME Extends(s), NEW w, NEW ch, <<w, ch>> \in Tried(candidates[s]),
             IsPrefixOf(Extended(s, p), w, ch)
      PROVE  FALSE
  <2>1. s \in DOMAIN candidates
    BY <1>2, SweptCandidates DEF Extends
  <2>2. PICK ports, L : ports = candidates[s].ports /\ L = Len(ports) + 1
    OBVIOUS
  <2>3. ports \in Seq(KnockPorts) /\ Len(ports) \in Nat /\ Len(ports) > 0
    BY <2>1, <2>2 DEF ClientInv, IInv, TypeOK, CandidateInv, Candidate, KeepsPace
  <2>4. PICK longer : longer = Append(ports, p) /\ longer = Extended(s, p)
    BY <2>2 DEF Extended
  <2>5. Len(longer) = L /\ longer[L] = p /\ L \in 1..L /\ L > 1
    <3>1. p \in KnockPorts /\ longer = Append(ports, p) /\ ports \in Seq(KnockPorts)
      BY <2>3, <2>4
    <3>2. Len(longer) = Len(ports) + 1 /\ longer[Len(ports) + 1] = p
      BY ONLY <3>1, AppendProperties
    <3> QED BY <2>2, <2>3, <3>2
  <2>6. L \in 1..n_ports /\ derive_ports(w, ch)[L] = p
    <3>1. L <= n_ports /\ n_ports \in Nat
      BY <1>2, <2>4, <2>5, DerivationAssumption DEF IsPrefixOf
    <3> QED BY <1>2, <2>2, <2>3, <2>4, <2>5, <3>1 DEF IsPrefixOf
  <2>7. w \in Nearby(knock.window) /\ ch \in Channels
    <3>1. PICK cand, at, x : /\ cand = candidates[s] /\ at = clock /\ x = knock.window
      OBVIOUS
    <3>2. /\ cand \in Candidate /\ KeepsPace(cand) /\ clock \in Nat /\ clock <= MAX_CLOCK
          /\ at \in (clock - LAG)..(clock + LEAD)
      BY <2>1, <3>1, CandidateIs, SessionAssumption
    <3>3. Len(cand.ports) + 1 <= n_ports
      BY <2>2, <2>6, <3>1, DerivationAssumption
    <3>4. clock - cand.last_seen_mono <= inactivity_timeout
      BY <1>2, <3>1 DEF Extends, sweep_expired
    <3>5. w \in candidate_windows(time_counter_for(cand.first_seen_wall)) /\ ch \in Channels
      BY <1>2, <3>1 DEF Tried
    <3>6. x \in candidate_windows(time_counter_for(at))
      BY <3>1
    <3>7. w \in Nearby(x)
      BY <3>2, <3>3, <3>4, <3>5, <3>6, TriedIsNearby
    <3> QED BY <3>1, <3>5, <3>7
  <2>8. StartsLike(knock.window, knock.channel, L)
    BY <2>6, <2>7 DEF StartsLike, PortsOf
  <2>9. L \in 2..n_ports
    BY <2>5, <2>6, DerivationAssumption
  <2> QED BY <2>8, <2>9 DEF Unmistakable
<1>3. CASE ExtendCandidate(s, p)
  <2>1. Extends(s) /\ \E x \in Tried(candidates[s]) : IsPrefixOf(Extended(s, p), x[1], x[2])
    BY <1>3 DEF ExtendCandidate, Fits
  <2>2. PICK x \in Tried(candidates[s]) : IsPrefixOf(Extended(s, p), x[1], x[2])
    BY <2>1
  <2>3. <<x[1], x[2]>> \in Tried(candidates[s])
    BY DEF Tried
  <2> QED BY <1>2, <2>1, <2>2, <2>3
<1>4. CASE \E w, ch : RejectReplay(s, p, w, ch) \/ AcceptMatch(s, p, w, ch)
  BY <1>2, <1>4 DEF RejectReplay, AcceptMatch, IsFirstMatch, IsFullMatch
<1>5. CASE DerivationThrows(s)
  BY <1>5 DEF DerivationThrows
<1> QED BY <1>1, <1>3, <1>4, <1>5 DEF on_packet

\* The next packet of a knock extends the candidate, and the last completes it.
LEMMA NextArrives ==
    ASSUME ClientInv, NEW s \in DOMAIN candidates, NEW knock, ValidArguments,
           Unmistakable(knock.window, knock.channel),
           NEW n \in 1..(n_ports - 1), NEW time, HoldsFirst(candidates[s], knock, n, time),
           clock - candidates[s].last_seen_mono <= inactivity_timeout,
           NEW p \in KnockPorts, p = PortsOf(knock)[n + 1], on_packet(s, p, clock)
    PROVE  \/ aborted'
           \/ /\ n + 1 = n_ports
              /\ <<s, knock.window, knock.channel>> \in DOMAIN replay_cache'
           \/ /\ n + 1 < n_ports
              /\ s \in DOMAIN candidates'
              /\ Len(candidates'[s].ports) = n + 1
              /\ \A i \in 1..(n + 1) : candidates'[s].ports[i] = PortsOf(knock)[i]
              /\ candidates'[s].first_seen_wall = candidates[s].first_seen_wall
              /\ candidates'[s].last_seen_mono = clock
<1>1. PICK cand, N, w, ch : /\ cand = candidates[s] /\ N = n + 1
                            /\ w = knock.window /\ ch = knock.channel
  OBVIOUS
<1>2. /\ n_ports \in Nat /\ n \in Nat /\ n >= 1 /\ N <= n_ports /\ N \in 1..n_ports /\ N > 1
      /\ \A i \in 1..N : i \in 1..n \/ i = N
  BY <1>1, DerivationAssumption
<1>3. /\ cand \in Candidate /\ cand.ports \in Seq(KnockPorts) /\ Len(cand.ports) = n
      /\ \A i \in 1..n : cand.ports[i] = PortsOf(knock)[i]
      /\ <<w, ch>> \in Tried(cand)
  <2>1. cand \in Candidate
    BY <1>1 DEF ClientInv, IInv, TypeOK
  <2> QED BY <1>1, <2>1 DEF Candidate, HoldsFirst
<1>4. PICK longer : longer = Append(cand.ports, p) /\ longer = Extended(s, p)
  BY <1>1 DEF Extended
<1>5. /\ Len(longer) = N /\ longer[N] = p
      /\ \A i \in 1..N : longer[i] = PortsOf(knock)[i]
  <2>1. /\ Len(longer) = Len(cand.ports) + 1 /\ longer[Len(cand.ports) + 1] = p
        /\ \A i \in 1..Len(cand.ports) : longer[i] = cand.ports[i]
    <3>1. p \in KnockPorts /\ longer = Append(cand.ports, p) /\ cand.ports \in Seq(KnockPorts)
      BY <1>3, <1>4
    <3> QED BY ONLY <3>1, AppendProperties
  <2> QED BY <1>1, <1>2, <1>3, <2>1
<1>6. IsPrefixOf(longer, w, ch)
  BY <1>1, <1>2, <1>5 DEF IsPrefixOf, PortsOf
<1>7. s \in DOMAIN sweep_expired
  BY DEF sweep_expired
<1>8. Fits(cand, longer)
  <2>1. PICK x : x = <<w, ch>>
    OBVIOUS
  <2>2. x \in Tried(cand) /\ IsPrefixOf(longer, x[1], x[2])
    BY <1>3, <1>6, <2>1
  <2> QED BY <2>2 DEF Fits
<1>9. ~StartCandidate(s, p, clock) /\ ~BreakSequence(s, p, clock)
  BY <1>1, <1>4, <1>7, <1>8 DEF StartCandidate, BreakSequence
<1>10. CASE ExtendCandidate(s, p)
  <2>1. N < n_ports
    <3>1. ~Completes(cand, longer)
      BY <1>1, <1>4, <1>10 DEF ExtendCandidate
    <3>2. PICK x : x = <<w, ch>>
      OBVIOUS
    <3>3. ~(x \in Tried(cand) /\ IsFullMatch(longer, x[1], x[2]))
      BY <3>1 DEF Completes
    <3>4. N # n_ports
      BY <1>3, <1>5, <1>6, <3>2, <3>3 DEF IsFullMatch
    <3> QED BY <1>2, <3>4
  <2>2. candidates' = Put(sweep_expired, s, [cand EXCEPT !.ports = longer, !.last_seen_mono = clock])
    BY <1>1, <1>4, <1>10 DEF ExtendCandidate
  <2>3. /\ s \in DOMAIN candidates'
        /\ candidates'[s] = [cand EXCEPT !.ports = longer, !.last_seen_mono = clock]
    BY <2>2 DEF Put
  <2>4. /\ candidates'[s].ports = longer /\ candidates'[s].last_seen_mono = clock
        /\ candidates'[s].first_seen_wall = cand.first_seen_wall
    BY <1>3, <2>3 DEF Candidate
  <2> QED BY <1>1, <1>5, <2>1, <2>3, <2>4
<1>11. CASE \E v, d : RejectReplay(s, p, v, d) \/ AcceptMatch(s, p, v, d)
  <2>1. PICK v, d : RejectReplay(s, p, v, d) \/ AcceptMatch(s, p, v, d)
    BY <1>11
  <2>2. <<v, d>> \in Tried(cand) /\ IsFullMatch(longer, v, d)
    BY <1>1, <1>4, <2>1 DEF RejectReplay, AcceptMatch, IsFirstMatch
  <2>3. N = n_ports /\ \A i \in 1..n_ports : derive_ports(v, d)[i] = derive_ports(w, ch)[i]
    BY <1>1, <1>2, <1>5, <2>2 DEF IsFullMatch, IsPrefixOf, PortsOf
  <2>4. derive_ports(v, d) = derive_ports(w, ch)
    BY <2>3 DEF derive_ports
  <2>5. v = w /\ d = ch
    <3>1. PICK t : t = cand.first_seen_wall
      OBVIOUS
    <3>2. t \in Int /\ t <= MAX_CLOCK + LEAD
      BY <1>1, <3>1, CandidateIs DEF Candidate
    <3>3. /\ v \in candidate_windows(time_counter_for(t)) /\ d \in Channels
          /\ w \in candidate_windows(time_counter_for(t))
      BY <1>3, <2>2, <3>1 DEF Tried
    <3>4. v \in Nearby(w)
      BY <1>2, <3>2, <3>3, TriedTogetherAreNearby
    <3>5. <<v, d>> = <<w, ch>>
      BY <1>1, <2>4, <3>3, <3>4 DEF Unmistakable
    <3> QED BY <3>5
  <2>6. <<s, v, d>> \in DOMAIN replay_cache'
    BY <2>1 DEF RejectReplay, AcceptMatch, Put
  <2> QED BY <1>1, <2>3, <2>5, <2>6
<1>12. CASE DerivationThrows(s)
  BY <1>12 DEF DerivationThrows
<1> QED BY <1>9, <1>10, <1>11, <1>12 DEF on_packet

\* A knock with more to come does not wait too long for it.
LEMMA StaysAlive ==
    ASSUME ClientInv, NEW c \in Clients, Tolerable(c), Attempt(c) > 0, Underway(c), HasMore(c),
           arrived[c] \in Nat, NEW at, NEW time,
           Lined(wire[address[c]], c, Attempt(c), PortsOf(Current(c)),
                 arrived[c], Current(c).sent, at, time),
           Schedule(Current(c).window, c, Current(c).sent, time), DueInTime(c, time),
           arrived[c] <= Current(c).sent, NEW seen \in Int, time[arrived[c]] <= seen
    PROVE  clock - seen <= inactivity_timeout
<1>1. PICK n, m, q, N : /\ n = arrived[c] /\ m = Current(c).sent /\ N = n + 1
                        /\ q = wire[address[c]]
  OBVIOUS
<1>2. m \in Nat /\ n \in Nat /\ n > 0 /\ n <= m /\ N \in Nat
  <2>1. Current(c).sent \in Nat
    BY CurrentIs DEF ClientInv
  <2> QED BY <1>1, <2>1 DEF Underway
<1>3. time \in [1..m -> Int] /\ time[n] \in Int /\ n \in 1..m
  <2>1. time \in [1..m -> Int] /\ n \in 1..m
    BY <1>1, <1>2 DEF Schedule
  <2> QED BY <2>1
<1>4. /\ clock \in Int /\ wake[c] \in Int /\ knock_interval \in Int /\ SLACK \in Int /\ DELAY \in Int
      /\ inactivity_timeout \in Int /\ address[c] \in Sources
      /\ knock_interval + SLACK + DELAY <= inactivity_timeout /\ DELAY >= 0
  <2>1. clock \in Int /\ wake[c] \in Int
    BY SessionAssumption DEF ClientInv, ClientTypeOK
  <2> QED BY <2>1, ClientAssumption, SessionAssumption DEF Tolerable
<1>5. CASE n < m
  <2>1. N \in (n + 1)..m /\ N \in 1..m /\ n \in 1..(m - 1)
    BY <1>1, <1>2, <1>5
  <2>2. time[N] <= time[n] + knock_interval + SLACK
    BY <1>1, <2>1 DEF Schedule
  <2>3. PICK r \in 1..Len(q) : q[r].sent_at = time[N]
    BY <1>1, <2>1 DEF Lined
  <2>4. clock <= time[N] + DELAY
    <3>1. q[r] \in Travelling(address[c])
      BY <1>1, <1>4, QueueIs DEF ClientInv
    <3> QED BY <2>3, <3>1 DEF Travelling
  <2>5. time[N] \in Int
    BY <1>3, <2>1
  <2>6. time[n] <= seen
    BY <1>1
  <2> QED BY <1>3, <1>4, <2>2, <2>4, <2>5, <2>6
<1>6. CASE ~(n < m)
  <2>1. n = m /\ Sending(c) /\ m > 0
    BY <1>1, <1>2, <1>6 DEF HasMore
  <2>2. clock <= wake[c] + SLACK /\ wake[c] <= time[m] + knock_interval
    BY <1>1, <2>1 DEF DueInTime
  <2>3. time[m] <= seen
    BY <1>1, <2>1
  <2> QED BY <1>3, <1>4, <2>1, <2>2, <2>3
<1> QED BY <1>5, <1>6

\* A packet of the knock itself.
GotThrough(c) ==
    \/ aborted'
    \/ <<address[c], Current(c).window, Current(c).channel>> \in DOMAIN replay_cache'

LEMMA OwnArrives ==
    ASSUME ClientInv, n_ports > 1, NEW c \in Clients, Tolerable(c),
           Unmistakable(Current(c).window, Current(c).channel),
           arrived \in [Clients -> Nat], Attempt(c) > 0, OnTrack(c), Deliver(address[c]),
           IsOf(Head(wire[address[c]]), c, Attempt(c))
    PROVE  OnTrack(c)' /\ (arrived'[c] = n_ports => GotThrough(c))
<1>1. PICK at, time, s, q, N, k, m, n, M :
        /\ s = address[c] /\ q = wire[s] /\ N = Attempt(c) /\ k = Current(c)
        /\ m = k.sent /\ n = arrived[c] /\ M = n + 1
        /\ Lined(q, c, N, PortsOf(k), n, m, at, time)
        /\ Schedule(k.window, c, m, time)
        /\ DueInTime(c, time)
        /\ Underway(c) /\ HasMore(c) /\ ~aborted =>
              /\ s \in DOMAIN candidates
              /\ HoldsFirst(candidates[s], k, n, time)
  BY DEF OnTrack
<1>2. /\ ClientTypeOK /\ ValidArguments /\ s \in Sources /\ n \in Nat /\ m \in Nat /\ n <= m
      /\ m <= n_ports /\ n_ports \in Nat /\ clock \in Nat
      /\ k.channel \in Channels /\ Unmistakable(k.window, k.channel)
  <2>1. ClientTypeOK
    BY DEF ClientInv
  <2>2. /\ k.sent \in 0..n_ports /\ k.sent \in Nat /\ k.channel \in Channels
        /\ Unmistakable(k.window, k.channel)
    BY <1>1, <2>1, CurrentIs
  <2>3. n \in 0..k.sent /\ ValidArguments
    BY <1>1 DEF OnTrack
  <2>4. s \in Sources /\ clock \in Nat
    BY <1>1, <2>1, ClientAssumption, SessionAssumption DEF ClientTypeOK
  <2> QED BY <1>1, <2>1, <2>2, <2>3, <2>4, DerivationAssumption
<1>3. PICK packet : packet = Head(q) /\ IsOf(packet, c, N)
  BY <1>1
<1>4. /\ packet.port \in KnockPorts /\ on_packet(s, packet.port, clock)
      /\ packet.sent_at <= clock /\ clock <= packet.sent_at + DELAY
      /\ UNCHANGED <<attempts, clock>>
  <2>1. /\ packet \in Travelling(s) /\ packet.port \in KnockPorts
        /\ on_packet(s, packet.port, clock) /\ UNCHANGED <<attempts, clock>>
    BY <1>1, <1>2, <1>3, Delivery
  <2> QED BY <2>1 DEF Travelling
<1>5. /\ q # <<>> /\ wake' = wake /\ wire'[s] = Tail(q) /\ arrived'[c] = M
  <2>1. /\ wire[s] # <<>> /\ wake' = wake /\ wire' = [wire EXCEPT ![s] = Tail(@)]
    BY <1>1 DEF Deliver
  <2>2. arrived' = [arrived EXCEPT ![c] = @ + 1]
    <3>1. packet.client = c /\ packet.attempt = Attempt(packet.client)
      BY <1>1, <1>3 DEF IsOf
    <3> QED BY <1>1, <1>3, <3>1 DEF Deliver
  <2>3. DOMAIN wire = Sources
    BY <1>2 DEF ClientTypeOK
  <2> QED BY <1>1, <1>2, <2>1, <2>2, <2>3
<1>6. Attempt(c)' = N /\ Current(c)' = k
  BY <1>1, <1>4 DEF Attempt, Current
<1>7. /\ n < m /\ packet.port = PortsOf(k)[M] /\ packet.sent_at = time[M]
      /\ \E shrunk : Lined(Tail(q), c, N, PortsOf(k), M, m, shrunk, time)
  <2>1. q \in Seq(AnyPacket)
    BY <1>1, <1>2, QueueIs
  <2>2. PICK ports : ports = PortsOf(k)
    OBVIOUS
  <2>3. Lined(q, c, N, ports, n, m, at, time) /\ IsOf(Head(q), c, N)
    BY <1>1, <1>3, <2>2
  <2>4. /\ n < m /\ Head(q).port = ports[n + 1] /\ Head(q).sent_at = time[n + 1]
        /\ \E shrunk : Lined(Tail(q), c, N, ports, n + 1, m, shrunk, time)
    BY ONLY <1>2, <1>5, <2>1, <2>3, LineShrinks
  <2> QED BY <1>1, <1>3, <2>2, <2>4
<1>8. M \in Nat /\ M <= m /\ M <= n_ports /\ n = M - 1
  BY <1>1, <1>2, <1>7
<1>9. /\ M = n_ports => GotThrough(c)
      /\ M < n_ports /\ ~aborted' =>
            s \in DOMAIN candidates' /\ HoldsFirst(candidates'[s], k, M, time)
  <2>1. CASE n = 0
    <3>1. M = 1
      BY <1>1, <2>1
    <3>2. k.window \in candidate_windows(time_counter_for(clock))
      <4>1. time[1] \in Int
        BY <1>1, <1>2, <1>7 DEF Schedule
      <4>2. \E t \in (time[1] - SLACK)..time[1] :
               0 <= t + skew[c] /\ k.window = time_counter(t + skew[c])
        BY <1>1, <1>2, <1>7 DEF Schedule
      <4>3. time[1] <= clock /\ clock <= time[1] + DELAY
        BY <1>4, <1>7, <3>1
      <4> QED BY <1>2, <4>1, <4>2, <4>3, WindowIsTried
    <3>3. \/ aborted'
          \/ s \in DOMAIN candidates' /\ candidates'[s] = Fresh(packet.port, clock)
      <4>1. PICK p \in KnockPorts : p = packet.port
        BY <1>4
      <4>2. p = PortsOf(k)[1] /\ on_packet(s, p, clock)
        BY <1>4, <1>7, <3>1, <4>1
      <4>3. \/ aborted'
            \/ s \in DOMAIN candidates' /\ candidates'[s] = Fresh(p, clock)
        BY <1>2, <3>2, <4>2, FirstArrives
      <4> QED BY <4>1, <4>3
    <3>4. HoldsFirst(Fresh(packet.port, clock), k, 1, time)
      <4>1. PICK cand : cand = Fresh(packet.port, clock)
        OBVIOUS
      <4>2. /\ cand.ports = <<packet.port>> /\ cand.first_seen_wall = clock
            /\ cand.last_seen_mono = clock
        BY <4>1 DEF Fresh
      <4>3. Len(cand.ports) = 1 /\ \A i \in 1..1 : cand.ports[i] = PortsOf(k)[i]
        BY <1>7, <3>1, <4>2
      <4>4. <<k.window, k.channel>> \in Tried(cand)
        BY <1>2, <3>2, <4>2 DEF Tried
      <4>5. time[1] <= cand.last_seen_mono
        BY <1>4, <1>7, <3>1, <4>2
      <4> QED BY <4>1, <4>3, <4>4, <4>5 DEF HoldsFirst
    <3> QED BY <3>1, <3>3, <3>4
  <2>2. CASE n # 0
    <3>1. Underway(c) /\ HasMore(c) /\ ~aborted /\ n \in 1..(n_ports - 1)
      <4>1. ~aborted
        BY <1>2, <1>4, OthersAreSwept
      <4> QED BY <1>1, <1>2, <1>7, <2>2, <4>1 DEF Underway, HasMore
    <3>2. s \in DOMAIN candidates /\ HoldsFirst(candidates[s], k, n, time)
      BY <1>1, <3>1
    <3>3. clock - candidates[s].last_seen_mono <= inactivity_timeout
      <4>1. PICK seen : seen = candidates[s].last_seen_mono
        OBVIOUS
      <4>2. seen \in Int
        BY <3>2, <4>1 DEF ClientInv, IInv, TypeOK, Candidate
      <4>3. time[n] <= seen
        BY <3>2, <4>1 DEF HoldsFirst
      <4>4. clock - seen <= inactivity_timeout
        BY <1>1, <1>2, <3>1, <4>2, <4>3, StaysAlive
      <4> QED BY <4>1, <4>4
    <3>4. packet.port = PortsOf(k)[n + 1]
      BY <1>1, <1>7
    <3>5. \/ aborted'
          \/ /\ n + 1 = n_ports
             /\ <<s, k.window, k.channel>> \in DOMAIN replay_cache'
          \/ /\ n + 1 < n_ports
             /\ s \in DOMAIN candidates'
             /\ Len(candidates'[s].ports) = n + 1
             /\ \A i \in 1..(n + 1) : candidates'[s].ports[i] = PortsOf(k)[i]
             /\ candidates'[s].first_seen_wall = candidates[s].first_seen_wall
             /\ candidates'[s].last_seen_mono = clock
      BY <1>2, <1>4, <3>1, <3>2, <3>3, <3>4, NextArrives
    <3>6. GotThrough(c) <=> (aborted' \/ <<s, k.window, k.channel>> \in DOMAIN replay_cache')
      BY <1>1 DEF GotThrough
    <3>7. ASSUME s \in DOMAIN candidates', Len(candidates'[s].ports) = M,
                 \A i \in 1..M : candidates'[s].ports[i] = PortsOf(k)[i],
                 candidates'[s].first_seen_wall = candidates[s].first_seen_wall,
                 candidates'[s].last_seen_mono = clock
          PROVE  HoldsFirst(candidates'[s], k, M, time)
      <4>1. <<k.window, k.channel>> \in Tried(candidates'[s])
        BY <3>2, <3>7 DEF HoldsFirst, Tried
      <4>2. time[M] <= candidates'[s].last_seen_mono
        BY <1>4, <1>7, <3>7
      <4> QED BY <3>7, <4>1, <4>2 DEF HoldsFirst
    <3> QED BY <1>1, <1>8, <3>5, <3>6, <3>7
  <2> QED BY <2>1, <2>2
<1>10. PICK shrunk : Lined(Tail(q), c, N, PortsOf(k), M, m, shrunk, time)
  BY <1>7
<1>11. DueInTime(c, time)'
  <2>1. clock' = clock /\ wake' = wake /\ Current(c)' = Current(c)
    BY <1>1, <1>4, <1>5, <1>6
  <2> QED BY <1>1, <2>1 DEF DueInTime, Sending
<1>12. Underway(c)' => M < n_ports
  BY <1>5 DEF Underway
<1>13. /\ Lined(wire'[address[c]], c, Attempt(c)', PortsOf(Current(c)'),
                arrived'[c], Current(c)'.sent, shrunk, time)
       /\ Schedule(Current(c)'.window, c, Current(c)'.sent, time)
       /\ arrived'[c] \in 0..Current(c)'.sent
       /\ Underway(c)' /\ HasMore(c)' /\ ~aborted' =>
             /\ address[c] \in DOMAIN candidates'
             /\ HoldsFirst(candidates'[address[c]], Current(c)', arrived'[c], time)
  <2>1. Lined(wire'[address[c]], c, Attempt(c)', PortsOf(Current(c)'),
              arrived'[c], Current(c)'.sent, shrunk, time)
    BY <1>1, <1>5, <1>6, <1>10
  <2>2. Schedule(Current(c)'.window, c, Current(c)'.sent, time)
    BY <1>1, <1>6
  <2>3. arrived'[c] \in 0..Current(c)'.sent
    BY <1>1, <1>5, <1>6, <1>8
  <2>4. Underway(c)' /\ HasMore(c)' /\ ~aborted' =>
           /\ address[c] \in DOMAIN candidates'
           /\ HoldsFirst(candidates'[address[c]], Current(c)', arrived'[c], time)
    BY <1>1, <1>5, <1>6, <1>9, <1>12
  <2> QED BY <2>1, <2>2, <2>3, <2>4
<1>14. OnTrack(c)'
  BY <1>2, <1>11, <1>13 DEF OnTrack
<1> QED BY <1>5, <1>9, <1>14

\* A packet of somebody else, at this address or at another.
LEMMA OtherArrives ==
    ASSUME ClientInv, NEW c \in Clients, Tolerable(c), arrived \in [Clients -> Nat],
           Attempt(c) > 0, OnTrack(c), NEW s \in Sources, Deliver(s), c \notin spoiled',
           ~(s = address[c] /\ IsOf(Head(wire[s]), c, Attempt(c)))
    PROVE  OnTrack(c)'
<1>1. PICK packet : packet = Head(wire[s])
  OBVIOUS
<1>2. /\ ClientTypeOK /\ address[c] \in Sources /\ DOMAIN wire = Sources
      /\ UNCHANGED <<attempts, clock, wake>> /\ on_packet(s, packet.port, clock)
      /\ packet \in Travelling(s) /\ wire[s] # <<>> /\ wire' = [wire EXCEPT ![s] = Tail(@)]
      /\ wire[s] \in Seq(AnyPacket) /\ wire[address[c]] \in Seq(AnyPacket)
  <2>1. ClientTypeOK /\ address[c] \in Sources
    BY ClientAssumption DEF ClientInv
  <2>2. packet \in Travelling(s) /\ UNCHANGED <<attempts, clock>> /\ on_packet(s, packet.port, clock)
    BY <1>1, <2>1, Delivery
  <2>3. UNCHANGED wake /\ wire[s] # <<>> /\ wire' = [wire EXCEPT ![s] = Tail(@)]
    BY DEF Deliver
  <2>4. wire[s] \in Seq(AnyPacket) /\ wire[address[c]] \in Seq(AnyPacket) /\ DOMAIN wire = Sources
    BY <2>1, QueueIs DEF ClientTypeOK
  <2> QED BY <2>1, <2>2, <2>3, <2>4
<1>3. /\ packet.client \in Clients /\ address[packet.client] = s
      /\ ~IsOf(packet, c, Attempt(c))
  <2>1. packet.client \in Clients /\ address[packet.client] = s
    BY <1>2 DEF Travelling
  <2> QED BY <1>1, <2>1 DEF IsOf
<1>4. arrived'[c] = arrived[c]
  <2>1. CASE packet.attempt = Attempt(packet.client)
    <3>1. packet.client # c
      BY <1>3, <2>1 DEF IsOf
    <3>2. arrived' = [arrived EXCEPT ![packet.client] = @ + 1]
      BY <1>1, <2>1 DEF Deliver
    <3> QED BY <3>1, <3>2
  <2>2. CASE packet.attempt # Attempt(packet.client)
    BY <1>1, <2>2 DEF Deliver
  <2> QED BY <2>1, <2>2
<1>5. Survives(wire[address[c]], wire'[address[c]], c, Attempt(c))
  <2>1. CASE s = address[c]
    <3>1. wire'[address[c]] = Tail(wire[s]) /\ ~IsOf(Head(wire[s]), c, Attempt(c))
      BY <1>1, <1>2, <1>3, <2>1
    <3>2. Survives(wire[s], Tail(wire[s]), c, Attempt(c))
      BY <1>2, <3>1, TailSurvives
    <3> QED BY <2>1, <3>1, <3>2
  <2>2. CASE s # address[c]
    <3>1. wire'[address[c]] = wire[address[c]]
      BY <1>2, <2>2
    <3> QED BY <1>2, <3>1, SameSurvives
  <2> QED BY <2>1, <2>2
<1>6. ~aborted
  BY <1>2, OthersAreSwept
<1>7. ASSUME Underway(c), HasMore(c), address[c] \in DOMAIN candidates
      PROVE  /\ address[c] \in DOMAIN candidates'
             /\ candidates'[address[c]] = candidates[address[c]]
  <2>1. s # address[c]
    <3>1. c \notin DisturbedBy(packet)
      BY <1>1 DEF Deliver
    <3>2. c # packet.client \/ packet.attempt # Attempt(c)
      BY <1>3 DEF IsOf
    <3> QED BY <1>3, <1>7, <3>1, <3>2 DEF DisturbedBy
  <2>2. PICK at, time :
          /\ Lined(wire[address[c]], c, Attempt(c), PortsOf(Current(c)),
                   arrived[c], Current(c).sent, at, time)
          /\ Schedule(Current(c).window, c, Current(c).sent, time)
          /\ DueInTime(c, time)
          /\ HoldsFirst(candidates[address[c]], Current(c), arrived[c], time)
    BY <1>6, <1>7 DEF OnTrack
  <2>3. PICK seen : seen = candidates[address[c]].last_seen_mono
    OBVIOUS
  <2>4. seen \in Int /\ time[arrived[c]] <= seen
    BY <1>7, <2>2, <2>3 DEF ClientInv, IInv, TypeOK, Candidate, HoldsFirst
  <2>5. arrived[c] <= Current(c).sent /\ arrived[c] \in Nat
    <3>1. arrived[c] \in 0..Current(c).sent
      BY DEF OnTrack
    <3> QED BY <3>1
  <2>6. clock - seen <= inactivity_timeout
    BY <1>7, <2>2, <2>4, <2>5, StaysAlive
  <2> QED BY <1>2, <1>7, <2>1, <2>3, <2>6, OthersAreSwept
<1>8. /\ Attempt(c)' = Attempt(c) /\ Current(c)' = Current(c) /\ wake'[c] \in {wake[c], -1}
      /\ clock' = clock
  BY <1>2 DEF Attempt, Current
<1> QED BY <1>2, <1>4, <1>5, <1>6, <1>7, <1>8, Unaffected

\* Time passes: no packet is overdue, and no client oversleeps.
LEMMA TimeTracks ==
    ASSUME ClientInv, NEW c \in Clients, OnTrack(c), PassTime
    PROVE  OnTrack(c)'
<1>1. /\ UNCHANGED <<attempts, wake, wire, arrived, candidates, aborted>> /\ clock' = clock + 1
      /\ Sending(c) => clock < wake[c] + SLACK
  BY DEF PassTime, Tick
<1>2. clock \in Int /\ wake[c] \in Int /\ SLACK \in Int
  BY ClientAssumption, SessionAssumption DEF ClientInv, ClientTypeOK
<1>3. /\ Attempt(c)' = Attempt(c) /\ Current(c)' = Current(c) /\ arrived'[c] = arrived[c]
      /\ (Underway(c) <=> Underway(c)') /\ (HasMore(c) <=> HasMore(c)')
  BY <1>1 DEF Attempt, Current, Underway, HasMore, Sending
<1>4. PICK at, time :
        /\ Lined(wire[address[c]], c, Attempt(c), PortsOf(Current(c)),
                 arrived[c], Current(c).sent, at, time)
        /\ Schedule(Current(c).window, c, Current(c).sent, time)
        /\ DueInTime(c, time)
        /\ Underway(c) /\ HasMore(c) /\ ~aborted =>
              /\ address[c] \in DOMAIN candidates
              /\ HoldsFirst(candidates[address[c]], Current(c), arrived[c], time)
  BY DEF OnTrack
<1>5. DueInTime(c, time)'
  BY <1>1, <1>2, <1>3, <1>4 DEF DueInTime, Sending
<1>6. ValidArguments /\ arrived'[c] \in 0..Current(c)'.sent
  BY <1>3 DEF OnTrack
<1>7. Lined(wire'[address[c]], c, Attempt(c)', PortsOf(Current(c)'),
            arrived'[c], Current(c)'.sent, at, time)
  BY <1>1, <1>3, <1>4
<1>8. Schedule(Current(c)'.window, c, Current(c)'.sent, time)
  BY <1>3, <1>4
<1>9. Underway(c)' /\ HasMore(c)' /\ ~aborted' =>
         /\ address[c] \in DOMAIN candidates'
         /\ HoldsFirst(candidates'[address[c]], Current(c)', arrived'[c], time)
  BY <1>1, <1>3, <1>4
<1> QED BY <1>3, <1>5, <1>6, <1>7, <1>8, <1>9 DEF OnTrack

\* The clients' own steps, and the faults that do not disturb the knock.
LEMMA QuietStep ==
    ASSUME ClientTypeOK, NEW c \in Clients, Attempt(c) > 0, OnTrack(c),
           UNCHANGED vars, attempts'[c] = attempts[c], arrived'[c] = arrived[c],
           wake'[c] \in {wake[c], -1},
           Survives(wire[address[c]], wire'[address[c]], c, Attempt(c))
    PROVE  OnTrack(c)'
<1>1. /\ Attempt(c)' = Attempt(c) /\ Current(c)' = Current(c)
      /\ clock' = clock /\ candidates' = candidates /\ aborted' = aborted
  BY DEF vars, Attempt, Current
<1> QED BY <1>1, Unaffected

LEMMA ClientTracks ==
    ASSUME ClientInv, TrackInv, n_ports > 1, NEW d \in Clients,
           \/ \E channel \in Channels : StartKnock(d, channel)
           \/ SendPacket(d)
           \/ GiveUp(d),
           NEW c \in Clients, Tolerable(c), Attempt(c)' > 0, c \notin spoiled',
           Unmistakable(Current(c)'.window, Current(c)'.channel)
    PROVE  OnTrack(c)'
<1>1. /\ ClientTypeOK /\ arrived \in [Clients -> Nat] /\ DOMAIN wire = Sources
      /\ attempts \in [Clients -> Seq(Knock)] /\ wake \in [Clients -> Int]
      /\ address[c] \in Sources /\ address[d] \in Sources
      /\ wire[address[c]] \in Seq(AnyPacket)
  <2>1. ClientTypeOK /\ arrived \in [Clients -> Nat] /\ address[c] \in Sources /\ address[d] \in Sources
    BY ClientAssumption DEF ClientInv, TrackInv
  <2> QED BY <2>1, QueueIs DEF ClientTypeOK
<1>2. CASE \E channel \in Channels : StartKnock(d, channel)
  <2>1. PICK channel \in Channels : StartKnock(d, channel)
    BY <1>2
  <2>2. CASE d = c
    BY <1>1, <2>1, <2>2, StartTracks
  <2>3. CASE d # c
    <3>1. /\ UNCHANGED vars /\ attempts'[c] = attempts[c] /\ wake'[c] = wake[c]
          /\ arrived'[c] = arrived[c] /\ wire' = wire /\ c \notin spoiled
      BY <1>1, <2>1, <2>3 DEF StartKnock
    <3>2. Attempt(c) > 0 /\ Current(c)' = Current(c)
      BY <3>1 DEF Attempt, Current
    <3>3. OnTrack(c)
      BY <3>1, <3>2 DEF TrackInv
    <3>4. Survives(wire[address[c]], wire'[address[c]], c, Attempt(c))
      BY <1>1, <3>1, SameSurvives
    <3> QED BY <1>1, <3>1, <3>2, <3>3, <3>4, QuietStep
  <2> QED BY <2>2, <2>3
<1>3. CASE SendPacket(d)
  <2>1. UNCHANGED <<vars, arrived, spoiled>>
    BY <1>3 DEF SendPacket
  <2>2. CASE d = c
    <3>1. Attempt(c) > 0
      BY <1>1, <1>3, <2>2, SendKeeps, KnocksAre DEF SendPacket, ClientTypeOK
    <3>2. Current(c)'.window = Current(c).window /\ Current(c)'.channel = Current(c).channel
      <4>1. Attempt(c)' = Attempt(c)
        BY <1>1, <1>3, <2>2 DEF SendPacket, Attempt
      <4>2. Grows /\ <<c, Attempt(c)>> \in Knocks
        BY <1>1, <1>3, <2>2, SendKeeps
      <4>3. PICK x : x = <<c, Attempt(c)>>
        OBVIOUS
      <4>4. /\ attempts'[x[1]][x[2]].window = attempts[x[1]][x[2]].window
            /\ attempts'[x[1]][x[2]].channel = attempts[x[1]][x[2]].channel
        BY <4>2, <4>3 DEF Grows
      <4> QED BY <4>1, <4>3, <4>4 DEF Current
    <3>3. Unmistakable(Current(c).window, Current(c).channel)
      BY <3>2
    <3>4. OnTrack(c)
      BY <2>1, <3>1, <3>3 DEF TrackInv
    <3> QED BY <1>1, <1>3, <2>1, <2>2, <3>4, SendTracks
  <2>3. CASE d # c
    <3>1. attempts'[c] = attempts[c] /\ wake'[c] = wake[c]
      BY <1>1, <1>3, <2>3 DEF SendPacket
    <3>2. Attempt(c) > 0 /\ Current(c)' = Current(c)
      BY <3>1 DEF Attempt, Current
    <3>3. OnTrack(c)
      BY <2>1, <3>2 DEF TrackInv
    <3>4. PICK packet : /\ packet.client = d
                        /\ wire' = [wire EXCEPT ![address[d]] = Append(@, packet)]
                        /\ packet \in AnyPacket
      <4>1. [client |-> d, attempt |-> Attempt(d), sent_at |-> clock,
             place |-> Current(d).sent + 1,
             port |-> PortsOf(Current(d))[Current(d).sent + 1]] \in AnyPacket
        BY <1>1, <1>3, SendKeeps DEF Travelling, AnyPacket
      <4> QED BY <1>3, <4>1 DEF SendPacket
    <3>5. Survives(wire[address[c]], wire'[address[c]], c, Attempt(c))
      <4>1. CASE address[d] = address[c]
        <5>1. wire'[address[c]] = Append(wire[address[c]], packet)
          BY <1>1, <3>4, <4>1
        <5>2. ~IsOf(packet, c, Attempt(c))
          BY <2>3, <3>4 DEF IsOf
        <5> QED BY <1>1, <3>4, <5>1, <5>2, AppendSurvives
      <4>2. CASE address[d] # address[c]
        <5>1. wire'[address[c]] = wire[address[c]]
          BY <1>1, <3>4, <4>2
        <5> QED BY <1>1, <5>1, SameSurvives
      <4> QED BY <4>1, <4>2
    <3> QED BY <1>1, <2>1, <3>1, <3>2, <3>3, <3>5, QuietStep
  <2> QED BY <2>2, <2>3
<1>4. CASE GiveUp(d)
  <2>1. /\ UNCHANGED <<vars, attempts, wire, arrived, spoiled>>
        /\ wake'[c] \in {wake[c], -1}
    BY <1>1, <1>4 DEF GiveUp
  <2>2. Attempt(c) > 0 /\ Current(c)' = Current(c)
    BY <2>1 DEF Attempt, Current
  <2>3. OnTrack(c)
    BY <2>1, <2>2 DEF TrackInv
  <2>4. Survives(wire[address[c]], wire'[address[c]], c, Attempt(c))
    BY <1>1, <2>1, SameSurvives
  <2> QED BY <1>1, <2>1, <2>2, <2>3, <2>4, QuietStep
<1> QED BY <1>2, <1>3, <1>4

\* A packet counts as arrived only for its own knock.
LEMMA ArrivalsAreOwn ==
    ASSUME ClientInv, arrived \in [Clients -> Nat], [ClientNext]_clientVars
    PROVE  /\ arrived' \in [Clients -> Nat]
           /\ \A c \in Clients :
                 \/ arrived'[c] \in {arrived[c], 0}
                 \/ Deliver(address[c]) /\ IsOf(Head(wire[address[c]]), c, Attempt(c))
<1>1. CASE \E s \in Sources : Deliver(s)
  <2>1. PICK s \in Sources : Deliver(s)
    BY <1>1
  <2>2. PICK packet : packet = Head(wire[s])
    OBVIOUS
  <2>3. packet.client \in Clients /\ address[packet.client] = s
    BY <2>1, <2>2, Delivery DEF ClientInv, Travelling
  <2>4. CASE packet.attempt = Attempt(packet.client)
    <3>1. arrived' = [arrived EXCEPT ![packet.client] = @ + 1]
      BY <2>1, <2>2, <2>4 DEF Deliver
    <3>2. arrived[packet.client] + 1 \in Nat
      BY <2>3
    <3>3. arrived' \in [Clients -> Nat]
      BY <3>1, <3>2
    <3>4. ASSUME NEW c \in Clients, c = packet.client
          PROVE  Deliver(address[c]) /\ IsOf(Head(wire[address[c]]), c, Attempt(c))
      BY <2>1, <2>2, <2>3, <2>4, <3>4 DEF IsOf
    <3>5. ASSUME NEW c \in Clients, c # packet.client
          PROVE  arrived'[c] = arrived[c]
      BY <3>1, <3>5
    <3> QED BY <3>3, <3>4, <3>5
  <2>5. CASE packet.attempt # Attempt(packet.client)
    BY <2>1, <2>2, <2>5 DEF Deliver
  <2> QED BY <2>4, <2>5
<1>2. CASE \E c \in Clients : \E channel \in Channels : StartKnock(c, channel)
  <2>1. PICK c \in Clients : arrived' = [arrived EXCEPT ![c] = 0]
    BY <1>2 DEF StartKnock
  <2> QED BY <2>1
<1>3. CASE \/ \E c \in Clients : SendPacket(c) \/ GiveUp(c)
           \/ \E s \in Sources : \E i \in 1..Len(wire[s]) : Lose(s, i) \/ Duplicate(s, i) \/ Swap(s, i)
           \/ PassTime
           \/ UNCHANGED clientVars
  BY <1>3 DEF SendPacket, GiveUp, Lose, Duplicate, Swap, Fault, PassTime, clientVars
<1> QED BY <1>1, <1>2, <1>3 DEF ClientNext

LEMMA StepTracks ==
    ASSUME ClientInv, TrackInv, n_ports > 1, [ClientNext]_clientVars,
           NEW c \in Clients, Tolerable(c), Attempt(c)' > 0, c \notin spoiled',
           Unmistakable(Current(c)'.window, Current(c)'.channel)
    PROVE  OnTrack(c)'
<1>1. /\ ClientTypeOK /\ WireOK /\ arrived \in [Clients -> Nat] /\ address[c] \in Sources
      /\ wire[address[c]] \in Seq(AnyPacket)
  <2>1. ClientTypeOK /\ arrived \in [Clients -> Nat] /\ address[c] \in Sources
    BY ClientAssumption DEF ClientInv, TrackInv
  <2> QED BY <2>1, QueueIs DEF ClientTypeOK, WireOK
<1>2. CASE \E d \in Clients : \/ \E channel \in Channels : StartKnock(d, channel)
                              \/ SendPacket(d)
                              \/ GiveUp(d)
  BY <1>2, ClientTracks
<1>3. ASSUME attempts' = attempts, c \notin spoiled
      PROVE  Attempt(c) > 0 /\ OnTrack(c)
  <2>1. Attempt(c) > 0 /\ Current(c)' = Current(c)
    BY <1>3 DEF Attempt, Current
  <2> QED BY <1>3, <2>1 DEF TrackInv
<1>4. CASE \E s \in Sources : Deliver(s)
  <2>1. PICK s \in Sources : Deliver(s)
    BY <1>4
  <2>2. /\ Attempt(c) > 0 /\ OnTrack(c)
        /\ Unmistakable(Current(c).window, Current(c).channel)
    <3>1. attempts' = attempts /\ c \notin spoiled
      BY <2>1 DEF Deliver
    <3> QED BY <1>3, <3>1 DEF Current, Attempt
  <2>3. CASE s = address[c] /\ IsOf(Head(wire[s]), c, Attempt(c))
    BY <1>1, <2>1, <2>2, <2>3, OwnArrives
  <2>4. CASE ~(s = address[c] /\ IsOf(Head(wire[s]), c, Attempt(c)))
    BY <1>1, <2>1, <2>2, <2>4, OtherArrives
  <2> QED BY <2>3, <2>4
<1>5. CASE \E s \in Sources : \E i \in 1..Len(wire[s]) : Lose(s, i) \/ Duplicate(s, i) \/ Swap(s, i)
  <2>1. PICK a : a = Attempt(c)
    OBVIOUS
  <2>2. /\ UNCHANGED <<vars, attempts, wake, arrived>> /\ c \notin spoiled
        /\ \A x \in Sources : Survives(wire[x], wire'[x], c, a)
    BY <1>1, <1>5, FaultSurvives
  <2>3. Attempt(c) > 0 /\ OnTrack(c)
    BY <1>3, <2>2
  <2> QED BY <1>1, <2>1, <2>2, <2>3, QuietStep
<1>6. CASE PassTime
  <2>1. attempts' = attempts /\ c \notin spoiled
    BY <1>6 DEF PassTime
  <2> QED BY <1>3, <1>6, <2>1, TimeTracks
<1>7. CASE UNCHANGED clientVars
  <2>1. UNCHANGED <<vars, attempts, wake, wire, arrived, spoiled>>
    BY <1>7 DEF clientVars
  <2>2. Attempt(c) > 0 /\ OnTrack(c)
    BY <1>3, <2>1
  <2>3. Survives(wire[address[c]], wire'[address[c]], c, Attempt(c))
    BY <1>1, <2>1, SameSurvives
  <2> QED BY <1>1, <2>1, <2>2, <2>3, QuietStep
<1> QED BY <1>2, <1>4, <1>5, <1>6, <1>7 DEF ClientNext

LEMMA TrackStep ==
    ASSUME ClientInv, TrackInv, [ClientNext]_clientVars
    PROVE  TrackInv'
<1>1. arrived' \in [Clients -> Nat]
  BY ArrivalsAreOwn DEF TrackInv
<1>2. ASSUME n_ports > 1, NEW c \in Clients, Tolerable(c), Attempt(c)' > 0, c \notin spoiled',
             Unmistakable(Current(c)'.window, Current(c)'.channel)
      PROVE  OnTrack(c)'
  BY <1>2, StepTracks
<1> QED BY <1>1, <1>2 DEF TrackInv, Tolerable, Unmistakable, Nearby, StartsLike, NearWindows,
           derive_ports, time_counter_for

(***************************************************************************)
(* An undisturbed knock of a client within the tolerances stays on track:  *)
(* what has arrived of it is the candidate of its address, and the rest    *)
(* comes in order and in time, whatever knocks were given up, lost or sent *)
(* by others before it.                                                    *)
(***************************************************************************)
THEOREM TrackInvariance == ClientSpec => []TrackInv
<1>1. ClientInit => TrackInv
  <2> SUFFICES ASSUME ClientInit PROVE TrackInv
    OBVIOUS
  <2>1. /\ arrived = [c \in Clients |-> 0] /\ attempts = [c \in Clients |-> <<>>]
    BY DEF ClientInit
  <2>2. \A c \in Clients : ~(Attempt(c) > 0)
    BY <2>1 DEF Attempt
  <2>3. arrived \in [Clients -> Nat]
    BY <2>1
  <2> QED BY <2>2, <2>3 DEF TrackInv
<1>2. ClientInv /\ TrackInv /\ [ClientNext]_clientVars => TrackInv'
  BY TrackStep
<1> QED BY <1>1, <1>2, ClientInvariance, PTL DEF ClientSpec

(***************************************************************************)
(* When the last packet of such a knock has arrived, its code is spent.    *)
(***************************************************************************)
THEOREM KnocksGetThrough == ClientSpec => GetsThrough
<1> DEFINE Step ==
      n_ports > 1 =>
          \A c \in Clients :
              /\ arrived[c] = n_ports - 1 /\ arrived'[c] = n_ports
              /\ c \notin spoiled' /\ Tolerable(c)
              /\ Unmistakable(Current(c).window, Current(c).channel)
              => \/ aborted'
                 \/ <<address[c], Current(c).window, Current(c).channel>>
                        \in DOMAIN replay_cache'
<1>1. ClientInv /\ TrackInv /\ [ClientNext]_clientVars => [Step]_clientVars
  <2> SUFFICES ASSUME ClientInv, TrackInv, [ClientNext]_clientVars,
                      n_ports > 1, NEW c \in Clients,
                      arrived[c] = n_ports - 1, arrived'[c] = n_ports,
                      c \notin spoiled', Tolerable(c),
                      Unmistakable(Current(c).window, Current(c).channel)
               PROVE  GotThrough(c)
    BY DEF GotThrough
  <2>1. arrived \in [Clients -> Nat] /\ arrived'[c] \notin {arrived[c], 0}
    BY DerivationAssumption DEF TrackInv
  <2>2. Deliver(address[c]) /\ IsOf(Head(wire[address[c]]), c, Attempt(c))
    BY <2>1, ArrivalsAreOwn
  <2>3. Attempt(c) > 0
    <3>1. address[c] \in Sources /\ ClientTypeOK
      BY ClientAssumption DEF ClientInv
    <3>2. Head(wire[address[c]]) \in Travelling(address[c])
      BY <2>2, <3>1, Delivery
    <3>3. <<c, Attempt(c)>> \in Knocks
      BY <2>2, <3>2 DEF Travelling, IsOf
    <3> QED BY <3>3, KnocksAre
  <2>4. OnTrack(c)
    <3>1. c \notin spoiled
      BY <2>2 DEF Deliver
    <3> QED BY <2>3, <3>1 DEF TrackInv
  <2> QED BY <2>1, <2>2, <2>3, <2>4, OwnArrives
<1> QED BY <1>1, TrackInvariance, ClientInvariance, PTL DEF ClientSpec, GetsThrough
=============================================================================
