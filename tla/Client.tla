------------------------------- MODULE Client --------------------------------
(***************************************************************************)
(* Clients (client/knockc), the network, and the tracker of Session: what  *)
(* becomes of a knock between the clock of its sender and the replay cache *)
(* of the daemon.                                                          *)
(*                                                                         *)
(* A client computes its window once, from its own wall clock, and sends   *)
(* one SYN to each port, a pause between two of them.  Clients that share  *)
(* an address (the CLI and the GUI of one host, hosts behind one NAT) are  *)
(* one source to the daemon.  The network is external: a queue per         *)
(* address, which may lose, duplicate or swap packets at most MAX_FAULTS   *)
(* times and delivers the others within DELAY.                             *)
(***************************************************************************)
EXTENDS Session, SequencesExt

CONSTANTS
    Clients,
    address,          \* client |-> its source address
    skew,             \* client |-> how far its wall clock is ahead
    knock_interval,   \* the pause between two packets
    SLACK,            \* how much longer than asked a client sleeps at most
    DELAY,            \* how long a packet is on its way at most
    MAX_ATTEMPTS,     \* bound on the knocks of all clients
    MAX_FAULTS        \* bound on faults of the network

\* Mutant: the window is rounded up.
NextWindow(t) == (t \div time_step_seconds) + 1

time_counter(t) == t \div time_step_seconds

\* The windows that clients compute.
SentWindows == {time_counter(t + skew[c]) : t \in BOOT..MAX_CLOCK, c \in Clients} \cap Nat

ASSUME ClientAssumption ==
    /\ address \in [Clients -> Sources]
    /\ skew \in [Clients -> Int]
    /\ knock_interval \in Nat /\ SLACK \in Nat /\ DELAY \in Nat
    /\ MAX_ATTEMPTS \in Nat /\ MAX_FAULTS \in Nat
    /\ \A w \in SentWindows, c \in Channels :
          hmac_sha256(message(w, c)) \in [1..32 -> Byte]

VARIABLES
    attempts,     \* client |-> its knocks: window, channel, packets sent
    wake,         \* client |-> when its next packet is due, -1 if there is none
    wire,         \* address |-> the packets on their way
    arrived,      \* history: client |-> packets of its last knock delivered
    spoiled,      \* history: clients whose last knock was disturbed
    faults

clientVars == <<vars, attempts, wake, wire, arrived, spoiled, faults>>

Sending(c)  == wake[c] # -1
Attempt(c)  == Len(attempts[c])
Current(c)  == attempts[c][Attempt(c)]
PortsOf(a)  == derive_ports(a.window, a.channel)

ClientInit ==
    /\ Init
    /\ attempts = [c \in Clients |-> <<>>]
    /\ wake = [c \in Clients |-> -1]
    /\ wire = [s \in Sources |-> <<>>]
    /\ arrived = [c \in Clients |-> 0]
    /\ spoiled = {} /\ faults = 0

-----------------------------------------------------------------------------
\* The knocks of all clients.
Knocks == UNION {{c} \X (1..Attempt(c)) : c \in Clients}

\* main of cli.py, _on_send of gui.py: the window is computed once, before the
\* first packet.  derive_ports raises for other arguments, and time before 1970.
StartKnock(c, channel) ==
    /\ ~Sending(c)
    /\ Cardinality(Knocks) < MAX_ATTEMPTS
    /\ ValidArguments /\ 0 <= clock + skew[c]
    /\ attempts' = [attempts EXCEPT ![c] =
                      Append(@, [window |-> time_counter(clock + skew[c]),
                                 channel |-> channel, sent |-> 0])]
    /\ wake' = [wake EXCEPT ![c] = clock]
    /\ arrived' = [arrived EXCEPT ![c] = 0]
    /\ spoiled' = spoiled \ {c}
    /\ UNCHANGED <<vars, wire, faults>>

\* send_tcp_syn_knocks: no pause after the last packet.
SendPacket(c) ==
    /\ Sending(c) /\ clock >= wake[c]
    /\ LET i == Current(c).sent + 1
       IN  /\ wire' = [wire EXCEPT ![address[c]] =
                         Append(@, [client |-> c, attempt |-> Attempt(c), place |-> i,
                                    port |-> PortsOf(Current(c))[i],
                                    sent_at |-> clock])]
           /\ attempts' = [attempts EXCEPT ![c][Attempt(c)].sent = i]
           /\ wake' = [wake EXCEPT ![c] = IF i < n_ports THEN clock + knock_interval ELSE -1]
    /\ UNCHANGED <<vars, arrived, spoiled, faults>>

\* The user interrupts the client, or scapy raises an error.
GiveUp(c) ==
    /\ Sending(c)
    /\ wake' = [wake EXCEPT ![c] = -1]
    /\ UNCHANGED <<vars, attempts, wire, arrived, spoiled, faults>>

-----------------------------------------------------------------------------
(***************************************************************************)
(* The network.  A knock is disturbed by a fault that hits the client's    *)
(* packets, and by a packet of somebody else at its address that arrives   *)
(* between its own.                                                        *)
(***************************************************************************)
Underway(c) == arrived[c] > 0 /\ arrived[c] < n_ports

DisturbedBy(packet) ==
    {c \in Clients :
        /\ address[c] = address[packet.client] /\ Underway(c)
        /\ c # packet.client \/ packet.attempt # Attempt(c)}

Deliver(s) ==
    /\ wire[s] # <<>>
    /\ LET packet == Head(wire[s])
       IN  /\ on_packet(s, packet.port, clock)
           /\ spoiled' = spoiled \cup DisturbedBy(packet)
           /\ arrived' = IF packet.attempt = Attempt(packet.client)
                         THEN [arrived EXCEPT ![packet.client] = @ + 1]
                         ELSE arrived
    /\ wire' = [wire EXCEPT ![s] = Tail(@)]
    /\ UNCHANGED <<attempts, wake, faults>>

Fault(s, packets, hit) ==
    /\ faults < MAX_FAULTS
    /\ faults' = faults + 1
    /\ wire' = [wire EXCEPT ![s] = packets]
    /\ spoiled' = spoiled \cup {packet.client : packet \in hit}
    /\ UNCHANGED <<vars, attempts, wake, arrived>>

Lose(s, i) == Fault(s, RemoveAt(wire[s], i), {wire[s][i]})

\* The copy arrives somewhere behind the original.
Duplicate(s, i) ==
    \E j \in i..Len(wire[s]) :
        Fault(s, InsertAt(wire[s], j + 1, wire[s][i]), {wire[s][i]})

Swap(s, i) ==
    /\ i < Len(wire[s])
    /\ Fault(s, [wire[s] EXCEPT ![i] = wire[s][i + 1], ![i + 1] = wire[s][i]],
             {wire[s][i], wire[s][i + 1]})

\* Time passes while no packet is overdue and no client oversleeps.
PassTime ==
    /\ \A c \in Clients : Sending(c) => clock < wake[c] + SLACK
    /\ \A s \in Sources : \A i \in 1..Len(wire[s]) : clock < wire[s][i].sent_at + DELAY
    /\ Tick
    /\ UNCHANGED <<attempts, wake, wire, arrived, spoiled, faults>>

ClientNext ==
    \/ \E c \in Clients :
          \/ \E channel \in Channels : StartKnock(c, channel)
          \/ SendPacket(c)
          \/ GiveUp(c)
    \/ \E s \in Sources :
          \/ Deliver(s)
          \/ \E i \in 1..Len(wire[s]) : Lose(s, i) \/ Duplicate(s, i) \/ Swap(s, i)
    \/ PassTime

ClientSpec == ClientInit /\ [][ClientNext]_clientVars

-----------------------------------------------------------------------------
\* A knock that no sequence tried at the time disturbs: its first port goes on
\* with none of them, and its ports spell no other code.
Unmistakable(w, c) ==
    /\ \A i \in 2..n_ports : ~StartsLike(w, c, i)
    /\ \A v \in Nearby(w), d \in Channels :
          derive_ports(v, d) = derive_ports(w, c) => <<v, d>> = <<w, c>>

\* A client whose clock and pauses the protocol is meant to tolerate.
Tolerable(c) ==
    /\ skew[c] <= time_step_seconds
    /\ DELAY + SLACK - skew[c] <= time_step_seconds
    /\ knock_interval + SLACK + DELAY <= inactivity_timeout

(***************************************************************************)
(* A knock of a client within the tolerances, none of whose packets is     *)
(* lost, duplicated, overtaken or interrupted, has spent its code when its *)
(* last packet has arrived, whatever knocks were given up, lost or sent by *)
(* others before it; it is refused only because the code is spent already. *)
(* This holds of every knock that is unmistakable, whatever ports the      *)
(* other knocks share with it and with one another.                        *)
(* (A knock of one port never gets through: the path for a first packet    *)
(* compares nothing.)                                                      *)
(***************************************************************************)
GetsThrough ==
    [][n_ports > 1 =>
          \A c \in Clients :
              /\ arrived[c] = n_ports - 1 /\ arrived'[c] = n_ports
              /\ c \notin spoiled' /\ Tolerable(c)
              /\ Unmistakable(Current(c).window, Current(c).channel)
              => \/ aborted'
                 \/ <<address[c], Current(c).window, Current(c).channel>>
                        \in DOMAIN replay_cache']_clientVars

\* A client at address s has sent a packet to port p.
WasSent(s, p) ==
    \E x \in Knocks :
        /\ address[x[1]] = s
        /\ \E i \in 1..attempts[x[1]][x[2]].sent : p = PortsOf(attempts[x[1]][x[2]])[i]

(***************************************************************************)
(* Whatever the network does, a code is accepted only when clients of its  *)
(* address have sent a packet to each of its ports: the remains of knocks  *)
(* can mix, where they share ports, but nobody else's packets take part.   *)
(***************************************************************************)
AcceptedWasSent ==
    \A k \in DOMAIN accepted : \A i \in 1..n_ports :
        WasSent(k[1], derive_ports(k[2], k[3])[i])

(***************************************************************************)
(* The network cannot make two knocks of one: a code is accepted no more   *)
(* often than clients of its address have sent a packet to its last port,  *)
(* as long as a packet is not on its way for longer than a spent code is   *)
(* remembered.  A packet is known by its knock and its place in it.        *)
(***************************************************************************)
LastPortsSent(k) ==
    {x \in Knocks \X (1..n_ports) :
        LET knock == attempts[x[1][1]][x[1][2]]
        IN  /\ address[x[1][1]] = k[1] /\ x[2] <= knock.sent
            /\ PortsOf(knock)[x[2]] = derive_ports(k[2], k[3])[n_ports]}

OncePerSend ==
    DELAY <= replay_ttl =>
        \A k \in DOMAIN accepted : Len(accepted[k]) <= Cardinality(LastPortsSent(k))

-----------------------------------------------------------------------------
(***************************************************************************)
(* The inductive invariant.  What is on its way, and what waits in a       *)
(* candidate, was sent from that address.                                  *)
(***************************************************************************)
Knock == [window : SentWindows, channel : Channels, sent : 0..n_ports]

SentPorts(s) == {p \in KnockPorts : WasSent(s, p)}

\* The packets that can be on the wire of s.
Travelling(s) ==
    {packet \in [client : Clients, attempt : Nat, place : 1..n_ports,
                  port : KnockPorts, sent_at : Nat] :
        LET x == <<packet.client, packet.attempt>>
        IN  /\ x \in Knocks /\ address[x[1]] = s
            /\ packet.sent_at <= clock /\ clock <= packet.sent_at + DELAY
            /\ packet.place <= attempts[x[1]][x[2]].sent
            /\ packet.port = PortsOf(attempts[x[1]][x[2]])[packet.place]}

ClientTypeOK ==
    /\ clock \in BOOT..MAX_CLOCK
    /\ attempts \in [Clients -> Seq(Knock)]
    /\ IsFiniteSet(Knocks)
    /\ wake \in [Clients -> Int]
    /\ \A c \in Clients :
          Sending(c) => ValidArguments /\ Attempt(c) > 0 /\ Current(c).sent < n_ports
    /\ DOMAIN wire = Sources /\ \A s \in Sources : wire[s] \in Seq(Travelling(s))

CandidatesWereSent ==
    \A s \in DOMAIN candidates : candidates[s].ports \in Seq(SentPorts(s))

\* What is left on the wire of the packets U is not late for an acceptance at time.
OnlyStale(s, U, time) ==
    \A i \in 1..Len(wire[s]) :
        LET packet == wire[s][i]
        IN  <<<<packet.client, packet.attempt>>, packet.place>> \in U =>
                packet.sent_at <= time

\* Each acceptance has used up a packet that was sent to the last port.
AcceptedUsedUp ==
    DELAY <= replay_ttl =>
        \A k \in DOMAIN accepted : \E U \in SUBSET LastPortsSent(k) :
            /\ Len(accepted[k]) <= Cardinality(U)
            /\ OnlyStale(k[1], U, accepted[k][Len(accepted[k])])

ClientInv ==
    /\ IInv
    /\ ClientTypeOK
    /\ CandidatesWereSent
    /\ AcceptedWasSent
    /\ AcceptedUsedUp
=============================================================================
