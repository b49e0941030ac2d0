------------------------------- MODULE Knockd --------------------------------
(***************************************************************************)
(* The daemon (server/src/main.cpp, sniffer.cpp, proc.cpp): one thread     *)
(* takes packets out of the capture buffer, feeds them to the tracker of   *)
(* Session, and runs the action of a verified knock, an nft command or the *)
(* channel's own command, to its end before it takes the next packet.  The *)
(* capture goes on meanwhile, signals arrive, and the service manager      *)
(* starts the daemon again.                                                *)
(*                                                                         *)
(* The wall clock is not stepped: a packet is captured at clock, and falls *)
(* behind it in the buffer only, where it waits for the read timeout of    *)
(* the capture and for jobs.  Handling a packet takes no time; a child     *)
(* process takes at most SLOW.  The ruleset is built in one step here, and *)
(* command by command in Firewall.                                         *)
(***************************************************************************)
EXTENDS Session

CONSTANTS
    channel_sections,   \* channel |-> the two keys of its [channel.N] section
    open_duration,
    procd,              \* respawn after any exit; systemd only after a failure
    CAPACITY,           \* packets that the capture buffer holds
    READ_TIMEOUT,       \* how long a packet is kept from an idle reader at most
    SLOW,               \* the longest time a child process takes
    MAX_FAILURES        \* bound on failures and stops of the daemon

ASSUME KnockdAssumption ==
    /\ DOMAIN channel_sections \subseteq Channels \ {0}
    /\ \A c \in DOMAIN channel_sections :
          /\ channel_sections[c].command \in BOOLEAN
          /\ channel_sections[c].open_port \in {"absent", "empty", "ports"}
          \* load_server_config refuses a section with both.
          /\ ~(channel_sections[c].command /\ channel_sections[c].open_port # "absent")
    /\ open_duration \in Nat /\ procd \in BOOLEAN
    /\ CAPACITY \in Nat \ {0} /\ READ_TIMEOUT \in Nat /\ SLOW \in Nat
    /\ MAX_FAILURES \in Nat

VARIABLES
    phase,            \* where main is, or how the daemon ended
    capture,          \* the packets captured and not yet handled
    job, started,     \* what on_match_ is running, since when
    stop_requested,   \* pcap_breakloop was called
    elements,         \* <<source, channel>> |-> expiry, in the timed sets
    failures,
    honoured,         \* history: code |-> when it was verified, over all boots
    seen              \* history: source |-> capture of its last handled packet

daemonVars == <<phase, capture, job, started, stop_requested, failures>>
knockdVars == <<vars, daemonVars, elements, honoured, seen>>

NoJob == <<>>
Phases == {"starting", "arming", "listening", "acting", "unwinding",
           "failed", "exited", "stopped"}
Alive == {"starting", "arming", "listening", "acting"}
Capturing == phase \in {"listening", "acting"}

\* A section with neither key is no action.  The match callback takes an action
\* without ports for a command, so an open_port with no port runs the empty one.
parse_channel_actions ==
    [c \in {x \in DOMAIN channel_sections :
               channel_sections[x].command \/ channel_sections[x].open_port # "absent"}
        |-> IF channel_sections[c].open_port = "ports" THEN "open_port" ELSE "command"]

HasAction(c, kind) ==
    c \in DOMAIN parse_channel_actions /\ parse_channel_actions[c] = kind

\* Channel 0 opens the primary ports, whatever the configuration.
IsOpen(c)    == c = 0 \/ HasAction(c, "open_port")
IsCommand(c) == c # 0 /\ HasAction(c, "command")

KnockdInit ==
    /\ Init
    /\ phase = "starting"
    /\ capture = <<>> /\ job = NoJob /\ started = BOOT
    /\ stop_requested = FALSE /\ failures = 0
    /\ elements = EmptyMap
    /\ honoured = EmptyMap /\ seen = EmptyMap

\* The process is gone, and the tracker's memory with it.
Forget ==
    /\ candidates' = EmptyMap /\ replay_cache' = EmptyMap
    /\ accepted' = EmptyMap /\ aborted' = FALSE
    /\ UNCHANGED clock

End(how) ==
    /\ phase' = IF stop_requested THEN "stopped" ELSE how
    /\ Forget
    /\ capture' = <<>> /\ job' = NoJob /\ stop_requested' = FALSE
    /\ seen' = EmptyMap
    /\ UNCHANGED <<started, elements, honoured>>

CountFailure ==
    /\ failures < MAX_FAILURES
    /\ failures' = failures + 1

-----------------------------------------------------------------------------
(***************************************************************************)
(* main, up to the capture loop.                                           *)
(***************************************************************************)
\* ensure_base_ruleset starts from an empty table, with empty sets.
BuildRuleset ==
    /\ phase = "starting"
    /\ phase' = "arming"
    /\ elements' = EmptyMap
    /\ UNCHANGED <<vars, capture, job, started, stop_requested, failures, honoured, seen>>

\* The capture starts with the construction of the Sniffer.
OpenCapture ==
    /\ phase = "arming"
    /\ phase' = "listening"
    /\ UNCHANGED <<vars, capture, job, started, stop_requested, failures, elements,
                   honoured, seen>>

\* A configuration, a keyfile, an nft or a pcap error: main returns 1.
StartFails ==
    /\ phase \in {"starting", "arming"}
    /\ CountFailure
    /\ End("failed")

(***************************************************************************)
(* The capture buffer holds what packet_handler will be given: source,     *)
(* port and time of the capture.  A full one drops the packet, which no    *)
(* step shows.                                                             *)
(***************************************************************************)
\* Mutant: packets are dated by the start of the capture.
ReceiveUndated(s, p) ==
    /\ Capturing
    /\ Len(capture) < CAPACITY
    /\ capture' = Append(capture, [src |-> s, port |-> p, captured_at |-> BOOT])
    /\ UNCHANGED <<vars, phase, job, started, stop_requested, failures, elements,
                   honoured, seen>>

Receive(s, p) ==
    /\ Capturing
    /\ Len(capture) < CAPACITY
    /\ capture' = Append(capture, [src |-> s, port |-> p, captured_at |-> clock])
    /\ UNCHANGED <<vars, phase, job, started, stop_requested, failures, elements,
                   honoured, seen>>

-----------------------------------------------------------------------------
(***************************************************************************)
(* packet_handler: on_packet for the oldest packet, and the callback that  *)
(* main gives the tracker.  pcap_loop hands it over when the read timeout  *)
(* has run out, or before, with others.                                    *)
(***************************************************************************)
\* Mutant: every knock that opens ports opens those of channel 0.
DispatchPrimary(s, c) ==
    IF IsOpen(c) \/ IsCommand(c)
    THEN phase' = "acting" /\ started' = clock
         /\ job' = (IF IsOpen(c) THEN <<s, 0>> ELSE <<s, c>>)
    ELSE UNCHANGED <<phase, job, started>>

\* A channel that is not configured is logged and ignored.
Dispatch(s, c) ==
    IF IsOpen(c) \/ IsCommand(c)
    THEN phase' = "acting" /\ job' = <<s, c>> /\ started' = clock
    ELSE UNCHANGED <<phase, job, started>>

VerifiedAt(k) == IF k \in DOMAIN honoured THEN honoured[k] ELSE <<>>

HandlePacket ==
    /\ phase = "listening" /\ ~stop_requested
    /\ capture # <<>>
    /\ LET s == Head(capture).src
           p == Head(capture).port
           captured_at == Head(capture).captured_at
       IN  /\ \/ /\ \/ StartCandidate(s, p, captured_at)
                    \/ BreakSequence(s, p, captured_at)
                    \/ ExtendCandidate(s, p)
                    \/ /\ Extends(s)
                       /\ \E x \in Tried(candidates[s]) : RejectReplay(s, p, x[1], x[2])
                 /\ UNCHANGED <<phase, job, started, failures, honoured>>
              \/ /\ Extends(s)
                 /\ \E x \in Tried(candidates[s]) :
                       /\ AcceptMatch(s, p, x[1], x[2])
                       /\ honoured' = Put(honoured, <<s, x[1], x[2]>>,
                                          Append(VerifiedAt(<<s, x[1], x[2]>>), clock))
                       /\ Dispatch(s, x[2])
                 /\ UNCHANGED failures
              \/ /\ DerivationThrows(s)
                 /\ CountFailure
                 /\ phase' = "unwinding"
                 /\ UNCHANGED <<job, started, honoured>>
           /\ seen' = Put(seen, s, captured_at)
    /\ capture' = Tail(capture)
    /\ UNCHANGED <<stop_requested, elements>>

\* The exception that left on_packet ends main.
Unwind ==
    /\ phase = "unwinding"
    /\ End("failed")
    /\ UNCHANGED failures

ActionEnds ==
    /\ phase = "acting"
    /\ phase' = "listening" /\ job' = NoJob
    /\ UNCHANGED <<vars, capture, started, stop_requested, honoured, seen>>

\* open_for and open_port_for: nft adds the source to the channel's timed set.
OpenEnds ==
    /\ ActionEnds
    /\ IsOpen(job[2])
    /\ elements' = Put(elements, job, clock + open_duration)
    /\ UNCHANGED failures

\* nft fails; the exception is caught and logged, the code stays spent.
OpenFails ==
    /\ ActionEnds
    /\ IsOpen(job[2])
    /\ CountFailure
    /\ UNCHANGED elements

\* The channel's command ends; whatever its status, the daemon goes on.
CommandEnds ==
    /\ ActionEnds
    /\ IsCommand(job[2])
    /\ UNCHANGED <<failures, elements>>

-----------------------------------------------------------------------------
(***************************************************************************)
(* How the daemon ends, and the service manager.                           *)
(***************************************************************************)
\* Mutant: the handler is installed before there is a loop to leave.
TerminateEarly ==
    /\ CountFailure
    /\ phase \in Alive /\ ~stop_requested
    /\ stop_requested' = TRUE
    /\ UNCHANGED <<vars, phase, capture, job, started, elements, honoured, seen>>

\* SIGTERM: before the handler is installed it kills, afterwards it asks
\* pcap_loop to return.  When main unwinds, the handler uses the Sniffer that is
\* gone: whatever comes of it, the process is at its end.  A daemon that waits
\* to be started again is stopped without a signal.
Terminate ==
    /\ CountFailure
    /\ \/ phase \in {"starting", "arming", "unwinding", "failed", "exited"}
          /\ End("stopped")
       \/ /\ Capturing /\ ~stop_requested
          /\ stop_requested' = TRUE
          /\ UNCHANGED <<vars, phase, capture, job, started, elements, honoured, seen>>

\* Mutant: the packets that are already captured are handled first.
DrainThenLeave ==
    /\ phase = "listening" /\ stop_requested /\ capture = <<>>
    /\ End("stopped")
    /\ UNCHANGED failures

\* pcap_loop sees the request between two packets.
LeaveLoop ==
    /\ phase = "listening" /\ stop_requested
    /\ End("stopped")
    /\ UNCHANGED failures

\* pcap_loop returns an error, which run ignores: main returns 0.
CaptureFails ==
    /\ phase = "listening"
    /\ CountFailure
    /\ End("exited")

Crash ==
    /\ phase \in Alive
    /\ CountFailure
    /\ End("failed")

\* Mutant: only a failure is followed by a restart.
RestartOnFailure ==
    /\ phase = "failed"
    /\ phase' = "starting"
    /\ UNCHANGED <<vars, capture, job, started, stop_requested, failures, elements,
                   honoured, seen>>

\* Restart=on-failure, or procd's respawn.
Restart ==
    /\ phase = "failed" \/ (phase = "exited" /\ procd)
    /\ phase' = "starting"
    /\ UNCHANGED <<vars, capture, job, started, stop_requested, failures, elements,
                   honoured, seen>>

Start ==
    /\ phase = "stopped"
    /\ phase' = "starting"
    /\ UNCHANGED <<vars, capture, job, started, stop_requested, failures, elements,
                   honoured, seen>>

\* Time passes when the daemon waits, for packets or for a child process.  The
\* capture is opened with a read timeout, and not in immediate mode.
PassTime ==
    /\ phase = "listening" =>
          /\ ~stop_requested
          /\ \A i \in 1..Len(capture) : clock < capture[i].captured_at + READ_TIMEOUT
    /\ phase = "acting" => clock < started + SLOW
    /\ Tick
    /\ elements' = [x \in {y \in DOMAIN elements : elements[y] > clock + 1} |-> elements[x]]
    /\ UNCHANGED <<daemonVars, honoured, seen>>

KnockdNext ==
    \/ BuildRuleset \/ OpenCapture \/ StartFails
    \/ \E s \in Sources, p \in KnockPorts : Receive(s, p)
    \/ HandlePacket \/ Unwind
    \/ OpenEnds \/ OpenFails \/ CommandEnds
    \/ Terminate \/ LeaveLoop \/ CaptureFails \/ Crash
    \/ Restart \/ Start
    \/ PassTime

KnockdSpec == KnockdInit /\ [][KnockdNext]_knockdVars

\* The daemon and its service manager go on when they can, and nft ends.
DaemonFairness ==
    /\ WF_knockdVars(BuildRuleset) /\ WF_knockdVars(OpenCapture)
    /\ WF_knockdVars(HandlePacket) /\ WF_knockdVars(Unwind)
    /\ WF_knockdVars(OpenEnds \/ OpenFails)
    /\ WF_knockdVars(LeaveLoop) /\ WF_knockdVars(Restart)

\* With channel commands that take as long as they like, and that end.
KnockdFairSpec == KnockdSpec /\ DaemonFairness /\ WF_knockdVars(CommandEnds)

-----------------------------------------------------------------------------
KnockdTypeOK ==
    /\ TypeOK
    /\ phase \in Phases
    /\ capture \in Seq([src : Sources, port : KnockPorts, captured_at : Nat])
    /\ Len(capture) <= CAPACITY
    /\ capture # <<>> => Capturing \/ phase = "unwinding"
    /\ job = NoJob \/ job \in Sources \X Channels
    /\ (phase = "acting") = (job # NoJob)
    /\ aborted = (phase = "unwinding")
    /\ stop_requested \in BOOLEAN /\ (stop_requested => Capturing)
    /\ DOMAIN elements \subseteq Sources \X Channels

(***************************************************************************)
(* Every step that touches the tracker is one that Session allows, with a  *)
(* lag of at most LAG between capture and handling, or the end of the      *)
(* process: what is shown of Session holds of each run of the daemon.      *)
(***************************************************************************)
SessionSteps == [][Next \/ Forget]_vars

(***************************************************************************)
(* Where the lag comes from: the i-th packet has waited for the read       *)
(* timeout or for the job it was captured in, whichever is longer, and for *)
(* the jobs of the CAPACITY - i packets that can have gone before it.      *)
(***************************************************************************)
Longest == IF SLOW < READ_TIMEOUT THEN READ_TIMEOUT ELSE SLOW

QueueLag ==
    \A i \in 1..Len(capture) :
        clock - capture[i].captured_at <= Longest + (CAPACITY - i) * SLOW

(***************************************************************************)
(* An address is in a timed set only because of a knock on that very       *)
(* channel, whose verification was at most SLOW older than the entry, over *)
(* all crashes, stops and restarts in between.                             *)
(***************************************************************************)
OpenedWasVerified ==
    \A x \in DOMAIN elements :
        /\ IsOpen(x[2])
        /\ \E k \in DOMAIN honoured :
              /\ k[1] = x[1] /\ k[3] = x[2]
              /\ \E i \in 1..Len(honoured[k]) :
                    LET opened == elements[x] - open_duration
                    IN  honoured[k][i] <= opened /\ opened <= honoured[k][i] + SLOW

(***************************************************************************)
(* The promise to the host, as a specification of its own, and that the    *)
(* daemon implements it through every failure and restart: only a job that *)
(* a verification has just started opens anything, each at most once, and  *)
(* a start of the daemon forgets what was open.                            *)
(***************************************************************************)
OpenJobs == IF phase = "acting" /\ IsOpen(job[2]) THEN {job} ELSE {}

Doors == INSTANCE TimedGate
    WITH Start <- BOOT, Opening <- {c \in Channels : IsOpen(c)},
         verified <- honoured, due <- OpenJobs, open <- elements

OpensVerified == Doors!Spec

(***************************************************************************)
(* README.md, "How it works": a captured sequence is only valid for the    *)
(* windows around it.  The spent codes are forgotten by a restart, but the *)
(* time in which they can be honoured again is that of their window, over  *)
(* any number of restarts.                                                 *)
(***************************************************************************)
HonouredInHorizon ==
    \A k \in DOMAIN honoured : \A i \in 1..Len(honoured[k]) :
        Earliest(k[2]) <= honoured[k][i] /\ honoured[k][i] <= Latest(k[2])

(***************************************************************************)
(* A daemon that is down without having been stopped listens again.        *)
(***************************************************************************)
ComesBack == phase \in {"failed", "exited"} ~> phase \in {"listening", "stopped"}

(***************************************************************************)
(* A stop is honoured whatever arrives meanwhile.                          *)
(***************************************************************************)
StopHonoured == stop_requested ~> phase = "stopped"

(***************************************************************************)
(* spec/derivation.md, "Server behaviour": a candidate is reset when no    *)
(* new packet arrives within the inactivity timeout.  The tracker compares *)
(* the times of handling, so that the time between the arrivals can be off *)
(* by what one of the two packets waited for the read timeout and for      *)
(* jobs, and by no more.                                                   *)
(***************************************************************************)
LongestWait == Longest + (CAPACITY - 1) * SLOW

InactivityWithinWait ==
    phase = "listening" /\ capture # <<>> =>
        LET packet == Head(capture)
            s == packet.src
            pause == packet.captured_at - seen[s]
            wait == LongestWait
        IN  s \in DOMAIN candidates =>
                /\ s \in DOMAIN sweep_expired => pause <= inactivity_timeout + wait
                /\ pause + wait <= inactivity_timeout => s \in DOMAIN sweep_expired
=============================================================================
