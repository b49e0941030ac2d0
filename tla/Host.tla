-------------------------------- MODULE Host ---------------------------------
(***************************************************************************)
(* The host: the ruleset of Firewall and the daemon D of Knockd, together. *)
(* The daemon's start runs the nft script command by command, the match    *)
(* callback opens the kernel's sets, the death of the process leaves the   *)
(* ruleset as it is, and the service manager sees to both.  Connections    *)
(* are made whenever the kernel lets them through.                         *)
(*                                                                         *)
(* Each action is one of Firewall, one of Knockd, or both at once.  The    *)
(* timed sets that the kernel really has are elements; the summary that    *)
(* Knockd keeps of them is here what the daemon believes.                  *)
(***************************************************************************)
EXTENDS Firewall

CONSTANTS
    n_ports, port_low, port_high, kNumChannels, hmac_sha256(_),
    time_step_seconds, inactivity_timeout, replay_ttl, LAG, LEAD,
    channel_sections, CAPACITY, READ_TIMEOUT, SLOW,
    MAX_TROUBLES            \* bound on failures and stops of the daemon

VARIABLES
    candidates, replay_cache, accepted, aborted,
    phase, capture, job, started, stop_requested, believed, troubles, honoured, seen

D == INSTANCE Knockd
    WITH elements <- believed, failures <- troubles,
         MAX_FAILURES <- MAX_TROUBLES, BOOT <- 0

\* main gives the firewall the channels whose action is to open ports.  Every
\* death of the daemon is a failure of Firewall, and there are as many stops.
ASSUME HostAssumption ==
    /\ DOMAIN channel_port_groups = {c \in D!Channels : D!HasAction(c, "open_port")}
    /\ SLOW \in Nat
    /\ MAX_FAILURES > 2 * MAX_TROUBLES

ownVars == <<candidates, replay_cache, accepted, aborted, phase, capture, job,
             started, stop_requested, believed, troubles, honoured, seen>>
hostVars == <<vars, ownVars>>

HostInit == Init /\ D!KnockdInit

-----------------------------------------------------------------------------
RulesetStays == UNCHANGED vars
DaemonStays  == UNCHANGED ownVars

\* A command of the script; after the last one, main goes on.
Script ==
    /\ phase = "starting"
    /\ ensure_base_ruleset
    /\ \/ pc' = "running" /\ D!BuildRuleset
       \/ pc' # "running" /\ DaemonStays

ProcessEnds ==
    \/ D!StartFails \/ D!Unwind \/ D!LeaveLoop \/ D!CaptureFails \/ D!Crash
    \/ D!Terminate /\ ~stop_requested'

\* The ruleset outlives the process.  What procd stops, it kills; a manager that
\* waits to start the daemon again only changes its mind.
EndOfProcess ==
    /\ ProcessEnds
    /\ \/ procd /\ phase' = "stopped" /\ Kill
       \/ ~(procd /\ phase' = "stopped") /\ pc # "down" /\ (Fail \/ NftRejects)
       \/ ~(procd /\ phase' = "stopped") /\ pc = "down" /\ RulesetStays

\* procd sends its signal after stop_service has run.
RequestStop ==
    /\ D!Terminate /\ stop_requested'
    /\ procd => stopping
    /\ RulesetStays

\* Steps of the daemon that leave the ruleset alone.
Daemon ==
    /\ \/ D!OpenCapture
       \/ \E s \in Sources, p \in D!KnockPorts : D!Receive(s, p)
       \/ D!HandlePacket
       \/ D!OpenFails \/ D!CommandEnds
    /\ RulesetStays

\* Mutant: open_for whatever the channel.
OpenPrimary == D!OpenEnds /\ open_port_for(job[1], 0)

\* open_for and open_port_for; without the set, nft fails.
OpenSet == D!OpenEnds /\ open_port_for(job[1], job[2])

StartAgain ==
    \/ D!Restart /\ Restart
    \/ D!Start /\ (Start \/ Restart)

Stop == stop_service /\ DaemonStays

Connection == (\E s \in Sources, p \in Ports : Connect(s, p)) /\ DaemonStays

Time == D!PassTime /\ Tick

HostNext ==
    \/ Script \/ EndOfProcess \/ RequestStop \/ Daemon \/ OpenSet
    \/ StartAgain \/ Stop \/ Connection \/ Time

HostSpec == HostInit /\ [][HostNext]_hostVars

-----------------------------------------------------------------------------
(***************************************************************************)
(* The kernel and the daemon agree: the ruleset is complete whenever       *)
(* packets are handled, and what the sets let in the daemon has opened.    *)
(***************************************************************************)
HostTypeOK ==
    /\ phase \in {"arming", "listening", "acting", "unwinding"} => pc = "running"
    /\ phase = "starting" => pc \in Building
    /\ phase \in {"failed", "exited"} => pc = "down"
    /\ phase = "stopped" => pc \in {"down", "stopped"}
    /\ \A x \in DOMAIN elements :
          /\ <<x[2], x[1]>> \in DOMAIN believed
          /\ elements[x] <= believed[<<x[2], x[1]>>]

\* A knock of s on a channel with port p was verified less than this long ago.
KnockedLately(s, p) ==
    \E code \in DOMAIN honoured :
        /\ code[1] = s /\ code[3] \in Groups
        /\ p \in PortSet(PortsOf(code[3]))
        /\ \E i \in 1..Len(honoured[code]) :
              clock < honoured[code][i] + SLOW + open_duration

(***************************************************************************)
(* README.md: the ports stay closed to everybody who has not knocked.      *)
(* Whatever the daemon, its commands and its service manager go through, a *)
(* new connection to a port that is guarded gets through only if a knock   *)
(* of that very source, on a channel with that port, was verified at most  *)
(* open_duration and the time of one nft command ago.                      *)
(***************************************************************************)
DoorNeedsKnock ==
    \A s \in Sources, p \in Gated :
        Guarded(p) /\ Accepted(NewPacket(s, p)) =>
            \/ KnockedLately(s, p)
            \/ default_deny /\ p \in PortSet(always_allow_ports)

(***************************************************************************)
(* A knock takes effect: when its action has ended without a failure, the  *)
(* source reaches every port of the channel, no port being in two groups.  *)
(***************************************************************************)
Reaches(s, c) == \A p \in PortSet(PortsOf(c)) : Accepted(NewPacket(s, p))

KnockTakesEffect ==
    [][\A s \in Sources, c \in Groups :
          job = <<s, c>> /\ phase' = "listening" /\ troubles' = troubles
              => Reaches(s, c)']_hostVars

(***************************************************************************)
(* The timed sets of the kernel implement the same promise as the daemon's *)
(* own idea of them, also where the table is deleted under the daemon.     *)
(***************************************************************************)
Swapped(f) == [x \in {<<y[2], y[1]>> : y \in DOMAIN f} |-> f[<<x[2], x[1]>>]]

KernelDoors == INSTANCE TimedGate
    WITH Start <- 0, Opening <- {c \in D!Channels : D!IsOpen(c)},
         verified <- honoured, due <- D!OpenJobs, open <- Swapped(elements)

KernelOpensVerified == KernelDoors!Spec
=============================================================================
