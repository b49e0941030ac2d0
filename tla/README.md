# knockd in TLA+

A verification development for PortKnocks: the port-knocking daemon `knockd`
(C++, `server/`), its configuration, its nftables ruleset, the service managers
that run it, and the Python client that knocks. The specifications are
translated from the code; each definition's source lines are listed under `map`
in `PROJECT.json`.

## The system

A client derives a sequence of ports from a shared secret, the current time
window and a channel number, and sends one TCP SYN to each. The daemon watches
the wire, recognises the sequence and acts on the channel: it adds the source
to a timed nftables set, or runs a command.

| Component | State | Operations | Correct when |
|---|---|---|---|
| `derive.cpp`, `hmac_verify.cpp` | none | `derive_ports` | client and server agree; every port is in range |
| `SessionTracker` (`session.cpp`) | candidates per source, replay cache | `on_packet`, with two sweeps | a knock is recognised exactly when it was sent; a code is spent once, in its time |
| `Firewall` (`firewall.cpp`) | the kernel's table, chain, rules, sets | `ensure_base_ruleset`, `open_for`, `open_port_for` | closed to who did not knock, open to who did, harmless to all others, at every point of a build |
| Main loop (`main.cpp`, `sniffer.cpp`) | the capture buffer, the running action, the stop flag | start-up, `packet_handler`, match callback, signal handler | what opens was verified; a stop is honoured |
| Child processes (`proc.cpp`, `commands.cpp`) | none of their own; they block the only thread | `exec_and_wait` | a failure is reported and the daemon goes on |
| Service managers (`knockd.service`, `knockd.init`) | whether to restart | restart, respawn, `stop_service` | a daemon that fails comes back; a stopped one leaves the host reachable |
| Configuration (`config.cpp`), logging (`log.cpp`) | the sections read so far, the least level | `parse_ini`, `load_server_config` | what is written is what the daemon runs with, or it refuses |
| Client (`client/knockc`) | the time of the next packet | derive, send, preview, inspect | a knock it sends is one the server accepts |
| GUI history (`gui.py`) | lists in each window, one file | load, remember, save | the last entries are kept |

How they interact. `main` loads the configuration, has the firewall build its
ruleset, and then owns everything with one thread: the sniffer calls
`on_packet`, which calls the match callback, which forks `nft` or the channel's
command and waits for it. Meanwhile packets pile up in the capture buffer, the
kernel expires set elements and tracks connections, signals arrive, and the
service manager watches. The ruleset lives in the kernel and outlives the
daemon.

What is hard. The tracker compares wall-clock windows with steady-clock
timeouts, and forgets spent codes after a fixed time that has to outlast the
window tolerance. Candidates follow up to 33 sequences at once. The ruleset is
built by separate commands, each of which can fail or be the last. A stop or a
crash can come between any two steps, and the procd script acts on the same
table concurrently. Packets are handled later than they were captured: after
pcap's read timeout at the latest in an idle daemon, and later whenever an action
takes time. Windows of the GUI share a file that is truncated before
it is written. `hazards` in `PROJECT.json` lists these at their lines.

## Modules

| Module | Models | State and actions |
|---|---|---|
| `Derivation` | `derive.cpp` | operators only; HMAC is the constant operator `hmac_sha256` |
| `Redemption` | the abstract promise of the tracker | `redeemed`: the times at which each code was; `Redeem`, which needs a code that was not, `Pass` |
| `Session` | `session.cpp` | `candidates`, `replay_cache` as in the class; one action per path through `on_packet`: `StartCandidate`, `BreakSequence`, `ExtendCandidate`, `RejectReplay`, `AcceptMatch`, `DerivationThrows`, each with both sweeps |
| `SessionHistory` | `Session` with the packets each source sent | `recent`, `completed` are history |
| `Client` | `client/knockc` and the network in front of `Session` | `attempts` and `wake` are the clients', one action per packet sent (the sleep is the due time); `wire` is the network's, which delivers in order but for at most `MAX_FAULTS` losses, duplicates and swaps; `arrived`, `spoiled` are history |
| `Config` | `config.cpp`, `log.cpp`, `main.cpp` up to the firewall | `line`, `current_section`, `sections` are the parser's, one action per kind of line; `cfg` is the `ServerConfig`, `phase` where `main` is; `Throws` collects the exceptions of `load_server_config`; `Effect` is what the match callback does with a channel |
| `TimedGate` | the abstract promise of the daemon to its host | `verified`, `due`, `open`, `clock`; `Verify`, `Open`, `GiveUp`, `LoseEntries`, `Pass` |
| `Firewall` | `firewall.cpp`, nft, the kernel's verdict | `pc`, `group`, `k` are the script's place, one action per nft command; `rules`, `sets`, `elements`, `chain`, `table` are the kernel's |
| `Knockd` | `main.cpp`, `sniffer.cpp`, `proc.cpp`, service managers, on top of `Session` | `phase`, `capture`, `job`, `stop_requested`; one action per start-up step, packet, job end, signal and failure; `elements` is a summary of the kernel's sets; `honoured`, `seen` are history |
| `Host` | `Knockd` over `Firewall` | the variables of both; each action is one of `Firewall`, one of `Knockd`, or both at once |
| `GuiHistory` | the history of `gui.py` | `file`; `window`, `history` and `shown` per window; `BeginSave` truncates, `EndSave` writes; `uses`, `disturbed` are history |
| `SessionProofs`, `SessionHistoryProofs`, `ClientProofs`, `FirewallProofs`, `KnockdProofs`, `HostProofs`, `ConfigProofs`, `GuiHistoryProofs` | the theorems about the module of that name | |
| `MC*` | constants for TLC | small keyed hashes, port groups, configuration lines, history bounds |

How they compose. `Knockd` extends `Session` and calls its actions with the
packet at the head of the buffer. `Host` extends `Firewall` and instantiates
`Knockd` as `D`: `Script` runs the nft commands of the start one by one,
`OpenSet` is the end of an `open_port_for` in both, `EndOfProcess` leaves the
ruleset as it is, `Stop` deletes the table under a daemon that goes on, `Time`
passes for both. The summary that `Knockd` keeps of the timed sets is in `Host`
what the daemon believes (`believed`); the kernel's sets are `elements`.
`Client` extends `Session` too, and hands `on_packet` what arrives at the
moment it arrives, without the daemon's buffer. `Config` comes before all of
them: what it calls `channel_port_groups` is `Firewall`'s constant, and its
`Effect` decides as `Knockd`'s dispatch does.

Refinements. `Session` implements `Redemption` (`RedeemsCodes`); `Knockd` takes
the tracker through steps of `Session` or the loss of its memory
(`SessionSteps`) and implements `TimedGate` (`OpensVerified`); `Host` implements
`Firewall` and `Knockd`, and the kernel's sets in it implement `TimedGate` once
more (`KernelOpensVerified`), also where the table disappears under the daemon.

Abstractions worth knowing:

- Time is a natural number. The truncation to seconds and the division by
  `time_step_seconds` compose into one division, so the unit does not matter.
- A packet carries its capture time, up to `LAG` behind the clock and `LEAD`
  ahead of it. These two constants are all that `Session` knows about buffers
  and wall-clock steps; `Knockd` derives the lag, for a clock that is not
  stepped.
- `pcap_open_live` gets a timeout of 100 ms and no immediate mode, so a packet may
  lie in the kernel's buffer while the loop waits (`sniffer.cpp:57`). In `Knockd` an
  idle daemon handles a captured packet at any moment up to `READ_TIMEOUT` after its
  capture, and a busy one when its job is over.
- The keyed hash is arbitrary in the proofs. In the runs it is a small table in
  which neighbouring windows and channels share ports, prefixes or whole sequences.
- A real hash does let knocks collide. Where a property needs that one knock does not,
  it says so of that knock and of the sequences that can be tried together with it:
  those of the windows `Nearby`, as far from its own as the window tolerance and the
  timeouts allow. With the defaults these are 6 windows of 11 channels; the knock is
  left out when its first port is one of their later ports, some 330 of 40001, which
  befalls fewer than one knock in a hundred.
- A line of `knockd.conf` is one that `parse_ini` skips, a header, or a key with
  a list of words; a word is a number, if it starts with one that an `int`
  holds, or it is not. Trimming and splitting are what this form stands for.
- Mutated definitions (marked `Mutant`) stand next to the ones they change.
  They are used to see that a property notices the change and by nothing else.

## Runs

| Run | Question | Bounds, and why they are enough |
|---|---|---|
| `session` | Is a code redeemed once and in its horizon? | knocks of three ports out of two: a candidate has a beginning, a middle and an end and often fits several codes; the clock passes three windows and their caches' whole life; `replay_ttl` 5 is the least that covers the horizon, so one less would fail |
| `session_history` | Is a knock completed exactly when it was sent, and which code does it spend? | two sources whose packets interleave (up to four of them in all are followed), knocks of three ports out of three, so that there is a middle; channels that share a sequence, and windows whose first port another sequence goes on with, next to windows where none does; gaps on both sides of the timeout |
| `client` | Which knocks get through, and can the remains of several make one? | two clients behind one address, one clock ahead and one behind by the most the three windows tolerate; two knocks of two packets, so that one can follow, meet or repeat the other in any window and channel; a hash by which the first packet of one and the last of another add up to a third, most knocks share a last port and two channels a sequence; two faults, anywhere; every pause at the inactivity timeout |
| `firewall` | Is the ruleset right at every point of every build? | policy accept, where the order of rules matters; two groups, so that a group has one before and one after it, and a foreign port; procd, whose behaviours include those of systemd; two failures, crashes or stops at any command; time for an entry to expire and be renewed |
| `knockd` | Does the daemon compose tracker, buffer, actions and restarts safely? | a channel of every kind (primary, command, ports, none); windows of one unit and five units of time, so that a forgotten code can come back and must not outlive its window; a packet waits up to one unit in an idle daemon, and up to one while an action runs; two failures, crashes or stops |
| `knockd_live` | Does it come back, does it stop, and how long does a packet wait? | a buffer of two, so that packets wait for one another; a read timeout longer than a job, so that either can be what a packet waits for; a channel with the empty command; one failure or stop after which the daemon must recover; the clock's bound only limits how long actions last |
| `host` | What do daemon and ruleset promise together? | policy drop, an always-allowed port and a channel with its own port; procd, whose stop deletes the table; two failures or stops at any command, job or packet; one code spent, which can be opened, lost, rebuilt over and retried; `MAX_FAILURES` exceeds twice `MAX_TROUBLES`, so that `Firewall` never runs out of failures first |
| `config` | Does the daemon run with what is written? | after a minimal head, every file of up to three of 18 kinds of line (repeated keys, foreign sections, numbers out of range, words for numbers, empty values), and every file of five about two channels, with and without values, so that a section is left and taken up again; heads in which something is missing |
| `gui_history` | What survives of the recent entries? | two windows, three entries for a list of two, four uses, one failed save or killed window; deadlock is checked here |
| `session_default_ttl` | Is the default `replay_ttl` long enough? | no: see below |
| `firewall_overlap` | Do the example configuration's channels work? | no |
| `firewall_stop` | Does a stop unlock the router? | not during start-up |

Named bounds: `MAX_CLOCK` (the clock), `MAX_CODES` (a state constraint: how
many codes a behaviour spends before it is no longer followed; in
`knockd_live`, the only run with liveness that has the definition, it is not
used), `MAX_RECENT` (another: how many packets `session_history` follows),
`MAX_FAILURES` and `MAX_TROUBLES` (failures, crashes and stops together),
`CAPACITY`, `READ_TIMEOUT` and `SLOW` (the buffer, the longest that an idle
daemon leaves a packet in it, and the longest action), `MAX_ATTEMPTS` and
`MAX_FAULTS` (the knocks of all clients, the network's faults; in `GuiHistory`
the failed saves), `SLACK` and `DELAY` (how long a client oversleeps, how long a
packet travels), `MAX_USES` (previews and knocks of all windows). Except in
`gui_history`, deadlock is not checked: the other models stop when the clock and
the failures reach their bounds, and `Session` after an exception, `Config` when
the daemon is armed or has refused.

### What the violations show

1. `session_default_ttl`. README.md promises that a tuple succeeds once. A code
   can be completed during three windows plus the time of a slow knock, and the
   cache forgets it after `3*T`: a code accepted at the start of its life can be
   accepted again at the end. `AcceptedOnce` states the exact condition.
2. `firewall_overlap`. With a port in two groups, under policy accept, the first
   group's drop rule stands before the second group's accept rule.
   `knockd.conf.example` has such a port. `KnockOpens` shows that disjoint groups,
   or policy drop, are enough.
3. `firewall_stop`. `stop_service` deletes the table first and procd kills the
   daemon afterwards; a daemon that is still building goes on and leaves drop
   rules behind.

### Where a property has a condition because the code says otherwise

These are disagreements between the code and its documents that the properties
carry as their conditions; the code, not the document, is what is modelled.

- A knock of one port (`derive.hpp:14` allows it) is never completed, because
  the path for a first packet compares nothing (`session.cpp:56`):
  `KnockIsCompleted` and `GetsThrough` are about `n_ports > 1`.
- The inactivity timeout of `spec/derivation.md:121` is measured between the
  handlings of two packets, not their arrivals: `InactivityWithinWait` bounds the
  difference by the longest wait in the buffer, which is the read timeout or a job,
  and a job for each packet that fits before it.
- The replay cache is in memory: after a restart a tuple succeeds again.
  `HonouredInHorizon` states what remains, the span of its window.
- Port numbers are narrowed without a check, `65558` to `22`
  (`config.cpp:91`): `OpensWrittenPorts` is about numbers that are ports.
- An `open_port` without ports loads, and a knock on it runs the empty command
  (`main.cpp:103-118`), where `config.hpp:42-43` says that one of the two keys is
  set: it is a command in `Effect` and in `Knockd`, and `ChannelsAsWritten` names it
  as the one exception.
- `time_step`, `n_ports`, the timeouts and the range of ports are taken as they are
  written (`config.cpp:139-144`). What `derive_ports` refuses ends the daemon at the
  second packet of a source (`DerivationThrows`), and no property says otherwise.
- A second knock may leave the first one's timeout as it is (`firewall.cpp:141`, as
  the kernel decides): `add_to_set` has both outcomes, and the properties of the
  ruleset hold with either.
- `log.hpp:15` says the level is parsed without regard to case;
  `log_level_from_string` compares it as it is, and `INFO` is refused.
- Two GUI windows open together keep only the entries of the last to save
  (`README.md:181-183` promises the last ten): `KeepsRecentsAlone` is about windows
  that are open one after the other.

### Fairness

- `Firewall!FairSpec`: the commands of the script run one after the other; a
  failed daemon is restarted (`Restart=on-failure`, `respawn`); procd's stop goes
  on from `stop_service` to the kill. Nothing is assumed of knocks, connections
  or failures. The managers' rate limits on restarts (procd gives up after
  five in a row) are left out, which `MAX_FAILURES` stays below.
- `Knockd!DaemonFairness`: weak fairness of what the daemon does by itself when
  it can (start-up, handling, leaving the loop), of nft's end, and of the restart.
  `KnockdFairSpec` adds that a channel's command ends, which nothing in the code
  enforces: `StopHonoured` is conditional on it. Arrivals, signals and failures
  are never fair. `ComesBack` is stated for a manager that respawns: `run` ignores
  why `pcap_loop` returned, so after a capture error `main` returns 0 and systemd's
  `Restart=on-failure` leaves the daemon down.
- `Client`, `Config`, `Host` and `GuiHistory` have none: their properties are
  about safety and single steps.

## Proofs

tlapm proves, for all values of the constants that satisfy the named
assumptions (`DerivationAssumption`, `SessionAssumption`, `ClientAssumption`,
`FirewallAssumption`, `KnockdAssumption`, `HostAssumption`, `ConfigAssumption`,
`GuiHistoryAssumption`), every safety invariant and every action property of the
passing runs, and the refinements:

| Module | Inductive invariant | What follows | Condition |
|---|---|---|---|
| `SessionProofs` | `IInv` (`Invariance`) | `TypeCorrectness`, `ReuseIsLate`, `AcceptedInHorizon`, `CandidatesArePrefixes` | none |
| | | `AcceptedOnce`, `Refinement` | `CacheOutlivesCode`: `replay_ttl` is at least the length of a code's life |
| `SessionHistoryProofs` | `HistoryInv` (`HistoryInvariance`) | `CompletedKnocksAreKnocks`, `AcceptancesAreSpelt` | none |
| | | `KnocksComplete` | in the property: `n_ports > 1`, and the first port of the knock is no later port, but perhaps the last, of a sequence near it (`StartIsDistinct`) |
| `ClientProofs` | `ClientInv` (`ClientInvariance`) | `AcceptancesWereSent`, `KnocksAreNotMultiplied` | none; for the second, in the property, `DELAY <= replay_ttl` |
| | `TrackInv` (`TrackInvariance`) | `KnocksGetThrough` | in the property: `n_ports > 1`, the knock is `Unmistakable`, and the client is within the tolerances |
| `FirewallProofs` | `IInv` (`Invariance`) | `TypeCorrectness`, `GateStaysClosed`, `EstablishedFlows`, `OthersStayUntouched`, `OrderOfRules` | none |
| | | `KnockOpens` | the policy is to drop, or no port is in two groups |
| | `DoneInv` | `RulesAppearOnce` | `PortsListedOnce`: no port is listed twice, nor, under policy accept, in two groups |
| `KnockdProofs` | `DaemonInv` (`DaemonInvariance`) | `WaitIsBounded`, `OnlyVerifiedIsOpen`, `DaemonIsTimedGate` | none |
| | `SeenInv` | `InactivityIsBetweenArrivals` | none |
| | `Session`'s (`TrackerInvariance`) | `TrackerOfSession`, `DaemonTypes`, `ReuseIsLateInDaemon`, `PrefixesInDaemon`, `HonouredInTime` | `LagCovers == LongestWait <= LAG`: the tracker's lag is at least the longest wait in the buffer |
| | | `SpentOnceInDaemon` | `LagCovers` and `CacheOutlivesCode` |
| `HostProofs` | `LinkInv`, `AgreeInv` | `ImplementsFirewall`, `ImplementsKnockd`, `NobodyWithoutKnock`, `KernelIsTimedGate`, `KernelAgrees` | none |
| | | `KnocksTakeEffect` | the policy is to drop, or no port is in two groups |
| `ConfigProofs` | `IInv` (`Invariance`) | `TypeCorrectness`, `ParsesFaithfully` | none |
| | `StartInv` (`StartInvariance`) | `BothKeysAreRefused`, `DispatchAlwaysMatches`, `WrittenPortsAreOpened`, `ChannelsRunAsWritten` | none; `WrittenPortsAreOpened` is about numbers that are ports |
| `GuiHistoryProofs` | `GoodInv`, with `GuiTypeOK` | `EntriesAppearOnce` | none |
| | `AloneInv` (`AloneInvariance`) | `RecentsAreKept` | in the property: windows are open one after the other |

The argument for `Session`. That a code is spent once does not follow from the
code's own check, which sees only the cache. The inductive invariant adds two
facts. `KeepsPace`: each packet of a candidate came within the inactivity timeout
of the one before, so a candidate of `j` ports is at most `(j-1)` timeouts plus
the lag older than its first packet; with the window tolerance this bounds when
a code can be accepted (`AcceptanceHorizon`). `CacheInv`: each acceptance is in
the cache, or more than `replay_ttl` old. If the horizon is no longer than
`replay_ttl`, an old acceptance cannot be followed by another, and each call of the
match callback is a `Redeem` of `Redemption`, never a step that leaves it as it is:
`Gate` maps `redeemed` to the times of every acceptance, and a second one of a code
would be a step that `Redemption` has not.

The argument for `SessionHistory`. A candidate stands for the last packets of its
source, from some position `b` on (`CandidatesStand`): so a completion is a knock in
what was sent. The other direction needs `BegunIsCandidate`: whatever looks like the
beginning of a knock at the end of a source's packets is the candidate, or too old
to go on. The packet that begins the knock must then break whatever candidate there
was, which it does if its port goes on with no sequence that the candidate could be
compared with: the windows of two anchors that are within reach of one another are
`Nearby`. That the code spent is the first in the order of the loops is
`IsFirstMatch`, and that a window whose knock the last packets are is among those
that were tried.

The argument for `Client`. `ClientInv` follows each packet, by its knock and its
place in it, from the sender into the queue (`Travelling`) and its port into the
candidate (`CandidatesWereSent`): a candidate holds only ports that were sent to
from its address, whatever knocks they were part of. That a code is not accepted
more often than its last port was sent to needs a matching: `AcceptedUsedUp` gives
each acceptance a packet of its own that was sent to that port, of which no copy on
the wire is young enough to complete another knock once the code is forgotten.
`KnocksGetThrough` is the longest argument. `TrackInv` says of an undisturbed knock:
there are positions in the queue (`Lined`) and times (`Schedule`) of its packets,
the waiting ones are in order, the times are at most a pause and an oversleeping
apart, the next packet is due in time, and what has arrived is the candidate of the
address, anchored at a time whose neighbours include the client's window. That its
first packet breaks what was there, and that its last spends its own code, is where
`Unmistakable` enters (`TriedTogetherAreNearby`). The lemmas `TailSurvives` to
`SwapSurvives` say what the network's operations do to those positions. Because its
positions and times are existentially quantified over all functions, TLC checks
`GetsThrough` and cannot evaluate `TrackInv` as it stands; it was checked with the
quantifiers bounded by the queue's length and the clock, in the configuration of
`MCClient` and with knocks of three packets.

The argument for `Firewall`. `ProgressInv` and `RuleInv` say which rules are in
the chain at each point of the script, `ChainInv` relates them to table, chain
and sets, and `ElementInv` ties each set element to a knock less than
`open_duration` ago. The verdict is then computed from the first matching rule.
`OrderOfRules` and `KnockOpens` have inductive arguments of their own about the
order of the rules. For `RulesAppearOnce`, `DoneInv` is the converse of
`ProgressInv`: a rule after the first two is in the chain only when a loop of the
script has passed its turn. The rule that a step adds is the one whose turn it is,
so it is not there yet.

The argument for `Knockd`. How long a packet has waited is not inductive by itself.
`Waited` is: with `Longest` the longer of the read timeout and a job, a packet with
`i - 1` ahead of it had, when the present job started, waited for at most `Longest`
and `CAPACITY - i - 1` jobs, and otherwise for one more; `Room` counts these. So the
packet at the head is never older than `LongestWait`, which is what `Session`
assumes of the lag if `LagCovers`: the read timeout, the buffer and the actions
explain every lag, and the theorems about `Session` carry over to each run of the
daemon. `JobInv` and `EntryInv` keep, for the job and for every entry, the
verification that it came from. `SeenInv` relates the tracker's dates (when a packet
was handled) to the arrivals, which `InactivityIsBetweenArrivals` is about.

The argument for `Host`. The ruleset does not know why it was opened, the daemon
does not know whether the ruleset is still there. `LinkInv` ties them: whenever
the kernel remembers a knock, one of that source on that channel was verified at
most one nft command before. With `Firewall`'s invariant, by which a guarded port
lets in only whom a set element admits, this is `NobodyWithoutKnock`. The
refinement `KernelIsTimedGate` follows action by action: a half-built script, a
deleted table and a restart lose entries, and nothing but `OpenSet` adds one.
`KernelAgrees` needs `AgreeInv`: from the script's deletion of the table it finds
until its end there are no entries (`CleanInv`), the daemon opens only after that
(`PhasesAgree`), and every entry of the kernel is one the daemon believes open, and
expires no later than it believes (`BeliefInv`).

The argument for `Config`. `Under` says, without a parser, that the section of a
line is that of the last header before it. `current_section` is the section of
the line just read, and `ParsedAsWritten` holds of the lines read so far. What
comes after needs no more induction: from the last line on `cfg` is
`load_server_config` of the sections (`LoadedFromFile`), and the other theorems
compute its getters from what was written.

The argument for `GuiHistory`. `remember` is a filter, a front and a cut. The
provers have no induction over lists, so the filter is `Without`: the `j`-th kept
entry is the one of rank `j`, and the rank of a position is a cardinality. That
ranks are distinct, increase, and reach every number up to their count follows
from the theorems about finite sets; order and distinctness of the list follow
from that. `AloneInv` says for each point of a save which of lists, file and
dropdown stand for the last uses.

Out of the prover's reach, and model-checked only: liveness (`Rearms`,
`ComesBack`, `StopHonoured`) and everything about `ENABLED`; what recursive
functions compute for all inputs (none of the theorems depends on it:
`ShiftRight` stays opaque). No safety invariant and no action property of a
passing run is left without a proof.

## Not modelled, and why

- Frame parsing in `packet_handler`: it drops frames and changes nothing else.
- HMAC-SHA256, libpcap, nft, conntrack: external, modelled from their use.
- Trimming lines and splitting values into words, the text and time stamps of
  log lines, the usage error of `main`: text only.
- The GUI's widgets, preview, SSH aliases, test vectors, packaging: output, text
  or build files. The inspector only moves a cursor over bytes it displays.
- The client's own configuration and keyfile: their errors end it before it
  sends anything.
- Rate limits of restarts and the clock check in `start_service`.
- Set elements added while a crashed daemon's `nft` child is still running.

## What is left

1. The inspector's cursor, as a module of its own.
2. A wall clock that is stepped under the running daemon: `Session` allows it by
   `LAG` and `LEAD`, `Knockd` does not yet.
3. `Client` in front of `Knockd` instead of `Session`: `KnocksGetThrough` with the
   daemon's waits in the tolerances.
