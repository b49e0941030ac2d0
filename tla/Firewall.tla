------------------------------ MODULE Firewall ------------------------------
(***************************************************************************)
(* Firewall (server/src/firewall.cpp): the nftables ruleset it builds one  *)
(* nft command at a time, the timed sets it opens, and what the kernel     *)
(* then does with a packet.  The ruleset outlives the daemon, so the model *)
(* includes its failures, restarts and stops.                              *)
(*                                                                         *)
(* A timed set is named by its channel: channel_set_name is injective, and *)
(* group 0 stands for the primary set.  nft and the kernel are external: a *)
(* command takes effect as a whole or not at all.                          *)
(***************************************************************************)
EXTENDS Integers, Sequences

CONSTANTS
    Sources,                \* the IPv4 addresses that knock and connect
    Ports,                  \* the ports that are looked at
    target_ports,           \* channel 0's ports, in the order of the config
    channel_port_groups,    \* channel |-> its ports, for open_port channels
    always_allow_ports,
    default_deny,
    open_duration,
    procd,                  \* the service manager: procd (OpenWrt) or systemd
    MAX_FAILURES,           \* bound on failed nft commands, crashes and stops
    MAX_CLOCK               \* bound on clock

ASSUME FirewallAssumption ==
    /\ Ports \subseteq Nat
    /\ target_ports \in Seq(Ports) /\ target_ports # <<>>
    /\ DOMAIN channel_port_groups \subseteq 1..10
    /\ \A g \in DOMAIN channel_port_groups :
          channel_port_groups[g] \in Seq(Ports) /\ channel_port_groups[g] # <<>>
    /\ always_allow_ports \in Seq(Ports)
    /\ default_deny \in BOOLEAN /\ procd \in BOOLEAN
    /\ open_duration \in Nat \ {0}
    /\ MAX_FAILURES \in Nat /\ MAX_CLOCK \in Nat

Groups == {0} \cup DOMAIN channel_port_groups
PortsOf(g) == IF g = 0 THEN target_ports ELSE channel_port_groups[g]
PortSet(seq) == {seq[i] : i \in 1..Len(seq)}
Gated == UNION {PortSet(PortsOf(g)) : g \in Groups}

VARIABLES
    \* the daemon
    pc,           \* the nft command that comes next, or a state of the daemon
    group, k,     \* loop variables: the port group, the position in its ports
    stopping,     \* procd has run stop_service
    failures,
    \* the kernel
    table, chain, \* whether the table exists; the chain's policy, or "none"
    rules,        \* the rules of the chain, in order
    sets,         \* the timed sets that exist
    elements,     \* <<group, source>> |-> when the element expires
    established,  \* <<source, port>> of the connections that are up
    \* the environment
    knocked,      \* history: <<group, source>> |-> last opened in this table
    clock

daemonVars  == <<pc, group, k, stopping, failures>>
rulesetVars == <<table, chain, rules, sets, elements, knocked>>
vars == <<daemonVars, rulesetVars, established, clock>>

EmptyMap == [x \in {} |-> x]
Put(f, key, v) == [x \in DOMAIN f \cup {key} |-> IF x = key THEN v ELSE f[x]]

Building == {"add_table", "delete_table", "recreate_table", "add_chain", "host_rules",
             "add_set", "accept_rule", "drop_rule"}

-----------------------------------------------------------------------------
(***************************************************************************)
(* The rules, and the verdict of the chain: the first rule that matches,   *)
(* else the policy.  A packet that arrives before there is a chain is not  *)
(* looked at.                                                              *)
(***************************************************************************)
Rule == [kind : {"established", "loopback", "port", "member"},
         group : Nat, port : Nat, verdict : {"accept", "drop"}]

EstablishedRule == [kind |-> "established", group |-> 0, port |-> 0, verdict |-> "accept"]
LoopbackRule    == [kind |-> "loopback", group |-> 0, port |-> 0, verdict |-> "accept"]
AllowRule(p)    == [kind |-> "port", group |-> 0, port |-> p, verdict |-> "accept"]
DenyRule(p)     == [kind |-> "port", group |-> 0, port |-> p, verdict |-> "drop"]
AcceptRule(g, p) == [kind |-> "member", group |-> g, port |-> p, verdict |-> "accept"]

NewPacket(s, p)         == [src |-> s, port |-> p, established |-> FALSE, local |-> FALSE]
EstablishedPacket(s, p) == [src |-> s, port |-> p, established |-> TRUE, local |-> FALSE]
LocalPacket(s, p)       == [src |-> s, port |-> p, established |-> FALSE, local |-> TRUE]

Matches(rule, packet) ==
    \/ rule.kind = "established" /\ packet.established
    \/ rule.kind = "loopback" /\ packet.local
    \/ rule.kind = "port" /\ rule.port = packet.port
    \/ /\ rule.kind = "member" /\ rule.port = packet.port
       /\ <<rule.group, packet.src>> \in DOMAIN elements

\* The first rule that matches decides: a packet is accepted when it reaches an
\* accept before any drop.
Accepted(packet) ==
    \/ chain = "none"
    \/ \E i \in 1..Len(rules) :
          /\ Matches(rules[i], packet) /\ rules[i].verdict = "accept"
          /\ \A j \in 1..(i - 1) : Matches(rules[j], packet) => rules[j].verdict = "accept"
    \/ /\ chain = "accept"
       /\ \A i \in 1..Len(rules) : Matches(rules[i], packet) => rules[i].verdict = "accept"

-----------------------------------------------------------------------------
NoRuleset ==
    /\ table' = FALSE /\ chain' = "none" /\ rules' = <<>>
    /\ sets' = {} /\ elements' = EmptyMap /\ knocked' = EmptyMap

Init ==
    /\ pc = "add_table" /\ group = 0 /\ k = 1
    /\ stopping = FALSE /\ failures = 0
    /\ table = FALSE /\ chain = "none" /\ rules = <<>>
    /\ sets = {} /\ elements = EmptyMap /\ knocked = EmptyMap
    /\ established = {}
    /\ clock = 0

(***************************************************************************)
(* ensure_base_ruleset, one action for each nft command of the script.     *)
(***************************************************************************)
Goto(label) == pc' = label /\ UNCHANGED <<group, k, stopping, failures>>

\* Mutant: the table is deleted without having been added first.
AssumeTable ==
    /\ pc = "add_table"
    /\ Goto("delete_table")
    /\ UNCHANGED <<table, chain, rules, sets, elements, knocked, established, clock>>

AddTable ==
    /\ pc = "add_table"
    /\ table' = TRUE
    /\ Goto("delete_table")
    /\ UNCHANGED <<chain, rules, sets, elements, knocked, established, clock>>

\* Mutant: the table of a previous run is kept.
KeepTable ==
    /\ pc = "delete_table"
    /\ table
    /\ Goto("recreate_table")
    /\ UNCHANGED <<table, chain, rules, sets, elements, knocked, established, clock>>

DeleteTable ==
    /\ pc = "delete_table"
    /\ table
    /\ NoRuleset
    /\ Goto("recreate_table")
    /\ UNCHANGED <<established, clock>>

RecreateTable ==
    /\ pc = "recreate_table"
    /\ table' = TRUE
    /\ Goto("add_chain")
    /\ UNCHANGED <<chain, rules, sets, elements, knocked, established, clock>>

\* Mutant: the policy does not depend on default_deny.
AddDroppingChain ==
    /\ pc = "add_chain"
    /\ table
    /\ chain' = "drop"
    /\ Goto("host_rules")
    /\ UNCHANGED <<table, rules, sets, elements, knocked, established, clock>>

AddChain ==
    /\ pc = "add_chain"
    /\ table
    /\ chain' = IF default_deny THEN "drop" ELSE "accept"
    /\ Goto("host_rules")
    /\ UNCHANGED <<table, rules, sets, elements, knocked, established, clock>>

\* Mutant: "insert rule", the rule goes to the head of the chain.
InsertRule(rule) ==
    /\ chain # "none"
    /\ rules' = <<rule>> \o rules
    /\ UNCHANGED <<table, chain, sets, elements, knocked, established, clock>>

\* "add rule": the chain must exist, the rule goes to its end.
AddRule(rule) ==
    /\ chain # "none"
    /\ rules' = Append(rules, rule)
    /\ UNCHANGED <<table, chain, sets, elements, knocked, established, clock>>

\* The rules that do not depend on a knock.
AllowRules == [i \in 1..Len(always_allow_ports) |-> AllowRule(always_allow_ports[i])]

\* Mutant: only the timed sets let packets in.
NotEstablished == <<LoopbackRule>> \o (IF default_deny THEN AllowRules ELSE <<>>)

HostRules ==
    <<EstablishedRule, LoopbackRule>> \o (IF default_deny THEN AllowRules ELSE <<>>)

\* After the last of them, setup_port_group for the first group.
AcceptHost ==
    /\ pc = "host_rules"
    /\ AddRule(HostRules[k])
    /\ IF k < Len(HostRules)
       THEN pc' = pc /\ k' = k + 1
       ELSE pc' = "add_set" /\ k' = 1
    /\ UNCHANGED <<group, stopping, failures>>

\* Mutant: the sets are numbered in the order of their creation.
AddNumberedSet ==
    /\ pc = "add_set"
    /\ table
    /\ sets' = sets \cup {IF sets = {} THEN 0 ELSE 1 + CHOOSE x \in sets : \A y \in sets : y <= x}
    /\ pc' = "accept_rule" /\ k' = 1
    /\ UNCHANGED <<group, stopping, failures, table, chain, rules, elements, knocked,
                   established, clock>>

AddSet ==
    /\ pc = "add_set"
    /\ table
    /\ sets' = sets \cup {group}
    /\ pc' = "accept_rule" /\ k' = 1
    /\ UNCHANGED <<group, stopping, failures, table, chain, rules, elements, knocked,
                   established, clock>>

\* std::map visits the channels in ascending order.
IsNextGroup(h) ==
    /\ h \in Groups /\ h > group
    /\ \A x \in Groups : x > group => h <= x

NextPort ==
    /\ \/ /\ k < Len(PortsOf(group))
          /\ pc' = "accept_rule" /\ k' = k + 1 /\ UNCHANGED group
       \/ /\ k = Len(PortsOf(group))
          /\ \/ \E h \in Groups : IsNextGroup(h) /\ group' = h /\ pc' = "add_set"
             \/ (\A x \in Groups : x <= group) /\ pc' = "running" /\ UNCHANGED group
          /\ k' = 1
    /\ UNCHANGED <<stopping, failures>>

\* Mutant: the policy is trusted to drop everybody else in both modes.
AcceptMembersOnly ==
    /\ pc = "accept_rule"
    /\ group \in sets
    /\ AddRule(AcceptRule(group, PortsOf(group)[k]))
    /\ NextPort

\* Mutant: the members of every group are let in to the primary ports.
AcceptPrimary ==
    /\ pc = "accept_rule"
    /\ group \in sets
    /\ AddRule(AcceptRule(group, target_ports[1]))
    /\ IF default_deny THEN NextPort ELSE Goto("drop_rule")

\* The set a rule refers to must exist.
AcceptMembers ==
    /\ pc = "accept_rule"
    /\ group \in sets
    /\ AddRule(AcceptRule(group, PortsOf(group)[k]))
    /\ IF default_deny THEN NextPort ELSE Goto("drop_rule")

DropOthers ==
    /\ pc = "drop_rule"
    /\ AddRule(DenyRule(PortsOf(group)[k]))
    /\ NextPort

ensure_base_ruleset ==
    \/ AddTable \/ DeleteTable \/ RecreateTable \/ AddChain
    \/ AcceptHost \/ AddSet \/ AcceptMembers \/ DropOthers

-----------------------------------------------------------------------------
(***************************************************************************)
(* exec_and_wait throws when nft fails, and main exits with what has been  *)
(* built.  It fails for want of the object it works on, or for no reason   *)
(* the ruleset shows; a crash of the daemon leaves the same behind.        *)
(***************************************************************************)
Impossible ==
    \/ pc \in {"delete_table", "add_chain", "add_set"} /\ ~table
    \/ pc \in {"host_rules", "drop_rule"} /\ chain = "none"
    \/ pc = "accept_rule" /\ (chain = "none" \/ group \notin sets)

NftRejects ==
    /\ Impossible
    /\ pc' = "down"
    /\ UNCHANGED <<group, k, stopping, failures, rulesetVars, established, clock>>

Fail ==
    /\ pc \in Building \cup {"running"}
    /\ failures < MAX_FAILURES
    /\ failures' = failures + 1
    /\ pc' = "down"
    /\ UNCHANGED <<group, k, stopping, rulesetVars, established, clock>>

\* systemd's Restart=on-failure, procd's respawn.
Restart ==
    /\ pc = "down" /\ ~stopping
    /\ pc' = "add_table" /\ group' = 0 /\ k' = 1
    /\ UNCHANGED <<stopping, failures, rulesetVars, established, clock>>

\* server/openwrt/knockd.init: procd runs stop_service, which deletes the
\* table, and then kills the daemon, whatever the daemon is doing.
stop_service ==
    /\ procd /\ ~stopping /\ pc # "stopped"
    /\ failures < MAX_FAILURES
    /\ failures' = failures + 1
    /\ stopping' = TRUE
    /\ NoRuleset
    /\ UNCHANGED <<pc, group, k, established, clock>>

Kill ==
    /\ stopping
    /\ pc' = "stopped" /\ stopping' = FALSE
    /\ UNCHANGED <<group, k, failures, rulesetVars, established, clock>>

Start ==
    /\ pc = "stopped"
    /\ pc' = "add_table" /\ group' = 0 /\ k' = 1
    /\ UNCHANGED <<stopping, failures, rulesetVars, established, clock>>

-----------------------------------------------------------------------------
(***************************************************************************)
(* open_for (group 0) and open_port_for, through add_to_set.  A kernel may *)
(* refresh the timeout of an element that is already there, or keep it.    *)
(* When nft fails nothing changes, and the dispatcher logs the exception.  *)
(***************************************************************************)
add_to_set(s, g) ==
    /\ pc = "running"
    /\ g \in sets
    /\ \/ elements' = Put(elements, <<g, s>>, clock + open_duration)
       \/ <<g, s>> \in DOMAIN elements /\ UNCHANGED elements
    /\ knocked' = Put(knocked, <<g, s>>, clock)
    /\ UNCHANGED <<daemonVars, table, chain, rules, sets, established, clock>>

open_port_for(s, g) == g \in Groups /\ add_to_set(s, g)

\* A client of the host opens a connection; conntrack remembers it.
Connect(s, p) ==
    /\ Accepted(NewPacket(s, p))
    /\ established' = established \cup {<<s, p>>}
    /\ UNCHANGED <<daemonVars, rulesetVars, clock>>

\* Time passes, and the kernel removes the elements that have expired.
Tick ==
    /\ clock < MAX_CLOCK
    /\ clock' = clock + 1
    /\ elements' = [x \in {y \in DOMAIN elements : elements[y] > clock + 1} |-> elements[x]]
    /\ UNCHANGED <<daemonVars, table, chain, rules, sets, knocked, established>>

Next ==
    \/ ensure_base_ruleset
    \/ NftRejects \/ Fail \/ Restart \/ stop_service \/ Kill \/ Start
    \/ \E s \in Sources : \E g \in Groups : open_port_for(s, g)
    \/ \E s \in Sources, p \in Ports : Connect(s, p)
    \/ Tick

Spec == Init /\ [][Next]_vars

\* The commands of the script run one after the other, a daemon that failed is
\* started again, and procd's stop goes on from stop_service to the kill.
FairSpec ==
    /\ Spec
    /\ WF_vars(ensure_base_ruleset) /\ WF_vars(NftRejects)
    /\ WF_vars(Restart) /\ WF_vars(Kill)

-----------------------------------------------------------------------------
TypeOK ==
    /\ pc \in Building \cup {"running", "down", "stopped"}
    /\ group \in Groups /\ k \in Nat \ {0}
    /\ stopping \in BOOLEAN /\ failures \in Nat
    /\ table \in BOOLEAN
    /\ chain \in {"none", "accept", "drop"}
    /\ rules \in Seq(Rule)
    /\ sets \subseteq Groups
    /\ DOMAIN elements \subseteq Groups \X Sources
    /\ \A x \in DOMAIN elements : elements[x] \in Nat
    /\ DOMAIN knocked \subseteq Groups \X Sources
    /\ \A x \in DOMAIN knocked : knocked[x] \in Nat
    /\ established \subseteq Sources \X Ports
    /\ clock \in Nat

\* A knock for a group with port p was verified less than open_duration ago.
OpenedBy(s, p) ==
    \E g \in Groups :
        /\ p \in PortSet(PortsOf(g))
        /\ <<g, s>> \in DOMAIN knocked
        /\ clock < knocked[<<g, s>>] + open_duration

\* The gate for port p is up: the policy is to drop, the ruleset is complete, or
\* the rule that drops strangers has been added, whatever became of the daemon.
Guarded(p) ==
    /\ chain # "none"
    /\ \/ default_deny
       \/ pc = "running"
       \/ \E i \in 1..Len(rules) : rules[i] = DenyRule(p)

(***************************************************************************)
(* A new connection to a gated port gets through only after a knock of its *)
(* own source, for as long as open_duration, on a channel with that port;  *)
(* so at every prefix of the ruleset that guards the port, and after the   *)
(* daemon died and left one behind.                                        *)
(***************************************************************************)
GateClosed ==
    \A s \in Sources, p \in Gated :
        Guarded(p) /\ Accepted(NewPacket(s, p))
        => \/ OpenedBy(s, p)
           \/ default_deny /\ p \in PortSet(always_allow_ports)

(***************************************************************************)
(* A source in a timed set reaches every port of the set's group.          *)
(***************************************************************************)
KnockAdmits ==
    pc = "running" =>
        \A x \in DOMAIN elements :
            \A p \in PortSet(PortsOf(x[1])) : Accepted(NewPacket(x[2], p))

\* No port belongs to two groups.
GroupsDisjoint ==
    \A g, h \in Groups : g # h => PortSet(PortsOf(g)) \cap PortSet(PortsOf(h)) = {}

(***************************************************************************)
(* Through every partial build, the first rule that closes a port to the   *)
(* others stands behind a rule that admits the members of one of its       *)
(* groups.                                                                 *)
(***************************************************************************)
AdmitBeforeDeny ==
    \A i \in 1..Len(rules) : \A p \in Gated :
        rules[i] = DenyRule(p) =>
            \E j \in 1..(i - 1) : \E g \in Groups :
                /\ p \in PortSet(PortsOf(g))
                /\ rules[j] = AcceptRule(g, p)
                /\ \A m \in 1..(j - 1) : rules[m] # DenyRule(p)

(***************************************************************************)
(* An open connection keeps flowing when its timed entry expires, and      *)
(* through failures and rebuilds too unless the policy is to drop.         *)
(***************************************************************************)
ConnectionsFlow ==
    ~default_deny \/ pc = "running" =>
        \A x \in established : Accepted(EstablishedPacket(x[1], x[2]))

(***************************************************************************)
(* Without default_deny, no prefix of the ruleset touches a port that is   *)
(* not gated or a local connection; with it, the always-allowed ports and  *)
(* local connections get through once the ruleset is complete.             *)
(***************************************************************************)
OthersUntouched ==
    \A s \in Sources, p \in Ports :
        /\ ~default_deny =>
              /\ p \notin Gated => Accepted(NewPacket(s, p))
              /\ Accepted(LocalPacket(s, p))
        /\ pc = "running" =>
              /\ Accepted(LocalPacket(s, p))
              /\ p \in PortSet(always_allow_ports) /\ default_deny =>
                    Accepted(NewPacket(s, p))

\* No list names a port twice, nor do two groups where each adds a drop rule.
PortsListedOnce ==
    /\ \A i, j \in 1..Len(always_allow_ports) :
          i # j => always_allow_ports[i] # always_allow_ports[j]
    /\ \A g \in Groups : \A i, j \in 1..Len(PortsOf(g)) : i # j => PortsOf(g)[i] # PortsOf(g)[j]
    /\ default_deny \/ GroupsDisjoint

(***************************************************************************)
(* Restarts do not pile up rules: "add rule" is not idempotent, and no     *)
(* order of failures and restarts makes a rule appear twice.               *)
(***************************************************************************)
NoRuleTwice ==
    \A i, j \in 1..Len(rules) : i # j => rules[i] # rules[j]

(***************************************************************************)
(* A daemon that failed is eventually listening again, or stopped.         *)
(***************************************************************************)
Rearms == pc = "down" ~> pc \in {"running", "stopped"}

(***************************************************************************)
(* server/openwrt/knockd.init: a stopped knockd never leaves the router    *)
(* locked to its clients.                                                  *)
(***************************************************************************)
StoppedUnlocks ==
    pc = "stopped" => \A s \in Sources, p \in Ports : Accepted(NewPacket(s, p))

-----------------------------------------------------------------------------
(***************************************************************************)
(* The inductive invariant: how far the script has come, what its rules    *)
(* are, and how the timed sets relate to the knocks.                       *)
(***************************************************************************)
Filtering == chain # "none"

\* Whether the rules for the q-th port of group h have been added.
InGroups == pc \in {"add_set", "accept_rule", "drop_rule"}

AcceptDone(h, q) ==
    \/ pc = "running"
    \/ InGroups /\ h < group
    \/ InGroups /\ h = group /\ q < k
    \/ pc = "drop_rule" /\ h = group /\ q = k

DenyDone(h, q) ==
    \/ pc = "running"
    \/ InGroups /\ h < group
    \/ InGroups /\ h = group /\ q < k

\* Whether the rule for the q-th always-allowed port has been added.
AllowDone(q) ==
    \/ pc = "running" \/ InGroups
    \/ pc = "host_rules" /\ q + 2 < k

LoopInv ==
    /\ pc \in {"add_table", "delete_table", "recreate_table", "add_chain"} => k = 1
    /\ pc = "host_rules" => k <= Len(HostRules)
    /\ pc \in Building /\ ~InGroups => group = 0
    /\ pc = "add_set" => k = 1
    /\ pc \in {"accept_rule", "drop_rule"} => k <= Len(PortsOf(group))
    /\ pc = "drop_rule" => ~default_deny

ChainInv ==
    /\ Filtering => table /\ chain = (IF default_deny THEN "drop" ELSE "accept")
    /\ ~Filtering => rules = <<>>
    /\ ~table => sets = {}
    /\ pc \in {"recreate_table", "add_chain"} => ~Filtering
    /\ pc = "host_rules" /\ Filtering => Len(rules) = k - 1
    /\ pc \in {"add_set", "accept_rule", "drop_rule", "running"} /\ Filtering =>
          Len(rules) >= 2

IsAllowRule(r)  == default_deny /\ \E p \in PortSet(always_allow_ports) : r = AllowRule(p)
IsAcceptRule(r) == \E g \in Groups : \E p \in PortSet(PortsOf(g)) : r = AcceptRule(g, p)
IsDenyRule(r)   == ~default_deny /\ \E p \in Gated : r = DenyRule(p)

RuleInv ==
    /\ Len(rules) >= 1 => rules[1] = EstablishedRule
    /\ Len(rules) >= 2 => rules[2] = LoopbackRule
    /\ \A i \in 3..Len(rules) :
          IsAllowRule(rules[i]) \/ IsAcceptRule(rules[i]) \/ IsDenyRule(rules[i])

ProgressInv ==
    Filtering =>
        /\ \A q \in 1..Len(always_allow_ports) :
              AllowDone(q) /\ default_deny =>
                  \E i \in 1..Len(rules) : rules[i] = AllowRule(always_allow_ports[q])
        /\ \A g \in Groups : \A q \in 1..Len(PortsOf(g)) :
              /\ AcceptDone(g, q) =>
                    \E i \in 1..Len(rules) : rules[i] = AcceptRule(g, PortsOf(g)[q])
              /\ DenyDone(g, q) /\ ~default_deny =>
                    \E i \in 1..Len(rules) : rules[i] = DenyRule(PortsOf(g)[q])

\* Conversely, a rule is there only when its turn in a loop of the script is over.
IsDone(r) ==
    \/ \E q \in 1..Len(always_allow_ports) :
          AllowDone(q) /\ r = AllowRule(always_allow_ports[q])
    \/ \E g \in Groups : \E q \in 1..Len(PortsOf(g)) :
          \/ AcceptDone(g, q) /\ r = AcceptRule(g, PortsOf(g)[q])
          \/ DenyDone(g, q) /\ r = DenyRule(PortsOf(g)[q])

DoneInv ==
    Filtering /\ (pc = "host_rules" \/ InGroups) =>
        \A i \in 3..Len(rules) : IsDone(rules[i])

ElementInv ==
    \A x \in DOMAIN elements :
        /\ x[1] \in sets
        /\ x \in DOMAIN knocked /\ knocked[x] <= clock
        /\ clock < elements[x]
        /\ elements[x] <= knocked[x] + open_duration

IInv == TypeOK /\ LoopInv /\ ChainInv /\ RuleInv /\ ProgressInv /\ ElementInv

=============================================================================
