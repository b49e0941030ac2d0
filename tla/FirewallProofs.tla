--------------------------- MODULE FirewallProofs ---------------------------
(***************************************************************************)
(* Theorems about Firewall, for every configuration of ports and groups,   *)
(* either policy and either service manager.                               *)
(***************************************************************************)
EXTENDS Firewall, SequenceTheorems, TLAPS

-----------------------------------------------------------------------------
(***************************************************************************)
(* The configuration: ports of a group, and the rules made of them.        *)
(***************************************************************************)
LEMMA GroupTypes ==
    /\ 0 \in Groups
    /\ \A g \in Groups :
          /\ g \in Nat
          /\ PortsOf(g) \in Seq(Ports)
          /\ Len(PortsOf(g)) \in Nat \ {0}
          /\ \A i \in 1..Len(PortsOf(g)) :
                /\ PortsOf(g)[i] \in PortSet(PortsOf(g))
                /\ PortsOf(g)[i] \in Ports /\ PortsOf(g)[i] \in Nat
                /\ PortsOf(g)[i] \in Gated
<1>1. 0 \in Groups
  BY DEF Groups
<1>2. ASSUME NEW g \in Groups
      PROVE  g \in Nat /\ PortsOf(g) \in Seq(Ports) /\ PortsOf(g) # <<>>
  BY FirewallAssumption DEF Groups, PortsOf
<1>3. ASSUME NEW g \in Groups
      PROVE  Len(PortsOf(g)) \in Nat \ {0}
  BY <1>2, EmptySeq
<1>4. ASSUME NEW g \in Groups, NEW i \in 1..Len(PortsOf(g))
      PROVE  /\ PortsOf(g)[i] \in PortSet(PortsOf(g))
             /\ PortsOf(g)[i] \in Ports /\ PortsOf(g)[i] \in Nat
             /\ PortsOf(g)[i] \in Gated
  <2>1. PortsOf(g)[i] \in Ports
    BY <1>2, ElementOfSeq
  <2>2. PortsOf(g)[i] \in Nat
    BY <2>1, FirewallAssumption
  <2>3. PortsOf(g)[i] \in PortSet(PortsOf(g))
    BY DEF PortSet
  <2>4. PortsOf(g)[i] \in Gated
    BY <2>3 DEF Gated
  <2> QED BY <2>1, <2>2, <2>3, <2>4
<1> QED BY <1>1, <1>2, <1>3, <1>4

LEMMA AlwaysTypes ==
    /\ Len(always_allow_ports) \in Nat
    /\ always_allow_ports # <<>> => Len(always_allow_ports) >= 1
    /\ \A i \in 1..Len(always_allow_ports) :
          /\ always_allow_ports[i] \in PortSet(always_allow_ports)
          /\ always_allow_ports[i] \in Nat
<1>1. always_allow_ports \in Seq(Ports)
  BY FirewallAssumption
<1>2. /\ Len(always_allow_ports) \in Nat
      /\ always_allow_ports # <<>> => Len(always_allow_ports) >= 1
  BY <1>1, EmptySeq
<1>3. ASSUME NEW i \in 1..Len(always_allow_ports)
      PROVE  /\ always_allow_ports[i] \in PortSet(always_allow_ports)
             /\ always_allow_ports[i] \in Nat
  <2>1. always_allow_ports[i] \in Ports
    BY <1>1, ElementOfSeq
  <2> QED BY <2>1, FirewallAssumption DEF PortSet
<1> QED BY <1>2, <1>3

LEMMA RuleTypes ==
    /\ EstablishedRule \in Rule /\ LoopbackRule \in Rule
    /\ \A p \in Nat : AllowRule(p) \in Rule /\ DenyRule(p) \in Rule
    /\ \A g \in Nat, p \in Nat : AcceptRule(g, p) \in Rule
BY DEF EstablishedRule, LoopbackRule, AllowRule, DenyRule, AcceptRule, Rule

LEMMA HostRuleShapes ==
    /\ Len(HostRules) \in Nat /\ Len(HostRules) >= 2
    /\ HostRules[1] = EstablishedRule /\ HostRules[2] = LoopbackRule
    /\ \A i \in 1..Len(HostRules) :
          /\ HostRules[i] \in Rule
          /\ i = 1 \/ i = 2 \/ IsAllowRule(HostRules[i])
    /\ default_deny =>
          /\ Len(HostRules) = Len(always_allow_ports) + 2
          /\ \A q \in 1..Len(always_allow_ports) :
                HostRules[q + 2] = AllowRule(always_allow_ports[q])
<1> DEFINE first == <<EstablishedRule, LoopbackRule>>
           rest == IF default_deny THEN AllowRules ELSE <<>>
<1>1. /\ first \in Seq(Rule) /\ Len(first) = 2
      /\ first[1] = EstablishedRule /\ first[2] = LoopbackRule
  BY RuleTypes
<1>2. /\ AllowRules \in Seq(Rule) /\ Len(AllowRules) = Len(always_allow_ports)
      /\ \A q \in 1..Len(always_allow_ports) :
            AllowRules[q] = AllowRule(always_allow_ports[q])
  BY AlwaysTypes, RuleTypes DEF AllowRules
<1>3. rest \in Seq(Rule)
  BY <1>2
<1>4. HostRules = first \o rest
  BY DEF HostRules
<1> HIDE DEF first, rest
<1>5. /\ HostRules \in Seq(Rule) /\ Len(rest) \in Nat
      /\ Len(HostRules) = 2 + Len(rest)
      /\ HostRules[1] = EstablishedRule /\ HostRules[2] = LoopbackRule
      /\ \A q \in 1..Len(rest) : HostRules[q + 2] = rest[q]
  <2>1. /\ first \o rest \in Seq(Rule) /\ Len(rest) \in Nat
        /\ Len(first \o rest) = Len(first) + Len(rest)
        /\ \A i \in 1..(Len(first) + Len(rest)) :
              (first \o rest)[i] = IF i <= Len(first) THEN first[i] ELSE rest[i - Len(first)]
    <3>1. first \in Seq(Rule) /\ rest \in Seq(Rule)
      BY <1>1, <1>3
    <3>2. Len(rest) \in Nat
      BY <3>1
    <3> QED BY <3>1, <3>2, ConcatProperties, Zenon
  <2>2. \A i \in 1..(2 + Len(rest)) :
           HostRules[i] = IF i <= 2 THEN first[i] ELSE rest[i - 2]
    BY <1>1, <1>4, <2>1
  <2>3. HostRules[1] = EstablishedRule /\ HostRules[2] = LoopbackRule
    BY <1>1, <2>1, <2>2
  <2>4. ASSUME NEW q \in 1..Len(rest)
        PROVE  HostRules[q + 2] = rest[q]
    <3>1. q + 2 \in 1..(2 + Len(rest)) /\ ~(q + 2 <= 2) /\ (q + 2) - 2 = q
      BY <2>1
    <3> QED BY <2>2, <3>1
  <2> QED BY <1>1, <1>4, <2>1, <2>3, <2>4
<1>6. default_deny =>
        /\ Len(HostRules) = Len(always_allow_ports) + 2
        /\ \A q \in 1..Len(always_allow_ports) :
              HostRules[q + 2] = AllowRule(always_allow_ports[q])
  BY <1>2, <1>5, AlwaysTypes DEF rest
<1>7. ~default_deny => Len(HostRules) = 2
  BY <1>5 DEF rest
<1>8. ASSUME NEW i \in 1..Len(HostRules), i # 1, i # 2
      PROVE  IsAllowRule(HostRules[i])
  <2>1. default_deny /\ i - 2 \in 1..Len(always_allow_ports) /\ i = (i - 2) + 2
    BY <1>5, <1>6, <1>7, <1>8, AlwaysTypes
  <2>2. HostRules[i] = AllowRule(always_allow_ports[i - 2])
    BY <1>6, <2>1
  <2> QED BY <2>1, <2>2, AlwaysTypes DEF IsAllowRule
<1>9. \A i \in 1..Len(HostRules) : HostRules[i] \in Rule
  BY <1>5, ElementOfSeq
<1> QED BY <1>5, <1>6, <1>8, <1>9

LEMMA AddRuleAppends ==
    ASSUME NEW rule \in Rule, rules \in Seq(Rule), AddRule(rule)
    PROVE  /\ rules' \in Seq(Rule)
           /\ Len(rules) \in Nat /\ Len(rules') = Len(rules) + 1
           /\ \A i \in 1..Len(rules) : rules'[i] = rules[i]
           /\ rules'[Len(rules) + 1] = rule
           /\ chain # "none"
           /\ UNCHANGED <<table, chain, sets, elements, knocked, established, clock>>
BY AppendProperties DEF AddRule

-----------------------------------------------------------------------------
(***************************************************************************)
(* The loops over groups and ports: a step of setup_port_group leaves      *)
(* exactly the current port behind, and visits every group.                *)
(***************************************************************************)
LEMMA NextPortAdvances ==
    ASSUME TypeOK, LoopInv, pc \in {"accept_rule", "drop_rule"}, NextPort
    PROVE  /\ pc' \in {"accept_rule", "add_set", "running"}
           /\ group' \in Groups /\ k' \in Nat \ {0}
           /\ LoopInv'
           /\ UNCHANGED <<stopping, failures>>
           /\ \A h \in Groups : \A q \in 1..Len(PortsOf(h)) :
                 /\ AcceptDone(h, q)' => AcceptDone(h, q) \/ (h = group /\ q = k)
                 /\ DenyDone(h, q)' => DenyDone(h, q) \/ (h = group /\ q = k)
<1>1. /\ group \in Groups /\ group \in Nat /\ k \in Nat \ {0}
      /\ k <= Len(PortsOf(group)) /\ Len(PortsOf(group)) \in Nat
  BY GroupTypes DEF TypeOK, LoopInv
<1>2. UNCHANGED <<stopping, failures>>
  BY DEF NextPort
<1>3. CASE k < Len(PortsOf(group)) /\ pc' = "accept_rule" /\ k' = k + 1 /\ UNCHANGED group
  <2>1. LoopInv' /\ group' \in Groups /\ k' \in Nat \ {0}
    BY <1>1, <1>3 DEF LoopInv, Building, InGroups
  <2> QED BY <1>1, <1>2, <1>3, <2>1 DEF AcceptDone, DenyDone, InGroups
<1>4. CASE /\ k = Len(PortsOf(group)) /\ k' = 1
           /\ \E h \in Groups : IsNextGroup(h) /\ group' = h /\ pc' = "add_set"
  <2>1. /\ group' \in Groups /\ group' > group /\ pc' = "add_set"
        /\ \A x \in Groups : x > group => group' <= x
    BY <1>4 DEF IsNextGroup
  <2>2. LoopInv' /\ k' \in Nat \ {0}
    BY <1>4, <2>1 DEF LoopInv, Building, InGroups
  <2>3. ASSUME NEW h \in Groups, NEW q \in 1..Len(PortsOf(h)),
               AcceptDone(h, q)' \/ DenyDone(h, q)'
        PROVE  h < group \/ (h = group /\ (q < k \/ q = k))
    <3>1. h \in Nat /\ group' \in Nat /\ q \in Nat
      BY <2>1, GroupTypes
    <3>2. h < group'
      BY <1>4, <2>1, <2>3, <3>1 DEF AcceptDone, DenyDone, InGroups
    <3>3. h <= group
      BY <1>1, <2>1, <3>1, <3>2
    <3> QED BY <1>1, <1>4, <3>1, <3>3
  <2> QED BY <1>2, <2>1, <2>2, <2>3 DEF AcceptDone, DenyDone, InGroups
<1>5. CASE /\ k = Len(PortsOf(group)) /\ k' = 1
           /\ (\A x \in Groups : x <= group) /\ pc' = "running" /\ UNCHANGED group
  <2>1. LoopInv' /\ group' \in Groups /\ k' \in Nat \ {0}
    BY <1>1, <1>5 DEF LoopInv, Building, InGroups
  <2>2. ASSUME NEW h \in Groups, NEW q \in 1..Len(PortsOf(h))
        PROVE  h < group \/ (h = group /\ (q < k \/ q = k))
    BY <1>1, <1>5, GroupTypes
  <2> QED BY <1>2, <1>5, <2>1, <2>2 DEF AcceptDone, DenyDone, InGroups
<1> QED BY <1>3, <1>4, <1>5 DEF NextPort

(***************************************************************************)
(* Appending a rule keeps what the earlier rules established.              *)
(***************************************************************************)
LEMMA AddRuleKeepsRules ==
    ASSUME IInv, NEW rule \in Rule, AddRule(rule),
           Len(rules) = 0 => rule = EstablishedRule,
           Len(rules) = 1 => rule = LoopbackRule,
           Len(rules) >= 2 => IsAllowRule(rule) \/ IsAcceptRule(rule) \/ IsDenyRule(rule)
    PROVE  RuleInv' /\ ElementInv'
<1>1. /\ Len(rules) \in Nat /\ Len(rules') = Len(rules) + 1
      /\ \A i \in 1..Len(rules) : rules'[i] = rules[i]
      /\ rules'[Len(rules) + 1] = rule
      /\ UNCHANGED <<sets, elements, knocked, clock>>
  BY AddRuleAppends DEF IInv, TypeOK
<1>2. ElementInv'
  BY <1>1 DEF IInv, ElementInv
<1>3. Len(rules') >= 1 => rules'[1] = EstablishedRule
  <2>1. CASE Len(rules) = 0
    BY <1>1, <2>1
  <2>2. CASE Len(rules) >= 1
    BY <1>1, <2>2 DEF IInv, RuleInv
  <2> QED BY <1>1, <2>1, <2>2
<1>4. Len(rules') >= 2 => rules'[2] = LoopbackRule
  <2>1. CASE Len(rules) = 0
    BY <1>1, <2>1
  <2>2. CASE Len(rules) = 1
    BY <1>1, <2>2
  <2>3. CASE Len(rules) >= 2
    BY <1>1, <2>3 DEF IInv, RuleInv
  <2> QED BY <1>1, <2>1, <2>2, <2>3
<1>5. ASSUME NEW i \in 3..Len(rules')
      PROVE  IsAllowRule(rules'[i]) \/ IsAcceptRule(rules'[i]) \/ IsDenyRule(rules'[i])
  <2>1. CASE i = Len(rules) + 1
    BY <1>1, <2>1
  <2>2. CASE i \in 3..Len(rules)
    BY <1>1, <2>2 DEF IInv, RuleInv
  <2> QED BY <1>1, <2>1, <2>2
<1> QED BY <1>2, <1>3, <1>4, <1>5 DEF RuleInv, IsAllowRule, IsAcceptRule, IsDenyRule

LEMMA AddRuleKeepsProgress ==
    ASSUME IInv, NEW rule \in Rule, AddRule(rule),
           \A q \in 1..Len(always_allow_ports) :
              default_deny /\ AllowDone(q)' =>
                 AllowDone(q) \/ rule = AllowRule(always_allow_ports[q]),
           \A g \in Groups : \A q \in 1..Len(PortsOf(g)) :
              /\ AcceptDone(g, q)' =>
                    AcceptDone(g, q) \/ rule = AcceptRule(g, PortsOf(g)[q])
              /\ ~default_deny /\ DenyDone(g, q)' =>
                    DenyDone(g, q) \/ rule = DenyRule(PortsOf(g)[q])
    PROVE  ProgressInv'
<1>1. /\ Len(rules) \in Nat /\ Len(rules') = Len(rules) + 1
      /\ \A i \in 1..Len(rules) : rules'[i] = rules[i]
      /\ rules'[Len(rules) + 1] = rule
      /\ Filtering
  BY AddRuleAppends DEF IInv, TypeOK, Filtering
<1>2. ASSUME NEW r, (\E i \in 1..Len(rules) : rules[i] = r) \/ rule = r
      PROVE  \E i \in 1..Len(rules') : rules'[i] = r
  <2>1. CASE \E i \in 1..Len(rules) : rules[i] = r
    BY <1>1, <2>1
  <2>2. CASE rule = r
    BY <1>1, <2>2
  <2> QED BY <1>2, <2>1, <2>2
<1>3. ASSUME NEW q \in 1..Len(always_allow_ports), default_deny, AllowDone(q)'
      PROVE  \E i \in 1..Len(rules') : rules'[i] = AllowRule(always_allow_ports[q])
  BY <1>1, <1>2, <1>3 DEF IInv, ProgressInv
<1>4. ASSUME NEW g \in Groups, NEW q \in 1..Len(PortsOf(g)), AcceptDone(g, q)'
      PROVE  \E i \in 1..Len(rules') : rules'[i] = AcceptRule(g, PortsOf(g)[q])
  BY <1>1, <1>2, <1>4 DEF IInv, ProgressInv
<1>5. ASSUME NEW g \in Groups, NEW q \in 1..Len(PortsOf(g)),
             ~default_deny, DenyDone(g, q)'
      PROVE  \E i \in 1..Len(rules') : rules'[i] = DenyRule(PortsOf(g)[q])
  BY <1>1, <1>2, <1>5 DEF IInv, ProgressInv
<1> QED BY <1>3, <1>4, <1>5 DEF ProgressInv

-----------------------------------------------------------------------------
(***************************************************************************)
(* One lemma for each command of ensure_base_ruleset that is not a mere    *)
(* change of the table.                                                    *)
(***************************************************************************)
LEMMA TableStep ==
    ASSUME IInv, AddTable \/ DeleteTable \/ RecreateTable \/ AddChain
    PROVE  IInv'
<1>1. CASE AddTable
  BY <1>1 DEF AddTable, Goto, IInv, TypeOK, LoopInv, ChainInv, RuleInv, ProgressInv,
              ElementInv, Filtering, Building, InGroups, AcceptDone, DenyDone, AllowDone,
              IsAllowRule, IsAcceptRule, IsDenyRule
<1>2. CASE DeleteTable
  <2>1. rules' = <<>> /\ rules' \in Seq(Rule) /\ Len(rules') = 0 /\ chain' = "none"
    BY <1>2 DEF DeleteTable, NoRuleset
  <2>2. TypeOK' /\ LoopInv' /\ ChainInv' /\ ElementInv'
    BY <1>2, <2>1 DEF DeleteTable, NoRuleset, EmptyMap, Goto, IInv, TypeOK, LoopInv,
         ChainInv, ElementInv, Filtering, Building, InGroups
  <2> QED BY <2>1, <2>2 DEF IInv, RuleInv, ProgressInv, Filtering
<1>3. CASE RecreateTable
  BY <1>3 DEF RecreateTable, Goto, IInv, TypeOK, LoopInv, ChainInv, RuleInv, ProgressInv,
              ElementInv, Filtering, Building, InGroups, AcceptDone, DenyDone, AllowDone,
              IsAllowRule, IsAcceptRule, IsDenyRule
<1>4. CASE AddChain
  <2>1. rules = <<>> /\ rules' = <<>> /\ Len(rules') = 0 /\ pc' = "host_rules" /\ k' = 1
    BY <1>4 DEF AddChain, Goto, IInv, LoopInv, ChainInv
  <2>2. TypeOK' /\ LoopInv' /\ ChainInv' /\ ElementInv'
    BY <1>4, <2>1, FirewallAssumption, HostRuleShapes DEF AddChain, Goto, IInv, TypeOK, LoopInv,
         ChainInv, ElementInv, Filtering, Building, InGroups
  <2> QED BY <2>1, <2>2 DEF IInv, RuleInv, ProgressInv, AcceptDone, DenyDone, AllowDone,
            InGroups
<1> QED BY <1>1, <1>2, <1>3, <1>4

\* What a step that adds a rule keeps of the types.
LEMMA AddRuleTypes ==
    ASSUME IInv, NEW rule \in Rule, AddRule(rule),
           pc' \in Building \cup {"running", "down", "stopped"},
           group' \in Groups, k' \in Nat \ {0}, UNCHANGED <<stopping, failures>>
    PROVE  /\ TypeOK'
           /\ Len(rules) \in Nat /\ Len(rules') = Len(rules) + 1
           /\ Filtering /\ Filtering' /\ table /\ table' = table /\ sets' = sets
           /\ chain' = chain
BY AddRuleAppends DEF IInv, TypeOK, Filtering, ChainInv

LEMMA HostStep ==
    ASSUME IInv, AcceptHost
    PROVE  IInv'
<1> DEFINE rule == HostRules[k]
<1>1. /\ pc = "host_rules" /\ group = 0 /\ group' = 0
      /\ k \in Nat \ {0} /\ k <= Len(HostRules)
      /\ AddRule(rule) /\ UNCHANGED <<stopping, failures>>
      /\ IF k < Len(HostRules)
         THEN pc' = "host_rules" /\ k' = k + 1
         ELSE pc' = "add_set" /\ k' = 1
  BY DEF AcceptHost, IInv, TypeOK, LoopInv, Building, InGroups
<1>2. /\ rule \in Rule /\ Len(HostRules) \in Nat /\ Len(HostRules) >= 2
      /\ k = 1 => rule = EstablishedRule
      /\ k = 2 => rule = LoopbackRule
      /\ k >= 3 => IsAllowRule(rule)
  BY <1>1, HostRuleShapes
<1>3. \A q \in 1..Len(always_allow_ports) :
         default_deny /\ q + 2 = k => rule = AllowRule(always_allow_ports[q])
  BY HostRuleShapes
<1> HIDE DEF rule
<1>4. /\ TypeOK' /\ Len(rules) \in Nat /\ Len(rules') = Len(rules) + 1
      /\ Filtering /\ Filtering' /\ table /\ table' = table /\ sets' = sets /\ chain' = chain
  <2>1. group' \in Groups /\ k' \in Nat \ {0} /\ pc' \in Building
    BY <1>1, GroupTypes DEF Building
  <2> QED BY <1>1, <1>2, <2>1, AddRuleTypes
<1>5. Len(rules) = k - 1
  BY <1>1, <1>4 DEF IInv, ChainInv
<1>6. RuleInv' /\ ElementInv'
  <2>1. /\ Len(rules) = 0 => rule = EstablishedRule
        /\ Len(rules) = 1 => rule = LoopbackRule
        /\ Len(rules) >= 2 => IsAllowRule(rule)
    BY <1>1, <1>2, <1>5
  <2> QED BY <1>1, <1>2, <2>1, AddRuleKeepsRules
<1>7. ProgressInv'
  <2>1. ASSUME NEW q \in 1..Len(always_allow_ports), default_deny, AllowDone(q)'
        PROVE  AllowDone(q) \/ rule = AllowRule(always_allow_ports[q])
    <3>1. q \in Nat /\ q + 2 <= Len(HostRules)
      BY <2>1, AlwaysTypes, HostRuleShapes
    <3>2. q + 2 < k \/ q + 2 = k
      <4>1. CASE k < Len(HostRules)
        BY <1>1, <1>2, <2>1, <3>1, <4>1 DEF AllowDone, InGroups
      <4>2. CASE k = Len(HostRules)
        BY <1>1, <3>1, <4>2
      <4> QED BY <1>1, <1>2, <4>1, <4>2
    <3> QED BY <1>1, <1>3, <2>1, <3>2 DEF AllowDone
  <2>2. ASSUME NEW g \in Groups, NEW q \in 1..Len(PortsOf(g))
        PROVE  ~AcceptDone(g, q)' /\ ~DenyDone(g, q)'
    BY <1>1, GroupTypes DEF AcceptDone, DenyDone, InGroups
  <2> QED BY <1>1, <1>2, <2>1, <2>2, AddRuleKeepsProgress
<1>8. LoopInv' /\ ChainInv'
  BY <1>1, <1>2, <1>4, <1>5 DEF IInv, LoopInv, ChainInv, Building, InGroups, Filtering
<1> QED BY <1>4, <1>6, <1>7, <1>8 DEF IInv

LEMMA AddSetStep ==
    ASSUME IInv, AddSet
    PROVE  IInv'
<1>1. /\ pc = "add_set" /\ pc' = "accept_rule" /\ k = 1 /\ k' = 1 /\ group' = group
      /\ table /\ sets' = sets \cup {group}
      /\ UNCHANGED <<stopping, failures, table, chain, rules, elements, knocked,
                     established, clock>>
  BY DEF AddSet, IInv, LoopInv
<1>2. group \in Groups /\ group \in Nat /\ 1 <= Len(PortsOf(group))
  BY GroupTypes DEF IInv, TypeOK
<1>3. TypeOK' /\ LoopInv' /\ ChainInv' /\ RuleInv' /\ ElementInv'
  BY <1>1, <1>2 DEF IInv, TypeOK, LoopInv, ChainInv, RuleInv, ElementInv, IsAllowRule,
     IsAcceptRule, IsDenyRule, Building, InGroups, Filtering
<1>4. ProgressInv'
  <2>1. \A g \in Groups : \A q \in 1..Len(PortsOf(g)) :
           /\ AcceptDone(g, q)' => AcceptDone(g, q)
           /\ DenyDone(g, q)' => DenyDone(g, q)
    BY <1>1, GroupTypes DEF AcceptDone, DenyDone, InGroups
  <2>2. \A q \in 1..Len(always_allow_ports) : AllowDone(q)' => AllowDone(q)
    BY <1>1 DEF AllowDone, InGroups
  <2> QED BY <1>1, <2>1, <2>2 DEF IInv, ProgressInv, Filtering
<1> QED BY <1>3, <1>4 DEF IInv

LEMMA MembersStep ==
    ASSUME IInv, AcceptMembers \/ DropOthers
    PROVE  IInv'
<1>1. /\ group \in Groups /\ group \in Nat /\ k \in 1..Len(PortsOf(group))
      /\ PortsOf(group)[k] \in PortSet(PortsOf(group))
      /\ PortsOf(group)[k] \in Nat /\ PortsOf(group)[k] \in Gated
      /\ pc \in {"accept_rule", "drop_rule"}
  BY GroupTypes DEF AcceptMembers, DropOthers, IInv, TypeOK, LoopInv
<1>2. Filtering => Len(rules) \in Nat /\ Len(rules) # 0 /\ Len(rules) # 1
  <2>1. Filtering => Len(rules) \in Nat /\ Len(rules) >= 2
    BY <1>1 DEF IInv, TypeOK, ChainInv
  <2> DEFINE n == Len(rules)
  <2>2. Filtering => n \in Nat /\ n >= 2
    BY <2>1
  <2> HIDE DEF n
  <2>3. Filtering => n \in Nat /\ n # 0 /\ n # 1
    BY <2>2
  <2> QED BY <2>3 DEF n
<1>3. CASE AcceptMembers
  <2> DEFINE rule == AcceptRule(group, PortsOf(group)[k])
  <2>1. rule \in Rule /\ IsAcceptRule(rule)
    BY <1>1, RuleTypes DEF IsAcceptRule
  <2>2. /\ pc = "accept_rule" /\ AddRule(rule)
        /\ IF default_deny THEN NextPort ELSE Goto("drop_rule")
    BY <1>3 DEF AcceptMembers
  <2>3. /\ pc' \in Building \cup {"running"} /\ group' \in Groups /\ k' \in Nat \ {0}
        /\ UNCHANGED <<stopping, failures>> /\ LoopInv'
        /\ pc' \in {"accept_rule", "drop_rule", "add_set", "running"}
        /\ \A h \in Groups : \A q \in 1..Len(PortsOf(h)) :
              /\ AcceptDone(h, q)' => AcceptDone(h, q) \/ (h = group /\ q = k)
              /\ ~default_deny /\ DenyDone(h, q)' => DenyDone(h, q)
    <3>1. CASE default_deny
      BY <2>2, <3>1, <1>1, NextPortAdvances DEF IInv, Building
    <3>2. CASE ~default_deny
      <4>1. pc' = "drop_rule" /\ UNCHANGED <<group, k, stopping, failures>>
        BY <2>2, <3>2 DEF Goto
      <4> QED BY <1>1, <2>2, <3>2, <4>1 DEF IInv, TypeOK, LoopInv, Building, InGroups,
              AcceptDone, DenyDone
    <3> QED BY <3>1, <3>2
  <2> HIDE DEF rule
  <2>4. /\ TypeOK' /\ Len(rules) \in Nat /\ Len(rules') = Len(rules) + 1
        /\ Filtering /\ Filtering' /\ table /\ table' = table /\ sets' = sets /\ chain' = chain
    BY <2>1, <2>2, <2>3, AddRuleTypes
  <2>5. RuleInv' /\ ElementInv'
    BY <1>2, <2>1, <2>2, <2>4, AddRuleKeepsRules
  <2>6. ProgressInv'
    <3>1. \A q \in 1..Len(always_allow_ports) : AllowDone(q)
      BY <2>2 DEF AllowDone, InGroups
    <3>2. \A h \in Groups : \A q \in 1..Len(PortsOf(h)) :
             /\ AcceptDone(h, q)' => AcceptDone(h, q) \/ rule = AcceptRule(h, PortsOf(h)[q])
             /\ ~default_deny /\ DenyDone(h, q)' => DenyDone(h, q)
      BY <2>3 DEF rule
    <3> QED BY <2>1, <2>2, <3>1, <3>2, AddRuleKeepsProgress
  <2>7. ChainInv'
    BY <2>2, <2>3, <2>4, <1>2 DEF IInv, ChainInv, Filtering
  <2> QED BY <2>3, <2>4, <2>5, <2>6, <2>7 DEF IInv
<1>4. CASE DropOthers
  <2> DEFINE rule == DenyRule(PortsOf(group)[k])
  <2>1. pc = "drop_rule" /\ AddRule(rule) /\ NextPort /\ ~default_deny
    BY <1>4 DEF DropOthers, IInv, LoopInv
  <2>2. rule \in Rule /\ IsDenyRule(rule)
    BY <1>1, <2>1, RuleTypes DEF IsDenyRule
  <2>3. /\ pc' \in Building \cup {"running"} /\ group' \in Groups /\ k' \in Nat \ {0}
        /\ UNCHANGED <<stopping, failures>> /\ LoopInv'
        /\ pc' \in {"accept_rule", "add_set", "running"}
        /\ \A h \in Groups : \A q \in 1..Len(PortsOf(h)) :
              /\ AcceptDone(h, q)' => AcceptDone(h, q) \/ (h = group /\ q = k)
              /\ DenyDone(h, q)' => DenyDone(h, q) \/ (h = group /\ q = k)
    BY <2>1, NextPortAdvances DEF IInv, Building
  <2> HIDE DEF rule
  <2>4. /\ TypeOK' /\ Len(rules) \in Nat /\ Len(rules') = Len(rules) + 1
        /\ Filtering /\ Filtering' /\ table /\ table' = table /\ sets' = sets /\ chain' = chain
    BY <2>1, <2>2, <2>3, AddRuleTypes
  <2>5. RuleInv' /\ ElementInv'
    BY <1>2, <2>1, <2>2, <2>4, AddRuleKeepsRules
  <2>6. ProgressInv'
    <3>1. \A q \in 1..Len(always_allow_ports) : AllowDone(q)
      BY <2>1 DEF AllowDone, InGroups
    <3>2. AcceptDone(group, k)
      BY <2>1 DEF AcceptDone
    <3>3. \A h \in Groups : \A q \in 1..Len(PortsOf(h)) :
             /\ AcceptDone(h, q)' => AcceptDone(h, q)
             /\ DenyDone(h, q)' => DenyDone(h, q) \/ rule = DenyRule(PortsOf(h)[q])
      BY <2>3, <3>2 DEF rule
    <3> QED BY <2>1, <2>2, <3>1, <3>3, AddRuleKeepsProgress
  <2>7. ChainInv'
    BY <2>1, <2>3, <2>4, <1>2 DEF IInv, ChainInv, Filtering
  <2> QED BY <2>3, <2>4, <2>5, <2>6, <2>7 DEF IInv
<1> QED BY <1>3, <1>4

-----------------------------------------------------------------------------
(***************************************************************************)
(* The failures, restarts and stops.  A daemon that is not building leaves *)
(* no promise about the progress of the script.                            *)
(***************************************************************************)
LEMMA LifecycleStep ==
    ASSUME IInv, NftRejects \/ Fail \/ Restart \/ stop_service \/ Kill \/ Start
    PROVE  IInv'
<1>1. CASE NftRejects \/ Fail \/ Restart \/ Kill \/ Start
  <2>1. /\ UNCHANGED <<rulesetVars, established, clock>>
        /\ pc' \in {"down", "stopped", "add_table"}
        /\ pc' = "add_table" => group' = 0 /\ k' = 1
        /\ group' \in Groups /\ k' \in Nat \ {0}
        /\ stopping' \in BOOLEAN /\ failures' \in Nat
    <3>1. /\ UNCHANGED <<rulesetVars, established, clock>>
          /\ pc' \in {"down", "stopped", "add_table"}
          /\ \/ group' = 0 /\ k' = 1
             \/ UNCHANGED <<group, k>> /\ pc' # "add_table"
          /\ stopping' = stopping \/ stopping' = FALSE
          /\ failures' = failures \/ failures' = failures + 1
      BY <1>1 DEF NftRejects, Fail, Restart, Kill, Start
    <3>2. /\ group \in Groups /\ k \in Nat \ {0} /\ stopping \in BOOLEAN
          /\ failures \in Nat /\ 0 \in Groups
      BY GroupTypes DEF IInv, TypeOK
    <3>3. stopping' \in BOOLEAN
      BY <3>1, <3>2, Zenon
    <3>4. failures' \in Nat
      BY <3>1, <3>2
    <3>5. group' \in Groups /\ k' \in Nat \ {0} /\ (pc' = "add_table" => group' = 0 /\ k' = 1)
      BY <3>1, <3>2
    <3> QED BY <3>1, <3>3, <3>4, <3>5
  <2>2. TypeOK'
    BY <2>1 DEF rulesetVars, IInv, TypeOK, Building
  <2>5. RuleInv' /\ ElementInv'
    BY <2>1 DEF rulesetVars, IInv, RuleInv, ElementInv, IsAllowRule, IsAcceptRule, IsDenyRule
  <2>3. LoopInv' /\ ChainInv'
    BY <2>1 DEF rulesetVars, IInv, LoopInv, ChainInv, Building, InGroups, Filtering
  <2>4. ProgressInv'
    BY <2>1 DEF ProgressInv, AllowDone, AcceptDone, DenyDone, InGroups
  <2> QED BY <2>2, <2>3, <2>4, <2>5 DEF IInv
<1>2. CASE stop_service
  <2>1. /\ rules' = <<>> /\ rules' \in Seq(Rule) /\ Len(rules') = 0 /\ chain' = "none"
        /\ table' = FALSE /\ sets' = {} /\ elements' = EmptyMap /\ knocked' = EmptyMap
        /\ stopping' = TRUE /\ failures' = failures + 1
        /\ UNCHANGED <<pc, group, k, established, clock>>
    BY <1>2 DEF stop_service, NoRuleset
  <2>2. DOMAIN elements' = {} /\ DOMAIN knocked' = {}
    BY <2>1 DEF EmptyMap
  <2>4. TypeOK'
    <3>1. stopping' \in BOOLEAN /\ table' \in BOOLEAN
      BY <2>1, Zenon
    <3>2. failures' \in Nat /\ sets' \subseteq Groups
      BY <2>1 DEF IInv, TypeOK
    <3> QED BY <2>1, <2>2, <3>1, <3>2 DEF IInv, TypeOK
  <2>5. LoopInv' /\ ElementInv'
    BY <2>1, <2>2 DEF IInv, LoopInv, ElementInv, Building, InGroups
  <2>3. ChainInv' /\ RuleInv' /\ ProgressInv'
    BY <2>1 DEF ChainInv, RuleInv, ProgressInv, Filtering
  <2> QED BY <2>3, <2>4, <2>5 DEF IInv
<1> QED BY <1>1, <1>2

-----------------------------------------------------------------------------
(***************************************************************************)
(* The timed sets, the clients and the clock.                              *)
(***************************************************************************)
LEMMA RulesetKept ==
    ASSUME IInv, UNCHANGED <<daemonVars, table, chain, rules, sets>>
    PROVE  LoopInv' /\ ChainInv' /\ RuleInv' /\ ProgressInv'
BY DEF daemonVars, IInv, LoopInv, ChainInv, RuleInv, ProgressInv, IsAllowRule, IsAcceptRule,
   IsDenyRule, Building, InGroups, Filtering, AllowDone, AcceptDone, DenyDone

LEMMA OpenStep ==
    ASSUME IInv, NEW s \in Sources, NEW g \in Groups, add_to_set(s, g)
    PROVE  IInv'
<1> DEFINE x == <<g, s>>
<1>1. /\ UNCHANGED <<daemonVars, table, chain, rules, sets, established, clock>>
      /\ knocked' = Put(knocked, x, clock)
      /\ \/ elements' = Put(elements, x, clock + open_duration)
         \/ x \in DOMAIN elements /\ UNCHANGED elements
      /\ g \in sets /\ x \in Groups \X Sources /\ x[1] = g
  BY DEF add_to_set
<1>2. /\ clock \in Nat /\ open_duration \in Nat \ {0}
      /\ \A y \in DOMAIN elements : elements[y] \in Nat
      /\ \A y \in DOMAIN knocked : knocked[y] \in Nat
  BY FirewallAssumption DEF IInv, TypeOK
<1> HIDE DEF x
<1>3. /\ DOMAIN knocked' = DOMAIN knocked \cup {x} /\ knocked'[x] = clock
      /\ \A y \in DOMAIN knocked : y # x => knocked'[y] = knocked[y]
  BY <1>1 DEF Put
<1>4. /\ DOMAIN elements' = DOMAIN elements \cup {x}
      /\ elements'[x] = clock + open_duration \/ (x \in DOMAIN elements /\ elements'[x] = elements[x])
      /\ \A y \in DOMAIN elements : y # x => elements'[y] = elements[y]
  <2>1. CASE elements' = Put(elements, x, clock + open_duration)
    BY <2>1 DEF Put
  <2>2. CASE x \in DOMAIN elements /\ UNCHANGED elements
    BY <2>2
  <2> QED BY <1>1, <2>1, <2>2
<1>5. TypeOK'
  BY <1>1, <1>2, <1>3, <1>4 DEF IInv, TypeOK, daemonVars
<1>6. ASSUME NEW y \in DOMAIN elements'
      PROVE  /\ y[1] \in sets /\ y \in DOMAIN knocked' /\ knocked'[y] <= clock
             /\ clock < elements'[y] /\ elements'[y] <= knocked'[y] + open_duration
  <2>1. y \in DOMAIN elements =>
           /\ y[1] \in sets /\ y \in DOMAIN knocked /\ knocked[y] <= clock
           /\ clock < elements[y] /\ elements[y] <= knocked[y] + open_duration
           /\ knocked[y] \in Nat /\ elements[y] \in Nat
    BY <1>2 DEF IInv, ElementInv
  <2>2. CASE y # x
    BY <1>3, <1>4, <2>1, <2>2
  <2>3. CASE y = x
    <3>1. knocked'[y] = clock /\ y \in DOMAIN knocked' /\ y[1] \in sets
      BY <1>1, <1>3, <2>3
    <3>2. CASE elements'[y] = clock + open_duration
      BY <1>2, <3>1, <3>2
    <3>3. CASE y \in DOMAIN elements /\ elements'[y] = elements[y]
      BY <1>2, <2>1, <3>1, <3>3
    <3> QED BY <1>4, <2>3, <3>2, <3>3
  <2> QED BY <2>2, <2>3
<1>7. ElementInv'
  BY <1>1, <1>6 DEF ElementInv
<1> QED BY <1>1, <1>5, <1>7, RulesetKept DEF IInv

LEMMA EnvironmentStep ==
    ASSUME IInv, (\E s \in Sources, p \in Ports : Connect(s, p)) \/ Tick
    PROVE  IInv'
<1>1. CASE \E s \in Sources, p \in Ports : Connect(s, p)
  <2>1. /\ UNCHANGED <<daemonVars, rulesetVars, clock>>
        /\ established' \subseteq Sources \X Ports
    BY <1>1 DEF Connect, IInv, TypeOK
  <2>2. TypeOK' /\ ElementInv'
    BY <2>1 DEF IInv, TypeOK, ElementInv, daemonVars, rulesetVars
  <2> QED BY <2>1, <2>2, RulesetKept DEF IInv, rulesetVars
<1>2. CASE Tick
  <2>1. /\ UNCHANGED <<daemonVars, table, chain, rules, sets, knocked, established>>
        /\ clock \in Nat /\ clock' = clock + 1
        /\ DOMAIN elements' = {y \in DOMAIN elements : elements[y] > clock + 1}
        /\ \A y \in DOMAIN elements' : elements'[y] = elements[y]
    BY <1>2 DEF Tick, IInv, TypeOK
  <2>2. TypeOK'
    BY <2>1 DEF IInv, TypeOK, daemonVars
  <2>3. ElementInv'
    <3>1. ASSUME NEW y \in DOMAIN elements'
          PROVE  /\ y[1] \in sets' /\ y \in DOMAIN knocked' /\ knocked'[y] <= clock'
                 /\ clock' < elements'[y] /\ elements'[y] <= knocked'[y] + open_duration
      <4>1. /\ y \in DOMAIN elements /\ elements'[y] = elements[y] /\ elements[y] > clock + 1
            /\ knocked[y] \in Nat /\ elements[y] \in Nat
            /\ y[1] \in sets /\ y \in DOMAIN knocked /\ knocked[y] <= clock
            /\ elements[y] <= knocked[y] + open_duration
        BY <2>1 DEF IInv, TypeOK, ElementInv
      <4> QED BY <2>1, <4>1
    <3> QED BY <3>1 DEF ElementInv
  <2> QED BY <2>1, <2>2, <2>3, RulesetKept DEF IInv
<1> QED BY <1>1, <1>2

-----------------------------------------------------------------------------
(***************************************************************************)
(* The invariant holds, whatever the ports, the groups, the policy and the *)
(* failures: the script's loop state accounts for exactly the rules that   *)
(* the kernel has (ensure_base_ruleset, setup_port_group).                 *)
(***************************************************************************)
LEMMA InitInvariant == Init => IInv
<1> SUFFICES ASSUME Init
             PROVE  IInv
  OBVIOUS
<1>1. TypeOK
  <2>1. stopping \in BOOLEAN /\ table \in BOOLEAN
    BY Zenon DEF Init
  <2>2. DOMAIN elements = {} /\ DOMAIN knocked = {}
    BY DEF Init, EmptyMap
  <2>3. rules \in Seq(Rule)
    BY DEF Init
  <2> QED BY <2>1, <2>2, <2>3, GroupTypes DEF Init, TypeOK, Building
<1>4. LoopInv
  BY DEF Init, LoopInv, Building, InGroups
<1>2. ChainInv /\ RuleInv /\ ProgressInv
  BY DEF Init, ChainInv, RuleInv, ProgressInv, Filtering
<1>3. ElementInv
  BY DEF Init, ElementInv, EmptyMap
<1> QED BY <1>1, <1>2, <1>3, <1>4 DEF IInv

LEMMA NextInvariant == IInv /\ [Next]_vars => IInv'
<1> SUFFICES ASSUME IInv, [Next]_vars
             PROVE  IInv'
  OBVIOUS
<1>1. CASE ensure_base_ruleset
  BY <1>1, TableStep, HostStep, AddSetStep, MembersStep
     DEF ensure_base_ruleset
<1>2. CASE NftRejects \/ Fail \/ Restart \/ stop_service \/ Kill \/ Start
  BY <1>2, LifecycleStep
<1>3. CASE \E s \in Sources : \E g \in Groups : open_port_for(s, g)
  BY <1>3, OpenStep DEF open_port_for
<1>4. CASE (\E s \in Sources, p \in Ports : Connect(s, p)) \/ Tick
  BY <1>4, EnvironmentStep
<1>5. CASE UNCHANGED vars
  BY <1>5, RulesetKept DEF vars, daemonVars, rulesetVars, IInv, TypeOK, ElementInv
<1> QED BY <1>1, <1>2, <1>3, <1>4, <1>5 DEF Next

THEOREM Invariance == Spec => []IInv
<1>1. Init => IInv
  BY InitInvariant
<1>2. IInv /\ [Next]_vars => IInv'
  BY NextInvariant
<1> QED BY <1>1, <1>2, PTL DEF Spec

(***************************************************************************)
(* Every variable of the model has its type.                               *)
(***************************************************************************)
THEOREM TypeCorrectness == Spec => []TypeOK
<1>1. IInv => TypeOK
  BY DEF IInv
<1> QED BY <1>1, Invariance, PTL

-----------------------------------------------------------------------------
(***************************************************************************)
(* What the rules of the chain can be, and what they do to a new packet.   *)
(***************************************************************************)
LEMMA RuleShapes ==
    ASSUME IInv, NEW i \in 1..Len(rules)
    PROVE  \/ i = 1 /\ rules[i] = EstablishedRule
           \/ i = 2 /\ rules[i] = LoopbackRule
           \/ IsAllowRule(rules[i])
           \/ IsAcceptRule(rules[i])
           \/ IsDenyRule(rules[i])
<1>1. Len(rules) \in Nat
  BY DEF IInv, TypeOK
<1>2. i = 1 \/ i = 2 \/ i \in 3..Len(rules)
  BY <1>1
<1> QED BY <1>1, <1>2 DEF IInv, RuleInv

LEMMA Verdicts ==
    /\ EstablishedRule.verdict = "accept" /\ LoopbackRule.verdict = "accept"
    /\ \A p : AllowRule(p).verdict = "accept" /\ DenyRule(p).verdict = "drop"
    /\ \A g, p : AcceptRule(g, p).verdict = "accept"
BY DEF EstablishedRule, LoopbackRule, AllowRule, DenyRule, AcceptRule

LEMMA MatchingPorts ==
    ASSUME NEW s, NEW p, NEW d
    PROVE  /\ Matches(DenyRule(d), NewPacket(s, p)) <=> d = p
           /\ Matches(AllowRule(d), NewPacket(s, p)) <=> d = p
BY DEF DenyRule, AllowRule, Matches, NewPacket

LEMMA OnlyDenyRulesDrop ==
    ASSUME IInv, NEW i \in 1..Len(rules), rules[i].verdict # "accept"
    PROVE  ~default_deny /\ \E p \in Gated : rules[i] = DenyRule(p)
<1>1. ~IsAllowRule(rules[i])
  BY Verdicts DEF IsAllowRule
<1>2. ~IsAcceptRule(rules[i])
  BY Verdicts DEF IsAcceptRule
<1>3. IsDenyRule(rules[i])
  BY <1>1, <1>2, RuleShapes, Verdicts
<1> QED BY <1>3 DEF IsDenyRule

LEMMA NewPacketMatches ==
    ASSUME IInv, NEW s \in Sources, NEW p \in Ports, NEW i \in 1..Len(rules),
           Matches(rules[i], NewPacket(s, p)), rules[i].verdict = "accept"
    PROVE  \/ default_deny /\ p \in PortSet(always_allow_ports)
           \/ \E g \in Groups : /\ p \in PortSet(PortsOf(g))
                               /\ <<g, s>> \in DOMAIN elements
<1>1. rules[i] # EstablishedRule /\ rules[i] # LoopbackRule
  BY DEF EstablishedRule, LoopbackRule, Matches, NewPacket
<1>2. CASE IsAllowRule(rules[i])
  BY <1>2 DEF IsAllowRule, AllowRule, Matches, NewPacket
<1>3. CASE IsAcceptRule(rules[i])
  BY <1>3 DEF IsAcceptRule, AcceptRule, Matches, NewPacket
<1>4. ~IsDenyRule(rules[i])
  BY Verdicts DEF IsDenyRule
<1> QED BY <1>1, <1>2, <1>3, <1>4, RuleShapes

-----------------------------------------------------------------------------
\* The first accepting rule that a new packet meets lets it in because of a
\* member of a set; without one, the rule that guards the port drops it.
LEMMA InvariantClosesGate == IInv => GateClosed
<1> SUFFICES ASSUME IInv, NEW s \in Sources, NEW p \in Gated,
                    Guarded(p), Accepted(NewPacket(s, p))
             PROVE  OpenedBy(s, p) \/ (default_deny /\ p \in PortSet(always_allow_ports))
  BY DEF GateClosed
<1>1. PICK h \in Groups : p \in PortSet(PortsOf(h))
  BY DEF Gated
<1>2. PICK q \in 1..Len(PortsOf(h)) : PortsOf(h)[q] = p
  BY <1>1 DEF PortSet
<1>3. p \in Ports
  BY <1>2, GroupTypes
<1>4. ASSUME NEW i \in 1..Len(rules), Matches(rules[i], NewPacket(s, p)),
             rules[i].verdict = "accept"
      PROVE  OpenedBy(s, p) \/ (default_deny /\ p \in PortSet(always_allow_ports))
  <2>1. ASSUME NEW g \in Groups, p \in PortSet(PortsOf(g)), <<g, s>> \in DOMAIN elements
        PROVE  OpenedBy(s, p)
    <3>1. /\ <<g, s>> \in DOMAIN knocked /\ clock < elements[<<g, s>>]
          /\ elements[<<g, s>>] <= knocked[<<g, s>>] + open_duration
          /\ clock \in Nat /\ elements[<<g, s>>] \in Nat
          /\ knocked[<<g, s>>] \in Nat /\ open_duration \in Nat
      BY <2>1, FirewallAssumption DEF IInv, ElementInv, TypeOK
    <3>2. clock < knocked[<<g, s>>] + open_duration
      BY <3>1
    <3> QED BY <2>1, <3>1, <3>2 DEF OpenedBy
  <2> QED BY <1>3, <1>4, <2>1, NewPacketMatches
<1>5. ASSUME chain = "accept",
             \A i \in 1..Len(rules) :
                Matches(rules[i], NewPacket(s, p)) => rules[i].verdict = "accept"
      PROVE  FALSE
  <2>1. ~default_deny /\ Filtering
    BY <1>5 DEF IInv, ChainInv, Filtering, Guarded
  <2>2. \E i \in 1..Len(rules) : rules[i] = DenyRule(p)
    <3>1. CASE pc = "running"
      BY <1>2, <2>1, <3>1 DEF IInv, ProgressInv, DenyDone
    <3>2. CASE pc # "running"
      BY <2>1, <3>2 DEF Guarded
    <3> QED BY <3>1, <3>2
  <2> QED BY <1>5, <2>2, Verdicts, MatchingPorts
<1>6. chain # "none"
  BY DEF Guarded
<1> QED BY <1>4, <1>5, <1>6 DEF Accepted

(***************************************************************************)
(* A new connection to a guarded port gets through only after a knock of   *)
(* its source on a channel that has the port, under open_duration ago;     *)
(* for every configuration, failure, restart and stop (ensure_base_ruleset,*)
(* setup_port_group, add_to_set).                                          *)
(***************************************************************************)
THEOREM GateStaysClosed == Spec => []GateClosed
BY InvariantClosesGate, Invariance, PTL

(***************************************************************************)
(* An established connection keeps flowing, through rebuilds as well when  *)
(* the policy is to accept (the first rule of ensure_base_ruleset).        *)
(***************************************************************************)
THEOREM EstablishedFlows == Spec => []ConnectionsFlow
<1>1. IInv => ConnectionsFlow
  <2> SUFFICES ASSUME IInv, ~default_deny \/ pc = "running", NEW x \in established
               PROVE  Accepted(EstablishedPacket(x[1], x[2]))
    BY DEF ConnectionsFlow
  <2>1. Len(rules) \in Nat
    BY DEF IInv, TypeOK
  <2>2. CASE Filtering /\ Len(rules) >= 1
    <3>1. 1 \in 1..Len(rules) /\ rules[1] = EstablishedRule
      BY <2>1, <2>2 DEF IInv, RuleInv
    <3>2. \A j \in 1..(1 - 1) : FALSE
      OBVIOUS
    <3> QED BY <3>1, <3>2 DEF Accepted, Matches, EstablishedRule, EstablishedPacket
  <2>3. CASE Filtering /\ Len(rules) = 0
    <3>1. chain = "accept"
      BY <2>3 DEF IInv, ChainInv
    <3>2. \A i \in 1..Len(rules) : FALSE
      BY <2>3
    <3> QED BY <3>1, <3>2 DEF Accepted
  <2>4. CASE ~Filtering
    BY <2>4 DEF Accepted, Filtering
  <2>5. Len(rules) >= 1 \/ Len(rules) = 0
    BY <2>1
  <2> QED BY <2>2, <2>3, <2>4, <2>5
<1> QED BY <1>1, Invariance, PTL

(***************************************************************************)
(* What the gate is not about stays reachable: local connections, ports    *)
(* that are not gated, and the always-allowed ports under default_deny.    *)
(***************************************************************************)
THEOREM OthersStayUntouched == Spec => []OthersUntouched
<1>1. ASSUME IInv, ~default_deny, NEW s \in Sources, NEW p \in Ports, p \notin Gated
      PROVE  Accepted(NewPacket(s, p))
  <2>1. CASE ~Filtering
    BY <2>1 DEF Accepted, Filtering
  <2>2. CASE Filtering
    <3>1. chain = "accept"
      BY <1>1, <2>2 DEF IInv, ChainInv
    <3>2. ASSUME NEW i \in 1..Len(rules), Matches(rules[i], NewPacket(s, p)),
                 rules[i].verdict # "accept"
          PROVE  FALSE
      <4>1. PICK d \in Gated : rules[i] = DenyRule(d)
        BY <1>1, <3>2, OnlyDenyRulesDrop
      <4> QED BY <1>1, <3>2, <4>1, MatchingPorts
    <3> QED BY <3>1, <3>2 DEF Accepted
  <2> QED BY <2>1, <2>2
<1>2. ASSUME IInv, ~default_deny \/ pc = "running", NEW s \in Sources, NEW p \in Ports
      PROVE  Accepted(LocalPacket(s, p))
  <2>1. Len(rules) \in Nat
    BY <1>2 DEF IInv, TypeOK
  <2>2. CASE Filtering /\ Len(rules) >= 2
    <3>1. /\ 2 \in 1..Len(rules) /\ rules[2] = LoopbackRule
          /\ rules[1] = EstablishedRule
      BY <1>2, <2>1, <2>2 DEF IInv, RuleInv
    <3>2. \A j \in 1..(2 - 1) : rules[j].verdict = "accept"
      BY <3>1 DEF EstablishedRule
    <3> QED BY <3>1, <3>2 DEF Accepted, Matches, LoopbackRule, LocalPacket
  <2>3. CASE Filtering /\ Len(rules) <= 1
    <3>1. chain = "accept"
      BY <1>2, <2>1, <2>3 DEF IInv, ChainInv
    <3>2. \A i \in 1..Len(rules) : rules[i].verdict = "accept"
      BY <1>2, <2>1, <2>3 DEF IInv, RuleInv, EstablishedRule
    <3> QED BY <3>1, <3>2 DEF Accepted
  <2>4. CASE ~Filtering
    BY <2>4 DEF Accepted, Filtering
  <2> QED BY <2>1, <2>2, <2>3, <2>4
<1>3. ASSUME IInv, pc = "running", default_deny, NEW s \in Sources, NEW p \in Ports,
             p \in PortSet(always_allow_ports)
      PROVE  Accepted(NewPacket(s, p))
  <2>1. CASE ~Filtering
    BY <2>1 DEF Accepted, Filtering
  <2>2. CASE Filtering
    <3>1. PICK q \in 1..Len(always_allow_ports) : always_allow_ports[q] = p
      BY <1>3 DEF PortSet
    <3>2. PICK i \in 1..Len(rules) : rules[i] = AllowRule(p)
      BY <1>3, <2>2, <3>1 DEF IInv, ProgressInv, AllowDone
    <3>3. \A j \in 1..(i - 1) : rules[j].verdict = "accept"
      BY <1>3, <3>2, OnlyDenyRulesDrop DEF IInv, TypeOK
    <3> QED BY <3>2, <3>3 DEF Accepted, Matches, AllowRule, NewPacket
  <2> QED BY <2>1, <2>2
<1>4. IInv => OthersUntouched
  BY <1>1, <1>2, <1>3 DEF OthersUntouched
<1> QED BY <1>4, Invariance, PTL

-----------------------------------------------------------------------------
(***************************************************************************)
(* The order of accept and deny rules: only a step that appends a deny     *)
(* rule can disturb it, and it appends behind the accept rule of the same  *)
(* port and group.                                                         *)
(***************************************************************************)
LEMMA AppendKeepsOrder ==
    ASSUME IInv, AdmitBeforeDeny, NEW rule \in Rule, AddRule(rule),
           \A p \in Gated : rule = DenyRule(p) =>
              \E j \in 1..Len(rules) : \E g \in Groups :
                 p \in PortSet(PortsOf(g)) /\ rules[j] = AcceptRule(g, p)
    PROVE  AdmitBeforeDeny'
<1>1. /\ Len(rules) \in Nat /\ Len(rules') = Len(rules) + 1
      /\ \A i \in 1..Len(rules) : rules'[i] = rules[i]
      /\ rules'[Len(rules) + 1] = rule
  BY AddRuleAppends DEF IInv, TypeOK
<1>2. ASSUME NEW i \in 1..Len(rules), NEW p \in Gated, rules[i] = DenyRule(p)
      PROVE  \E j \in 1..(i - 1) : \E g \in Groups :
                /\ p \in PortSet(PortsOf(g))
                /\ rules'[j] = AcceptRule(g, p)
                /\ \A m \in 1..(j - 1) : rules'[m] # DenyRule(p)
  <2>1. PICK j \in 1..(i - 1) : \E g \in Groups :
                /\ p \in PortSet(PortsOf(g))
                /\ rules[j] = AcceptRule(g, p)
                /\ \A m \in 1..(j - 1) : rules[m] # DenyRule(p)
    BY <1>2 DEF AdmitBeforeDeny
  <2>2. j \in 1..Len(rules) /\ \A m \in 1..(j - 1) : m \in 1..Len(rules)
    BY <1>1
  <2> QED BY <1>1, <2>1, <2>2
<1>3. ASSUME NEW p \in Gated, rule = DenyRule(p)
      PROVE  \E j \in 1..Len(rules) : \E g \in Groups :
                /\ p \in PortSet(PortsOf(g))
                /\ rules'[j] = AcceptRule(g, p)
                /\ \A m \in 1..(j - 1) : rules'[m] # DenyRule(p)
  <2>1. CASE \E i \in 1..Len(rules) : rules[i] = DenyRule(p)
    <3>1. PICK i \in 1..Len(rules) : rules[i] = DenyRule(p)
      BY <2>1
    <3>2. \A j \in 1..(i - 1) : j \in 1..Len(rules)
      BY <1>1
    <3> QED BY <1>2, <3>1, <3>2
  <2>2. CASE \A i \in 1..Len(rules) : rules[i] # DenyRule(p)
    <3>1. PICK j \in 1..Len(rules) : \E g \in Groups :
             p \in PortSet(PortsOf(g)) /\ rules[j] = AcceptRule(g, p)
      BY <1>3
    <3>2. \A m \in 1..(j - 1) : m \in 1..Len(rules)
      BY <1>1
    <3> QED BY <1>1, <2>2, <3>1, <3>2
  <2> QED BY <2>1, <2>2
<1>4. ASSUME NEW i \in 1..Len(rules'), NEW p \in Gated, rules'[i] = DenyRule(p)
      PROVE  \E j \in 1..(i - 1) : \E g \in Groups :
                /\ p \in PortSet(PortsOf(g))
                /\ rules'[j] = AcceptRule(g, p)
                /\ \A m \in 1..(j - 1) : rules'[m] # DenyRule(p)
  <2>1. CASE i \in 1..Len(rules)
    BY <1>1, <1>2, <1>4, <2>1
  <2>2. CASE i = Len(rules) + 1
    <3>1. i - 1 = Len(rules) /\ rule = DenyRule(p)
      BY <1>1, <1>4, <2>2
    <3> QED BY <1>3, <3>1
  <2> QED BY <1>1, <2>1, <2>2
<1> QED BY <1>4 DEF AdmitBeforeDeny

LEMMA KeptRulesKeepOrder ==
    ASSUME AdmitBeforeDeny, UNCHANGED rules \/ rules' = <<>>
    PROVE  AdmitBeforeDeny'
<1>1. CASE UNCHANGED rules
  BY <1>1 DEF AdmitBeforeDeny
<1>2. CASE rules' = <<>>
  <2>1. \A i \in 1..Len(rules') : FALSE
    BY <1>2
  <2> QED BY <2>1 DEF AdmitBeforeDeny
<1> QED BY <1>1, <1>2

LEMMA OrderStep == IInv /\ AdmitBeforeDeny /\ [Next]_vars => AdmitBeforeDeny'
<1> SUFFICES ASSUME IInv, AdmitBeforeDeny, [Next]_vars
             PROVE  AdmitBeforeDeny'
  OBVIOUS
<1>1. ASSUME NEW rule \in Rule, AddRule(rule), rule.verdict = "accept"
      PROVE  AdmitBeforeDeny'
  BY <1>1, AppendKeepsOrder, Verdicts
<1>3. CASE AcceptHost
  <2>1. k \in 1..Len(HostRules)
    BY <1>3, HostRuleShapes DEF AcceptHost, IInv, TypeOK, LoopInv
  <2>2. HostRules[k].verdict = "accept"
    BY <2>1, HostRuleShapes, Verdicts DEF IsAllowRule
  <2> QED BY <1>1, <1>3, <2>1, <2>2, HostRuleShapes DEF AcceptHost
<1>4. CASE AcceptMembers \/ DropOthers
  <2> DEFINE p == PortsOf(group)[k]
  <2>1. /\ group \in Groups /\ group \in Nat /\ k \in 1..Len(PortsOf(group))
        /\ p \in Nat /\ p \in Gated /\ p \in PortSet(PortsOf(group))
    BY <1>4, GroupTypes DEF AcceptMembers, DropOthers, IInv, TypeOK, LoopInv
  <2>2. CASE AcceptMembers
    BY <1>1, <2>1, <2>2, Verdicts, RuleTypes DEF AcceptMembers
  <2>3. CASE DropOthers
    <3>1. AddRule(DenyRule(p)) /\ pc = "drop_rule" /\ Filtering
      BY <2>3 DEF DropOthers, AddRule, Filtering
    <3>2. \E j \in 1..Len(rules) : rules[j] = AcceptRule(group, p)
      BY <2>1, <3>1 DEF IInv, ProgressInv, AcceptDone
    <3>3. \A d : DenyRule(p) = DenyRule(d) => d = p
      BY DEF DenyRule
    <3> HIDE DEF p
    <3>4. DenyRule(p) \in Rule
      BY <2>1, RuleTypes
    <3> QED BY <2>1, <3>1, <3>2, <3>3, <3>4, AppendKeepsOrder
  <2> QED BY <1>4, <2>2, <2>3
<1>5. CASE AddTable \/ DeleteTable \/ RecreateTable \/ AddChain \/ AddSet
  BY <1>5, KeptRulesKeepOrder DEF AddTable, DeleteTable, RecreateTable, AddChain, AddSet,
     NoRuleset
<1>6. CASE NftRejects \/ Fail \/ Restart \/ stop_service \/ Kill \/ Start
  BY <1>6, KeptRulesKeepOrder DEF NftRejects, Fail, Restart, stop_service, Kill, Start,
     NoRuleset, rulesetVars
<1>7. CASE \E s \in Sources : \E g \in Groups : open_port_for(s, g)
  BY <1>7, KeptRulesKeepOrder DEF open_port_for, add_to_set
<1>8. CASE (\E s \in Sources, p \in Ports : Connect(s, p)) \/ Tick \/ UNCHANGED vars
  BY <1>8, KeptRulesKeepOrder DEF Connect, Tick, vars, rulesetVars
<1> QED BY <1>3, <1>4, <1>5, <1>6, <1>7, <1>8 DEF Next, ensure_base_ruleset

(***************************************************************************)
(* No partial build closes a port before it admits members of its group    *)
(* (the order of the two rules in setup_port_group).                       *)
(***************************************************************************)
THEOREM OrderOfRules == Spec => []AdmitBeforeDeny
<1>1. Init => AdmitBeforeDeny
  <2> SUFFICES ASSUME Init
               PROVE  AdmitBeforeDeny
    OBVIOUS
  <2>1. \A i \in 1..Len(rules) : FALSE
    BY DEF Init
  <2> QED BY <2>1 DEF AdmitBeforeDeny
<1>2. IInv /\ AdmitBeforeDeny /\ [Next]_vars => AdmitBeforeDeny'
  BY OrderStep
<1> QED BY <1>1, <1>2, Invariance, PTL DEF Spec

(***************************************************************************)
(* A source in a timed set reaches every port of the set's group, with the *)
(* deny policy always, and with the accept policy when no port belongs to  *)
(* two groups: the condition the example configuration breaks.             *)
(***************************************************************************)
THEOREM KnockOpens == default_deny \/ GroupsDisjoint => (Spec => []KnockAdmits)
<1> SUFFICES ASSUME default_deny \/ GroupsDisjoint
             PROVE  Spec => []KnockAdmits
  OBVIOUS
<1>1. IInv /\ AdmitBeforeDeny => KnockAdmits
  <2> SUFFICES ASSUME IInv, AdmitBeforeDeny, pc = "running", NEW x \in DOMAIN elements,
                      NEW p \in PortSet(PortsOf(x[1]))
               PROVE  Accepted(NewPacket(x[2], p))
    BY DEF KnockAdmits
  <2>1. PICK g \in Groups, s \in Sources : x = <<g, s>>
    BY DEF IInv, TypeOK
  <2>2. x[1] = g /\ x[2] = s
    BY <2>1
  <2>3. PICK q \in 1..Len(PortsOf(g)) : PortsOf(g)[q] = p
    BY <2>2 DEF PortSet
  <2>4. p \in Gated /\ p \in PortSet(PortsOf(g))
    BY <2>2, <2>3, GroupTypes
  <2>5. CASE ~Filtering
    BY <2>5 DEF Accepted, Filtering
  <2>6. CASE Filtering
    <3>1. PICK i \in 1..Len(rules) : rules[i] = AcceptRule(g, p)
      BY <2>3, <2>6 DEF IInv, ProgressInv, AcceptDone
    <3>2. \E j \in 1..Len(rules) :
             /\ rules[j] = AcceptRule(g, p)
             /\ \A m \in 1..(j - 1) : rules[m] # DenyRule(p)
      <4>1. CASE default_deny
        <5>1. \A m \in 1..(i - 1) : m \in 1..Len(rules)
          BY DEF IInv, TypeOK
        <5>2. \A m \in 1..(i - 1) : rules[m] # DenyRule(p)
          BY <4>1, <5>1, OnlyDenyRulesDrop, Verdicts
        <5> QED BY <3>1, <5>2
      <4>2. CASE GroupsDisjoint /\ \E m \in 1..(i - 1) : rules[m] = DenyRule(p)
        <5>1. PICK m \in 1..Len(rules) : rules[m] = DenyRule(p)
          BY <4>2 DEF IInv, TypeOK
        <5>2. PICK j \in 1..(m - 1) : \E h \in Groups :
                 /\ p \in PortSet(PortsOf(h)) /\ rules[j] = AcceptRule(h, p)
                 /\ \A n \in 1..(j - 1) : rules[n] # DenyRule(p)
          BY <2>4, <5>1 DEF AdmitBeforeDeny
        <5>3. \A h \in Groups : p \in PortSet(PortsOf(h)) => h = g
          BY <2>4, <4>2 DEF GroupsDisjoint
        <5>4. j \in 1..Len(rules)
          BY DEF IInv, TypeOK
        <5> QED BY <5>2, <5>3, <5>4
      <4>3. CASE \A m \in 1..(i - 1) : rules[m] # DenyRule(p)
        BY <3>1, <4>3
      <4> QED BY <4>1, <4>2, <4>3
    <3>3. PICK j \in 1..Len(rules) :
             /\ rules[j] = AcceptRule(g, p)
             /\ \A m \in 1..(j - 1) : rules[m] # DenyRule(p)
      BY <3>2
    <3>4. Matches(rules[j], NewPacket(s, p)) /\ rules[j].verdict = "accept"
      BY <2>1, <3>3 DEF AcceptRule, Matches, NewPacket
    <3>5. ASSUME NEW m \in 1..(j - 1), Matches(rules[m], NewPacket(s, p))
          PROVE  rules[m].verdict = "accept"
      <4>1. m \in 1..Len(rules)
        BY DEF IInv, TypeOK
      <4> SUFFICES ASSUME rules[m].verdict # "accept"
                   PROVE  FALSE
        OBVIOUS
      <4>2. PICK d \in Gated : rules[m] = DenyRule(d)
        BY <4>1, OnlyDenyRulesDrop
      <4> QED BY <3>3, <3>5, <4>2, MatchingPorts
    <3> QED BY <2>2, <3>4, <3>5 DEF Accepted
  <2> QED BY <2>5, <2>6
<1> QED BY <1>1, Invariance, OrderOfRules, PTL

-----------------------------------------------------------------------------
(***************************************************************************)
(* No rule is added twice.  While the script runs, each rule stands for a  *)
(* turn of a loop that is over, so the next turn adds a rule that is not   *)
(* there yet.                                                              *)
(***************************************************************************)
LEMMA Kinds ==
    /\ EstablishedRule.kind = "established" /\ LoopbackRule.kind = "loopback"
    /\ \A p : /\ AllowRule(p).kind = "port" /\ AllowRule(p).port = p
              /\ DenyRule(p).kind = "port" /\ DenyRule(p).port = p
    /\ \A g, p : /\ AcceptRule(g, p).kind = "member"
                 /\ AcceptRule(g, p).group = g /\ AcceptRule(g, p).port = p
BY DEF EstablishedRule, LoopbackRule, AllowRule, DenyRule, AcceptRule

\* A loop only moves forward.
DoneStays ==
    /\ \A q \in 1..Len(always_allow_ports) : AllowDone(q) => AllowDone(q)'
    /\ \A g \in Groups : \A q \in 1..Len(PortsOf(g)) :
          /\ AcceptDone(g, q) => AcceptDone(g, q)'
          /\ DenyDone(g, q) => DenyDone(g, q)'

LEMMA NextPortKeepsDone ==
    ASSUME IInv, pc \in {"accept_rule", "drop_rule"}, NextPort
    PROVE  /\ DoneStays
           /\ \A h \in Groups : \A q \in 1..Len(PortsOf(h)) :
                 h = group /\ q = k => AcceptDone(h, q)' /\ DenyDone(h, q)'
<1>1. /\ group \in Nat /\ k \in Nat \ {0}
      /\ \A h \in Groups : h \in Nat /\ \A q \in 1..Len(PortsOf(h)) : q \in Nat
  BY GroupTypes DEF IInv, TypeOK
<1>2. CASE k < Len(PortsOf(group)) /\ pc' = "accept_rule" /\ k' = k + 1 /\ UNCHANGED group
  BY <1>1, <1>2 DEF DoneStays, AllowDone, AcceptDone, DenyDone, InGroups
<1>3. CASE /\ k = Len(PortsOf(group)) /\ k' = 1
           /\ \E h \in Groups : IsNextGroup(h) /\ group' = h /\ pc' = "add_set"
  <2>1. group' \in Nat /\ group < group' /\ pc' = "add_set"
    BY <1>1, <1>3 DEF IsNextGroup
  <2> QED BY <1>1, <2>1 DEF DoneStays, AllowDone, AcceptDone, DenyDone, InGroups
<1>4. CASE pc' = "running"
  BY <1>4 DEF DoneStays, AllowDone, AcceptDone, DenyDone
<1> QED BY <1>2, <1>3, <1>4 DEF NextPort

LEMMA IsDoneStays ==
    ASSUME DoneStays, NEW r, IsDone(r)
    PROVE  IsDone(r)'
BY DEF DoneStays, IsDone

LEMMA AddRuleKeepsDone ==
    ASSUME IInv, DoneInv, NEW rule \in Rule, AddRule(rule), pc = "host_rules" \/ InGroups,
           DoneStays, Len(rules) >= 2 => IsDone(rule)'
    PROVE  DoneInv'
<1>1. /\ Len(rules) \in Nat /\ Len(rules') = Len(rules) + 1
      /\ \A i \in 1..Len(rules) : rules'[i] = rules[i]
      /\ rules'[Len(rules) + 1] = rule
      /\ Filtering
  BY AddRuleAppends DEF IInv, TypeOK, Filtering
<1>2. ASSUME NEW i \in 3..Len(rules')
      PROVE  IsDone(rules[i])'
  <2>1. PICK r : r = rules'[i]
    OBVIOUS
  <2>2. IsDone(r)'
    <3>1. CASE i = Len(rules) + 1
      <4>1. Len(rules) >= 2 /\ r = rule
        BY <1>1, <2>1, <3>1
      <4> QED BY <4>1
    <3>2. CASE i \in 3..Len(rules)
      <4>1. IsDone(rules[i]) /\ r = rules[i]
        BY <1>1, <2>1, <3>2 DEF DoneInv
      <4> QED BY <4>1, IsDoneStays
    <3> QED BY <1>1, <3>1, <3>2
  <2> QED BY <2>1, <2>2 DEF IsDone
<1> QED BY <1>2 DEF DoneInv

LEMMA AddNewRule ==
    ASSUME IInv, NoRuleTwice, NEW rule \in Rule, AddRule(rule),
           \A i \in 1..Len(rules) : rules[i] # rule
    PROVE  NoRuleTwice'
<1>1. /\ Len(rules) \in Nat /\ Len(rules') = Len(rules) + 1
      /\ \A i \in 1..Len(rules) : rules'[i] = rules[i]
      /\ rules'[Len(rules) + 1] = rule
  BY AddRuleAppends DEF IInv, TypeOK
<1>2. \A i \in 1..Len(rules') : i \in 1..Len(rules) \/ i = Len(rules) + 1
  BY <1>1
<1> QED BY <1>1, <1>2 DEF NoRuleTwice

\* A rule for a knocker or against a stranger is neither of the first two.
LEMMA GatingRuleIsNew ==
    ASSUME IInv, DoneInv, InGroups, Filtering, NEW rule,
           rule.kind \in {"port", "member"}, ~IsDone(rule)
    PROVE  \A i \in 1..Len(rules) : rules[i] # rule
<1> SUFFICES ASSUME NEW i \in 1..Len(rules)
             PROVE  rules[i] # rule
  OBVIOUS
<1>1. Len(rules) \in Nat /\ (i = 1 \/ i = 2 \/ i \in 3..Len(rules))
  BY DEF IInv, TypeOK
<1>2. CASE i = 1 \/ i = 2
  <2>1. rules[i] = EstablishedRule \/ rules[i] = LoopbackRule
    BY <1>1, <1>2 DEF IInv, RuleInv
  <2> QED BY <2>1, Kinds
<1>3. CASE i \in 3..Len(rules)
  BY <1>3 DEF DoneInv
<1> QED BY <1>1, <1>2, <1>3

LEMMA HostStepOnce ==
    ASSUME IInv, DoneInv, NoRuleTwice, AcceptHost
    PROVE  DoneInv' /\ (PortsListedOnce => NoRuleTwice')
<1> PICK rule, n : rule = HostRules[k] /\ n = k
  OBVIOUS
<1>1. /\ pc = "host_rules" /\ k \in Nat \ {0} /\ k <= Len(HostRules) /\ AddRule(rule)
      /\ n \in Int /\ Len(HostRules) \in Nat
      /\ IF k < Len(HostRules)
         THEN pc' = "host_rules" /\ k' = k + 1
         ELSE pc' = "add_set" /\ k' = 1
  BY HostRuleShapes DEF AcceptHost, IInv, TypeOK, LoopInv
<1>2. k \in 1..Len(HostRules) /\ rule \in Rule
  BY <1>1, HostRuleShapes
<1>3. Len(rules) = k - 1 /\ Filtering
  BY <1>1 DEF IInv, ChainInv, Filtering, AddRule
<1>4. DoneStays
  BY <1>1, AlwaysTypes DEF DoneStays, AllowDone, AcceptDone, DenyDone, InGroups
<1>5. k >= 3 => /\ default_deny /\ k - 2 \in 1..Len(always_allow_ports)
                /\ rule = AllowRule(always_allow_ports[k - 2])
                /\ AllowDone(n - 2)'
  <2>1. k >= 3 => IsAllowRule(rule)
    BY <1>1, HostRuleShapes
  <2>2. k >= 3 => default_deny
    BY <2>1 DEF IsAllowRule
  <2>3. k >= 3 => k - 2 \in 1..Len(always_allow_ports) /\ (k - 2) + 2 = k
    BY <1>1, <2>2, AlwaysTypes, HostRuleShapes
  <2>4. k >= 3 => rule = AllowRule(always_allow_ports[k - 2])
    BY <2>2, <2>3, HostRuleShapes
  <2>5. k >= 3 => AllowDone(n - 2)'
    BY <1>1, <2>3 DEF AllowDone, InGroups
  <2> QED BY <2>2, <2>3, <2>4, <2>5
<1>6. DoneInv'
  <2>1. Len(rules) >= 2 => k >= 3
    BY <1>1, <1>3
  <2>2. Len(rules) >= 2 => IsDone(rule)'
    BY <1>5, <2>1 DEF IsDone
  <2> QED BY <1>1, <1>2, <1>4, <2>2, AddRuleKeepsDone
<1>7. ASSUME PortsListedOnce, NEW i \in 1..Len(rules)
      PROVE  rules[i] # rule
  <2>1. i \in Nat /\ i < k
    BY <1>1, <1>3
  <2>2. CASE k <= 2
    <3>1. i = 1 /\ k = 2 /\ rule = LoopbackRule
      BY <1>1, <2>1, <2>2, HostRuleShapes
    <3>2. rules[1] = EstablishedRule
      BY <1>3, <3>1 DEF IInv, RuleInv
    <3> QED BY <3>1, <3>2, Kinds
  <2>3. CASE k >= 3 /\ (i = 1 \/ i = 2)
    <3>1. rules[i] = EstablishedRule \/ rules[i] = LoopbackRule
      BY <1>1, <1>3, <2>3 DEF IInv, RuleInv
    <3> QED BY <1>5, <2>3, <3>1, Kinds
  <2>4. CASE k >= 3 /\ i \in 3..Len(rules) /\ rules[i] = rule
    <3>1. IsDone(rule)
      BY <1>1, <1>3, <2>4 DEF DoneInv
    <3>2. PICK q \in 1..Len(always_allow_ports) :
             AllowDone(q) /\ rule = AllowRule(always_allow_ports[q])
      BY <1>1, <3>1 DEF IsDone, AcceptDone, DenyDone, InGroups
    <3>3. q + 2 < k
      BY <1>1, <3>2 DEF AllowDone, InGroups
    <3>4. always_allow_ports[q] = always_allow_ports[k - 2]
      BY <1>5, <2>4, <3>2, Kinds
    <3>5. q = k - 2
      BY <1>5, <1>7, <2>4, <3>4 DEF PortsListedOnce
    <3> QED BY <1>1, <3>3, <3>5
  <2> QED BY <1>1, <1>3, <2>1, <2>2, <2>3, <2>4
<1>8. PortsListedOnce => NoRuleTwice'
  BY <1>1, <1>2, <1>7, AddNewRule
<1> QED BY <1>6, <1>8

LEMMA MembersStepOnce ==
    ASSUME IInv, DoneInv, NoRuleTwice, AcceptMembers \/ DropOthers
    PROVE  DoneInv' /\ (PortsListedOnce => NoRuleTwice')
<1> PICK g, n, p : g = group /\ n = k /\ p = PortsOf(g)[n]
  OBVIOUS
<1>1. /\ g \in Groups /\ g \in Nat /\ n \in 1..Len(PortsOf(g)) /\ n \in Nat
      /\ p \in Nat /\ p \in PortSet(PortsOf(g)) /\ InGroups
      /\ pc \in {"accept_rule", "drop_rule"}
      /\ \A q \in 1..Len(always_allow_ports) : AllowDone(q)
  BY GroupTypes DEF AcceptMembers, DropOthers, IInv, TypeOK, LoopInv, InGroups, AllowDone
<1>2. AcceptRule(g, p) \in Rule /\ DenyRule(p) \in Rule
  BY <1>1, RuleTypes
<1>3. ASSUME PortsListedOnce, NEW q \in 1..Len(PortsOf(g)), PortsOf(g)[q] = p
      PROVE  q = n
  BY <1>1, <1>3 DEF PortsListedOnce
<1>4. CASE AcceptMembers
  <2>1. /\ pc = "accept_rule" /\ AddRule(AcceptRule(g, p)) /\ Filtering
        /\ IF default_deny THEN NextPort ELSE Goto("drop_rule")
    BY <1>4 DEF AcceptMembers, AddRule, Filtering
  <2>2. DoneStays /\ AcceptDone(g, n)'
    <3>1. CASE default_deny
      BY <1>1, <2>1, <3>1, NextPortKeepsDone
    <3>2. CASE ~default_deny
      <4>1. pc' = "drop_rule" /\ UNCHANGED <<group, k>>
        BY <2>1, <3>2 DEF Goto
      <4> QED BY <2>1, <4>1 DEF DoneStays, AllowDone, AcceptDone, DenyDone, InGroups
    <3> QED BY <3>1, <3>2
  <2>3. IsDone(AcceptRule(g, p))'
    BY <1>1, <2>2 DEF IsDone
  <2>4. DoneInv'
    BY <1>1, <1>2, <2>1, <2>2, <2>3, AddRuleKeepsDone
  <2>5. PortsListedOnce => ~IsDone(AcceptRule(g, p))
    <3> SUFFICES ASSUME PortsListedOnce, IsDone(AcceptRule(g, p))
                 PROVE  FALSE
      OBVIOUS
    <3>1. PICK h \in Groups, q \in Nat :
             /\ q \in 1..Len(PortsOf(h)) /\ AcceptDone(h, q)
             /\ AcceptRule(g, p) = AcceptRule(h, PortsOf(h)[q])
      <4>1. \A q \in 1..Len(always_allow_ports) :
               AcceptRule(g, p) # AllowRule(always_allow_ports[q])
        BY Kinds
      <4>2. \A h \in Groups : \A q \in 1..Len(PortsOf(h)) :
               q \in Nat /\ AcceptRule(g, p) # DenyRule(PortsOf(h)[q])
        BY Kinds
      <4> QED BY <4>1, <4>2 DEF IsDone
    <3>2. h = g /\ PortsOf(h)[q] = p
      BY <3>1, Kinds
    <3>3. q = n
      BY <1>3, <3>1, <3>2
    <3> QED BY <1>1, <2>1, <3>1, <3>2, <3>3 DEF AcceptDone, InGroups
  <2>6. PortsListedOnce => NoRuleTwice'
    <3>1. PortsListedOnce => \A i \in 1..Len(rules) : rules[i] # AcceptRule(g, p)
      BY <1>1, <2>1, <2>5, Kinds, GatingRuleIsNew
    <3> QED BY <1>2, <2>1, <3>1, AddNewRule
  <2> QED BY <2>4, <2>6
<1>5. CASE DropOthers
  <2>1. /\ pc = "drop_rule" /\ AddRule(DenyRule(p)) /\ Filtering /\ NextPort /\ ~default_deny
    BY <1>5 DEF DropOthers, AddRule, Filtering, IInv, LoopInv
  <2>2. DoneStays /\ DenyDone(g, n)'
    BY <1>1, <2>1, NextPortKeepsDone
  <2>3. IsDone(DenyRule(p))'
    BY <1>1, <2>2 DEF IsDone
  <2>4. DoneInv'
    BY <1>1, <1>2, <2>1, <2>2, <2>3, AddRuleKeepsDone
  <2>5. PortsListedOnce => ~IsDone(DenyRule(p))
    <3> SUFFICES ASSUME PortsListedOnce, IsDone(DenyRule(p))
                 PROVE  FALSE
      OBVIOUS
    <3>1. PICK h \in Groups, q \in Nat :
             /\ q \in 1..Len(PortsOf(h)) /\ DenyDone(h, q)
             /\ DenyRule(p) = DenyRule(PortsOf(h)[q])
      <4>1. \A q \in 1..Len(always_allow_ports) :
               DenyRule(p) # AllowRule(always_allow_ports[q])
        BY Verdicts
      <4>2. \A h \in Groups : \A q \in 1..Len(PortsOf(h)) :
               q \in Nat /\ DenyRule(p) # AcceptRule(h, PortsOf(h)[q])
        BY Kinds
      <4> QED BY <4>1, <4>2 DEF IsDone
    <3>2. PortsOf(h)[q] = p
      BY <3>1, Kinds
    <3>3. h = g
      <4>1. p \in PortSet(PortsOf(h))
        BY <3>1, <3>2 DEF PortSet
      <4> QED BY <1>1, <2>1, <4>1 DEF PortsListedOnce, GroupsDisjoint
    <3>4. q = n
      BY <1>3, <3>1, <3>2, <3>3
    <3> QED BY <1>1, <2>1, <3>1, <3>3, <3>4 DEF DenyDone, InGroups
  <2>6. PortsListedOnce => NoRuleTwice'
    <3>1. PortsListedOnce => \A i \in 1..Len(rules) : rules[i] # DenyRule(p)
      BY <1>1, <2>1, <2>5, Kinds, GatingRuleIsNew
    <3> QED BY <1>2, <2>1, <3>1, AddNewRule
  <2> QED BY <2>4, <2>6
<1> QED BY <1>4, <1>5

LEMMA KeptRulesOnce ==
    ASSUME DoneInv, NoRuleTwice,
           \/ UNCHANGED <<pc, group, k, chain, rules>>
           \/ UNCHANGED rules /\ ~(pc = "host_rules" \/ InGroups)'
           \/ rules' = <<>>
    PROVE  DoneInv' /\ NoRuleTwice'
<1>1. CASE UNCHANGED <<pc, group, k, chain, rules>>
  BY <1>1 DEF DoneInv, NoRuleTwice, Filtering, InGroups, IsDone, AllowDone, AcceptDone, DenyDone
<1>2. CASE UNCHANGED rules /\ ~(pc = "host_rules" \/ InGroups)'
  BY <1>2 DEF DoneInv, NoRuleTwice
<1>3. CASE rules' = <<>>
  <2>1. (\A i \in 1..Len(rules') : FALSE) /\ (\A i \in 3..Len(rules') : FALSE)
    BY <1>3
  <2> QED BY <2>1 DEF DoneInv, NoRuleTwice
<1> QED BY <1>1, <1>2, <1>3

LEMMA OnceStep ==
    IInv /\ DoneInv /\ NoRuleTwice /\ PortsListedOnce /\ [Next]_vars => DoneInv' /\ NoRuleTwice'
<1> SUFFICES ASSUME IInv, DoneInv, NoRuleTwice, PortsListedOnce, [Next]_vars
             PROVE  DoneInv' /\ NoRuleTwice'
  OBVIOUS
<1>1. CASE AcceptHost
  BY <1>1, HostStepOnce
<1>2. CASE AcceptMembers \/ DropOthers
  BY <1>2, MembersStepOnce
<1>3. CASE AddTable \/ DeleteTable \/ RecreateTable
  BY <1>3, KeptRulesOnce DEF AddTable, DeleteTable, RecreateTable, Goto, InGroups, NoRuleset
<1>4. CASE AddChain
  <2>1. rules' = <<>>
    BY <1>4 DEF AddChain, IInv, ChainInv
  <2> QED BY <2>1, KeptRulesOnce
<1>5. CASE AddSet
  <2>1. /\ pc = "add_set" /\ pc' = "accept_rule" /\ k = 1 /\ k' = 1
        /\ UNCHANGED <<group, chain, rules>>
    BY <1>5 DEF AddSet, IInv, LoopInv
  <2>2. DoneStays
    BY <2>1 DEF DoneStays, AllowDone, AcceptDone, DenyDone, InGroups
  <2>3. DoneInv'
    <3> SUFFICES ASSUME Filtering', NEW i \in 3..Len(rules')
                 PROVE  IsDone(rules[i])'
      BY DEF DoneInv
    <3>1. PICK r : r = rules[i]
      OBVIOUS
    <3>2. IsDone(r)
      BY <2>1, <3>1 DEF DoneInv, Filtering, InGroups
    <3>3. IsDone(r)'
      BY <2>2, <3>2, IsDoneStays
    <3> QED BY <2>1, <3>1, <3>3 DEF IsDone
  <2> QED BY <2>1, <2>3 DEF NoRuleTwice
<1>6. CASE NftRejects \/ Fail \/ Restart \/ Kill \/ Start
  BY <1>6, KeptRulesOnce DEF NftRejects, Fail, Restart, Kill, Start, rulesetVars, InGroups
<1>7. CASE stop_service
  BY <1>7, KeptRulesOnce DEF stop_service, NoRuleset
<1>8. CASE \E s \in Sources : \E g \in Groups : open_port_for(s, g)
  BY <1>8, KeptRulesOnce DEF open_port_for, add_to_set, daemonVars
<1>9. CASE (\E s \in Sources, p \in Ports : Connect(s, p)) \/ Tick \/ UNCHANGED vars
  BY <1>9, KeptRulesOnce DEF Connect, Tick, vars, rulesetVars, daemonVars
<1> QED BY <1>1, <1>2, <1>3, <1>4, <1>5, <1>6, <1>7, <1>8, <1>9 DEF Next, ensure_base_ruleset

(***************************************************************************)
(* Failures, crashes, stops and restarts at any command never make a rule  *)
(* appear twice, unless the configuration names its port twice: the table  *)
(* is deleted before anything is added (ensure_base_ruleset).              *)
(***************************************************************************)
THEOREM RulesAppearOnce == PortsListedOnce => (Spec => []NoRuleTwice)
<1> SUFFICES ASSUME PortsListedOnce
             PROVE  Spec => []NoRuleTwice
  OBVIOUS
<1>1. Init => DoneInv /\ NoRuleTwice
  <2> SUFFICES ASSUME Init
               PROVE  DoneInv /\ NoRuleTwice
    OBVIOUS
  <2>1. (\A i \in 1..Len(rules) : FALSE) /\ (\A i \in 3..Len(rules) : FALSE)
    BY DEF Init
  <2> QED BY <2>1 DEF DoneInv, NoRuleTwice
<1>2. IInv /\ DoneInv /\ NoRuleTwice /\ [Next]_vars => DoneInv' /\ NoRuleTwice'
  BY OnceStep
<1> QED BY <1>1, <1>2, Invariance, PTL DEF Spec
=============================================================================
