\* Policy accept under procd: two groups, two failures, crashes or stops at any command.
CONSTANTS
    Sources = {s1, s2}
    Ports = {1, 2, 4}
    target_ports <- Primary
    channel_port_groups <- TwoGroups
    always_allow_ports <- Nothing
    default_deny = FALSE
    open_duration = 1
    procd = TRUE
    MAX_FAILURES = 2
    MAX_CLOCK = 2
SPECIFICATION FairSpec
CHECK_DEADLOCK FALSE
INVARIANTS TypeOK GateClosed KnockAdmits ConnectionsFlow OthersUntouched NoRuleTwice
PROPERTY Rearms
