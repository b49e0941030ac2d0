\* The channels of knockd.conf.example: two groups share a port, policy accept.
CONSTANTS
    Sources = {s1, s2}
    Ports = {1, 2, 3}
    target_ports <- Primary
    channel_port_groups <- ExampleGroups
    always_allow_ports <- Nothing
    default_deny = FALSE
    open_duration = 1
    procd = FALSE
    MAX_FAILURES = 1
    MAX_CLOCK = 2
SPECIFICATION Spec
CHECK_DEADLOCK FALSE
INVARIANT KnockAdmits
