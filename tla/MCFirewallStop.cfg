\* Stopping the OpenWrt service while it builds its ruleset.
CONSTANTS
    Sources = {s1, s2}
    Ports = {1, 2, 4}
    target_ports <- Primary
    channel_port_groups <- TwoGroups
    always_allow_ports <- Nothing
    default_deny = FALSE
    open_duration = 1
    procd = TRUE
    MAX_FAILURES = 1
    MAX_CLOCK = 2
SPECIFICATION Spec
CHECK_DEADLOCK FALSE
INVARIANT StoppedUnlocks
