\* procd, policy drop, an always-allowed port, two failures or stops.
CONSTANTS
    Sources = {s1}
    n_ports = 2
    port_low = 1
    port_high = 2
    kNumChannels = 2
    hmac_sha256 <- MCHmac
    time_step_seconds = 4
    inactivity_timeout = 1
    replay_ttl = 1
    LAG = 2
    LEAD = 0
    MAX_CLOCK = 3
    channel_sections <- OnePort
    open_duration = 1
    procd = TRUE
    CAPACITY = 1
    READ_TIMEOUT = 1
    SLOW = 1
    MAX_TROUBLES = 2
    MAX_FAILURES = 5
    MAX_CODES = 1
    Ports = {1, 2, 3}
    target_ports <- Primary
    channel_port_groups <- OneGroup
    always_allow_ports <- Always
    default_deny = TRUE
SPECIFICATION HostSpec
CONSTRAINT FewCodes
CHECK_DEADLOCK FALSE
INVARIANTS HostTypeOK DoorNeedsKnock
PROPERTIES KnockTakesEffect KernelOpensVerified
