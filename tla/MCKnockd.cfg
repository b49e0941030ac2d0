\* One source, a channel of every kind, windows of one unit, two failures or stops.
CONSTANTS
    Sources = {s1}
    n_ports = 2
    port_low = 1
    port_high = 2
    kNumChannels = 4
    hmac_sha256 <- MCHmac
    time_step_seconds = 1
    inactivity_timeout = 1
    replay_ttl = 1
    LAG = 1
    LEAD = 0
    BOOT = 0
    MAX_CLOCK = 4
    channel_sections <- OneOfEach
    open_duration = 1
    procd = TRUE
    CAPACITY = 1
    READ_TIMEOUT = 1
    SLOW = 1
    MAX_FAILURES = 2
    MAX_CODES = 1
SPECIFICATION KnockdSpec
CONSTRAINT FewCodes
CHECK_DEADLOCK FALSE
INVARIANTS KnockdTypeOK OpenedWasVerified ReuseOnlyAfterTTL HonouredInHorizon
           InactivityWithinWait
PROPERTIES SessionSteps OpensVerified
