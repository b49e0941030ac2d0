\* Liveness: every process is scheduled, nft and the channel's command end.
CONSTANTS
    Sources = {s1}
    n_ports = 2
    port_low = 1
    port_high = 2
    kNumChannels = 2
    hmac_sha256 <- MCHmac
    time_step_seconds = 8
    inactivity_timeout = 2
    replay_ttl = 1
    LAG = 3
    LEAD = 0
    BOOT = 0
    MAX_CLOCK = 3
    channel_sections <- NoPorts
    open_duration = 2
    procd = TRUE
    CAPACITY = 2
    READ_TIMEOUT = 2
    SLOW = 1
    MAX_FAILURES = 1
    MAX_CODES = 2
SPECIFICATION KnockdFairSpec
CHECK_DEADLOCK FALSE
INVARIANT QueueLag
PROPERTIES ComesBack StopHonoured
