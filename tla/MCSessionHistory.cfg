\* Two sources, knocks of three ports out of three, some first ports mistakable.
CONSTANTS
    Sources = {s1, s2}
    n_ports = 3
    port_low = 1
    port_high = 3
    kNumChannels = 2
    hmac_sha256 <- MCHmac
    time_step_seconds = 2
    inactivity_timeout = 1
    replay_ttl = 1
    LAG = 0
    LEAD = 0
    BOOT = 1
    MAX_CLOCK = 3
    MAX_CODES = 1
    MAX_RECENT = 4
SYMMETRY Symmetry
SPECIFICATION HistorySpec
CONSTRAINT ShortHistory
CHECK_DEADLOCK FALSE
INVARIANTS CompletedIsKnock KnockIsCompleted
PROPERTY AcceptedIsSpelt
