\* The default replay_ttl, three time steps: no lag, no step of the wall clock.
CONSTANTS
    Sources = {s1}
    n_ports = 3
    port_low = 1
    port_high = 2
    kNumChannels = 2
    hmac_sha256 <- MCHmac
    time_step_seconds = 2
    inactivity_timeout = 1
    replay_ttl = 6
    LAG = 0
    LEAD = 0
    BOOT = 0
    MAX_CLOCK = 9
    MAX_CODES = 1
SPECIFICATION Spec
CONSTRAINT FewCodes
CHECK_DEADLOCK FALSE
INVARIANT SingleUse
