\* One source, knocks of three ports; the replay cache outlives every window.
CONSTANTS
    Sources = {s1}
    n_ports = 3
    port_low = 1
    port_high = 2
    kNumChannels = 2
    hmac_sha256 <- MCHmac
    time_step_seconds = 1
    inactivity_timeout = 1
    replay_ttl = 5
    LAG = 1
    LEAD = 0
    BOOT = 0
    MAX_CLOCK = 6
SPECIFICATION Spec
CHECK_DEADLOCK FALSE
INVARIANTS TypeOK CandidateIsPrefix AcceptanceHorizon SingleUse
PROPERTY RedeemsCodes
CONSTRAINT FewCodes
CONSTANT MAX_CODES = 2
