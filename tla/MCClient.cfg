\* Two clients behind one address, clocks off as far as tolerated, two faults.
CONSTANTS
    ahead = ahead
    behind = behind
    home = home
    Clients = {ahead, behind}
    Sources = {home}
    address <- OneAddress
    skew <- FarthestSkews
    n_ports = 2
    port_low = 1
    port_high = 12
    kNumChannels = 2
    hmac_sha256 <- MCHmac
    time_step_seconds = 2
    inactivity_timeout = 2
    replay_ttl = 1
    LAG = 0
    LEAD = 0
    BOOT = 2
    MAX_CLOCK = 5
    knock_interval = 1
    SLACK = 0
    DELAY = 1
    MAX_ATTEMPTS = 2
    MAX_FAULTS = 2
SPECIFICATION ClientSpec
CHECK_DEADLOCK FALSE
INVARIANTS AcceptedWasSent OncePerSend
PROPERTY GetsThrough
