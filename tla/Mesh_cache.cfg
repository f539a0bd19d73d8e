CONSTANTS
    p = p
    q = q
    r = r
    main = main
    pub = pub
    lan = lan
    Hosts = {main, pub, lan}
    UnsafeHosts = {lan}
    NoURL = NoURL
    Peers = {p, q, r}
    NoMsg = NoMsg
    Gateways <- MCGateways
    Static <- MCStatic
    HeadLen = 2
    MaxPeers = 2
    TTL = 0
    MaxLag = 1
    MaxBacklog = 1
    MaxDials = 1
    AllowPrivate = FALSE
    AdvertiseOff = FALSE
SPECIFICATION FairSpec
CHECK_DEADLOCK FALSE
INVARIANTS CacheSound StoppedQuiet ChainSound
PROPERTIES OnlyStaleEvicted SilentForgotten StopEnds
