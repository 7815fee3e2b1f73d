SPECIFICATION Spec
CONSTANTS
    Addrs = {"dht", "in", "blk"}
    NoAddr = NoAddr
    Slots = {s1, s2}
    NoSlot = NoSlot
    User = User
    Outgoing <- MCOutgoing
    Full = {"dht", "in"}
    Blocked = {"blk"}
    DisableUpload = FALSE
    MaxTries = 1
    MaxEvents = 3
CHECK_DEADLOCK FALSE
INVARIANT NoLockCycle
