CONSTANTS
    t1 = t1  t2 = t2
    r1 = r1  r2 = r2
    b1 = b1  b2 = b2
    s0 = s0  s1 = s1
    post = post  name = name
    p1 = p1  p2 = p2  n1 = n1  n2 = n2
    me = me  you = you
    Absent = Absent
    Junk = Junk
    Tabs = {t1, t2}
    Relays = {r1, r2}
    RelayRank <- Rank
    Inbox <- Inboxes
    Keys = {post, name}
    Versions = {p1, p2, n1, n2}
    KeyOf <- Key
    OwnerOf <- Owner
    StampOf <- CommunityStamp
    SigOf <- Sig
    EditOf <- Edit
    EpochOf <- Epoch
    Local = {n2}
    Bootstraps = {b1, b2}
    SequenceOf <- BootSequence
    Artifacts = {s0, s1}
    PlaceOf <- Place
    PriorOf <- Prior
    Holds <- Seeded
    MaxViewRecords = 1
    MaxReadEntries = 3
    MaxValue = 9
    MaxEpoch = 1
SPECIFICATION Spec
INVARIANT EditsPropagate
CHECK_DEADLOCK FALSE
