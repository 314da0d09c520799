SPECIFICATION FairSpec
CONSTANTS
    m1 = m1
    m2 = m2
    always = always
    s1 = s1
    s2 = s2
    scheduled = scheduled
    Models = {m1, m2}
    Submissions = {s1, s2}
    Crunches = {always, scheduled}
    CrunchOf <- CrunchOfDef
    Scheduled = {scheduled}
    Listings <- ListingsDef
    TornReaders = {"poller", "scheduler"}
    DyingThreads = {"poller", "scheduler"}
INVARIANTS TypeOK RunningFollowed StoppedFollowed
PROPERTY FollowedInTheEnd
