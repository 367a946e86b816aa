CONSTANTS
    r1 = r1  r2 = r2  d1 = d1  d2 = d2
    Runs = {r1, r2}
    Files <- MCFiles
    Digests = {d1, d2}
    Builds <- MCBuilds
    Absent = Absent
    Starter = Starter
    FirstTags = {"none", "source", "elsewhere"}
    MaxReleases = 2
    MaxFaults = 1
    Faults = {"die", "lose_response", "cut_upload", "expire"}
SPECIFICATION Spec
INVARIANTS
    TypeOK
    PublicIsPackaged
    AssetsFollowPackages
    GreenMeansPublished
PROPERTIES
    PublishesOnce
CHECK_DEADLOCK FALSE
