CONSTANTS
    r1 = r1  r2 = r2  d1 = d1  d2 = d2
    Runs = {r1, r2}
    Files <- MCFiles
    Digests = {d1, d2}
    Builds <- SameBuild
    Absent = Absent
    Starter = Starter
    FirstTags = {"none", "source"}
    MaxReleases = 4
    MaxFaults = 3
    Faults = {"die", "lose_response", "stale_list", "expire"}
SPECIFICATION FairSpec
PROPERTIES
    EventuallyPublic
    TurnsGreen
CHECK_DEADLOCK FALSE
