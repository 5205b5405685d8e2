SPECIFICATION FairSpec
CONSTANTS
    BadIds = {""}
    Globs <- MCGlobs
    Documents <- MCDocuments
    Profiles <- MCProfiles
    Contents <- MCContents
    Valid = {"plain", "tiered", "narrow"}
    Unreadable = "unreadable"
    Requests = {"r1", "r2"}
    Stoppers = {"s1", "s2"}
    MaxGeneration = 3
INVARIANTS GenerationNamesContent ServedConfigIsUsable
PROPERTIES StopIsFinal SettledFileIsServed
