SPECIFICATION DetailSpec
CONSTANTS
    Count = 2
    RankOf <- MCRankOf
    CacheMax = 1
    MaxFetches = 3
INVARIANT ShowsTheRunUnderTheCursor
