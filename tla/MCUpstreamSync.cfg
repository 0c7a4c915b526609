CONSTANTS
    upstream_servers <- TwoServers
    Answers <- MCAnswers
    Readers = {w1}
    configured_stratum = 2
    MaxRounds = 3
    NoAnswer = NoAnswer
    NoSample = NoSample
SPECIFICATION FairSpec
INVARIANTS
    BestOfRound
    OffsetNotOlder
    StratumBehindSource
PROPERTIES
    ImplementsClock
    RoundsGoOn
