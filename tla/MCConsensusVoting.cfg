SPECIFICATION Spec
CONSTANTS
    None = None
    p1 = p1
    p2 = p2
    x = x
    y = y
    A = A
    B = B
    C = C
    Peers = {p1, p2}
    Txs = {x, y}
    Ledgers = {A, B, C}
    Parent <- MCParent
    Offers <- VotingOffers
    Answers <- VotingAnswers
    Have <- VotingHave
    Held = {A, B, C}
    LastProposers = {2}
    Leave <- MCLeave
    RecentMax = 10
    Resolution = 4
    AvMinRounds = 1
    AvStalledRounds = 2
    MinConsensus = 1
    MaxConsensus = 2
    AbandonConsensus = 3
    AvMinConsensusTime = 2
    MinClose = 1
    IdleInterval = 2
    ProposeFreshness = 2
    ProposeInterval = 2
    TimeCap = 4
    MaxRounds = 1
INVARIANTS TypeOK DisputesMatch PositionTold
PROPERTIES AcceptedIsFrozen 
