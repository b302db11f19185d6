SPECIFICATION MCSpec
CONSTANTS
  Peer = {p1, p2, p3, p4, p5, p6}
  Percents = {0, 49, 50, 84, 85, 199, 200, 300}
  MaxUndecided = 14
  VoteTimes = {0, 30, 60, 90}
  MaxVotes = 3
INVARIANTS
  VoteSettles
  ThresholdsExact
  ScanFindsLatestMostVoted
PROPERTIES
  VoteFollowsSomePeer
