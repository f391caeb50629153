SPECIFICATION FairSpec
CONSTANTS
  Loops = {l1, l2}
  Setups <- MCSetups
  SockBuf = 1
  MaxPosted = 2
  MaxLines = 3
  kMaxCriticalEntries = 2
INVARIANTS ServersOutlive CleanExit HonestHealth RestartHonest LogPulled OutagesLogged
PROPERTIES TermEnds CommandsAnswered
