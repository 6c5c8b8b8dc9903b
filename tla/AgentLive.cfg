SPECIFICATION FairSpec
CONSTANTS
  h1 = h1
  h2 = h2
  f1 = f1
  f2 = f2
  f3 = f3
  Hash = {h1, h2}
  Type <- BothWhole
  Fd = {f1, f2}
  NoHash = NoHash
  NoFd = NoFd
  MaxSock = 2
  MaxRetry = 1
  MaxRequests = 3
PROPERTIES AnsweredWhileBusy
