CONSTANT MaxRss = 1
SPECIFICATION FairSpec
PROPERTY StopReturns
