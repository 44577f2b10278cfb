CONSTANT MaxRss = 3
SPECIFICATION FairSpec
INVARIANTS PeakIsReal SamplerSpansRun
PROPERTIES FinishIsSticky StopHonoured
