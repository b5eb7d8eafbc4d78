CONSTANTS
    Gates = {video}
    Sequencer = Sequencer
    Scheduler = Scheduler
    Free = Free
    MaxGen = 3
    MaxClock = 1
    MaxReleases = 1
SPECIFICATION FairSpec
PROPERTIES RequestReturns ReadyEnds
