CONSTANTS
    Gates = {video, audio}
    Sequencer = Sequencer
    Scheduler = Scheduler
    Free = Free
    MaxGen = 2
    MaxClock = 1
    MaxReleases = 1
SPECIFICATION FairSpec
PROPERTY DiscontinuityRequested
