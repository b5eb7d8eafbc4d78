CONSTANTS
    Gates = {video, audio}
    Sequencer = Sequencer
    Scheduler = Scheduler
    Free = Free
    MaxGen = 2
    MaxClock = 2
    MaxReleases = 1
SPECIFICATION Spec
SYMMETRY Symmetry
INVARIANTS LayersAgree OpensAfterPurge
PROPERTIES PublishesUnderPermit EmitsUnderPermit ReservedActivationPublishes FailureIsTerminal
