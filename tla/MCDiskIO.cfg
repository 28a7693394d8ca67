SPECIFICATION FairSpec
CONSTANTS
  Half = 2
  Capacity = 2
  Cues <- MCCues
CHECK_DEADLOCK FALSE
INVARIANT HeardIsFile
INVARIANT RecordingIntact
PROPERTY DoneComes
