CONSTANT SampleLen = 2
SPECIFICATION DriveSpec
INVARIANT WashHeats
