CONSTANTS
    Streams <- MC_NoisyStreams
    Contents <- MC_Contents
SPECIFICATION Spec
INVARIANT SplitInvariance
