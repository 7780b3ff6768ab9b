\* Clean and noisy lines: one to three frames, possibly behind garbage.
CONSTANTS
    Streams <- MC_AllStreams
    Contents <- MC_Contents
SPECIFICATION Spec
INVARIANT TypeOK CleanSplitInvariance BufferHoldsPartialFrame SplitOnlyRecovers RoundTrip
