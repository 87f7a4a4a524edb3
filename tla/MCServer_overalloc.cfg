\* Spec section 8: over-allocated reserved CPUs are rejected (expected to fail).
CONSTANTS
    None = None
    Missing = Missing
    NoFile = NoFile
    Empty = Empty
    b1 = b1
    b2 = b2
    b3 = b3
    b4 = b4
    b5 = b5
    b6 = b6
    Bundles <- MCBundles
    BundleNodes <- MCBundleNodes
    ValidateRequests <- MCValidateRequests
    GenerateRequests <- MCGenerateFew
    OutputPaths <- NoOutputPaths
    Descriptions <- NoDescriptions
SPECIFICATION Spec
INVARIANT
    OverAllocationRejected
