\* validate_performance_requirements with a hugepage size and a count of 0.
CONSTANTS
    None = None
    Missing = Missing
    NoFile = NoFile
    Empty = Empty
    b1 = b1
    b2 = b2
    b3 = b3
    b4 = b4
    b5 = b5
    b6 = b6
    Bundles <- MCBundles
    BundleNodes <- MCBundleNodes
    ValidateRequests <- MCValidateCounts
    GenerateRequests <- MCGenerateFew
    OutputPaths <- NoOutputPaths
    Descriptions <- NoDescriptions
SPECIFICATION Spec
INVARIANTS
    HugepageCountHonoured
