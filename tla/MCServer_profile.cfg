\* A successful create_performance_profile leaves the profile at output_path (expected to fail).
CONSTANTS
    None = None
    Missing = Missing
    NoFile = NoFile
    Empty = Empty
    b1 = b1
    b2 = b2
    b3 = b3
    b4 = b4
    b5 = b5
    b6 = b6
    Bundles <- MCBundles
    BundleNodes <- MCBundleNodes
    ValidateRequests <- MCValidateFew
    GenerateRequests <- MCGenerateFew
    OutputPaths <- MCOutputPaths
    Descriptions <- NoDescriptions
SPECIFICATION Spec
INVARIANT
    ProfileWrittenOnSuccess
