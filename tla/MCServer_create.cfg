\* create_performance_profile, with exits 0, non-zero and timeout, writes only its output_path (expected to fail).
CONSTANTS
    None = None
    Missing = Missing
    NoFile = NoFile
    Empty = Empty
    b1 = b1
    b2 = b2
    b3 = b3
    b4 = b4
    b5 = b5
    b6 = b6
    Bundles <- MCBundles
    BundleNodes <- MCBundleNodes
    ValidateRequests <- MCValidateFew
    GenerateRequests <- MCGenerateFew
    OutputPaths <- MCOutputPaths
    Descriptions <- NoDescriptions
SPECIFICATION Spec
PROPERTY
    CreateWritesOnlyOutputPath
