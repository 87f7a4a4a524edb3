\* generate_ppc_command over every bundle; create_performance_profile is left out (no output paths).
CONSTANTS
    None = None
    Missing = Missing
    NoFile = NoFile
    Empty = Empty
    b1 = b1
    b2 = b2
    b3 = b3
    b4 = b4
    b5 = b5
    b6 = b6
    Bundles <- MCBundles
    BundleNodes <- MCBundleNodes
    ValidateRequests <- MCValidateFew
    GenerateRequests <- MCGenerateRequests
    OutputPaths <- NoOutputPaths
    Descriptions <- NoDescriptions
SPECIFICATION Spec
INVARIANTS
    TypeOK
    ConsistentSnapshot
    CommandFlagsConsistent
