\* generate_ppc_command with an isolated CPU count: the command's reservation leaves another count to isolate (expected to fail).
CONSTANTS
    None = None
    Missing = Missing
    NoFile = NoFile
    Empty = Empty
    b1 = b1
    b2 = b2
    b3 = b3
    b4 = b4
    b5 = b5
    b6 = b6
    Bundles <- MCBundles
    BundleNodes <- MCBundleNodes
    ValidateRequests <- MCValidateFew
    GenerateRequests <- MCGenerateIsolated
    OutputPaths <- NoOutputPaths
    Descriptions <- NoDescriptions
SPECIFICATION Spec
INVARIANTS
    IsolatedCountHonoured
