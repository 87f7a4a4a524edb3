\* get_workload_recommendations on descriptions whose words contain short keywords.
CONSTANTS
    None = None
    Missing = Missing
    NoFile = NoFile
    Empty = Empty
    b1 = b1
    b2 = b2
    b3 = b3
    b4 = b4
    b5 = b5
    b6 = b6
    Bundles <- MCBundles
    BundleNodes <- MCBundleNodes
    ValidateRequests <- MCValidateCounts
    GenerateRequests <- MCGenerateFew
    OutputPaths <- NoOutputPaths
    Descriptions <- MCDescriptions
SPECIFICATION Spec
INVARIANTS
    RecommendedForKeywordWord
