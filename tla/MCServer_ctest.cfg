\* Refinement: every tool call, in any order, is a step or a stutter of the abstract cache of CacheSpec.tla;
\* and following a recommendation through generate_ppc_command keeps every recommended setting.
CONSTANTS
    None = None
    Missing = Missing
    NoFile = NoFile
    Empty = Empty
    b1 = b1
    b2 = b2
    b3 = b3
    b4 = b4
    b5 = b5
    b6 = b6
    Bundles <- MCBundles
    BundleNodes <- MCBundleNodes
    ValidateRequests <- MCValidateFew
    GenerateRequests <- MCGenerateFew
    OutputPaths <- MCOutputPaths
    Descriptions <- MCDescriptions
SPECIFICATION Spec
INVARIANTS
    TypeOK
    RecommendationHonoured
PROPERTIES
    CacheRefinement
