------------------------------ MODULE Server ------------------------------
(***************************************************************************)
(* The MCP server of mcp_server.py: the single-slot hardware cache         *)
(* (_must_gather_data, _must_gather_path) shared by its tools, and the     *)
(* tools that read or change it.  Each tool is an async function without  *)
(* an await, so a call runs to completion before the next starts: one     *)
(* call is one step.  response is what the last call returned.            *)
(***************************************************************************)
EXTENDS Integers, Sequences, Validator, Generator, Recommender

CONSTANTS
    Bundles,          \* must-gather paths a client may pass
    BundleNodes,      \* their contents: a set of Nodes, or Missing
    Missing,          \* a path that does not exist
    ValidateRequests, \* argument records of validate_performance_requirements
    GenerateRequests, \* argument records of generate_ppc_command
    OutputPaths,      \* output_path values of create_performance_profile
    Descriptions,     \* lower-cased workload_description values
    NoFile, Empty     \* file contents: absent, and the empty string

ASSUME BundleAssumption ==
    /\ DOMAIN BundleNodes = Bundles
    /\ \A b \in Bundles : BundleNodes[b] # Missing => BundleNodes[b] \subseteq Nodes
    /\ None \notin Bundles

\* The arguments generate_ppc_command accepts, with the documented values
\* of power_mode and topology_policy.
GenerateRequestType ==
    [workload_type : STRING, mcp_name : STRING, profile_name : STRING,
     isolated_cpu_count : {None} \cup Int, reserved_cpu_count : {None} \cup Int,
     enable_rt_kernel : BOOLEAN, disable_ht : BOOLEAN, enable_dpdk : BOOLEAN,
     power_mode : PowerModes, topology_policy : TopologyPolicies,
     split_reserved_across_numa : BOOLEAN, per_pod_power_management : BOOLEAN]
ASSUME GenerateRequestsAssumption == GenerateRequests \subseteq GenerateRequestType

\* The arguments validate_performance_requirements accepts: a hugepage size
\* string is its number and unit letter (Validator.tla).
ValidateRequestType ==
    [workload_type : STRING, isolated_cpu_count : {None} \cup Int,
     reserved_cpu_count : {None} \cup Int, enable_rt_kernel : BOOLEAN, enable_dpdk : BOOLEAN,
     hugepages_size : {None} \cup [num : Nat, unit : STRING],
     hugepages_count : {None} \cup Int, power_mode : STRING]
ASSUME ValidateRequestsAssumption == ValidateRequests \subseteq ValidateRequestType

\* The file the command's "> performance-profile.yaml" writes, in the
\* server's working directory.
RedirectTarget == Redirect.arg
Paths == OutputPaths \cup {RedirectTarget}

\* What the PPC container prints for a command: the profile it describes.
ProfileOf(cmd) == [profile |-> cmd]

VARIABLES
    mustGatherData,   \* _must_gather_data: a summary, or None
    mustGatherPath,   \* _must_gather_path: a bundle, or None
    lastCommand,      \* the last command a generate call returned, or None
    files,            \* the contents of the files at Paths
    response          \* what the last tool call returned

vars == <<mustGatherData, mustGatherPath, lastCommand, files, response>>

Init ==
    /\ mustGatherData = None
    /\ mustGatherPath = None
    /\ lastCommand = None
    /\ files = [f \in Paths |-> NoFile]
    /\ response = None

(***************************************************************************)
(* analyze_cluster_hardware.  The path exists: the parser's summary and    *)
(* the path are stored together.  It does not: MustGatherParser raises     *)
(* before either global is assigned, and the old bundle stays cached.      *)
(***************************************************************************)
AnalyzeOk(b) ==
    /\ BundleNodes[b] # Missing
    /\ \E s \in SummariesOf(BundleNodes[b]) :
          /\ mustGatherData' = s
          /\ mustGatherPath' = b
          /\ response' = [tool |-> "analyze", success |-> TRUE, bundle |-> b, summary |-> s]
    /\ UNCHANGED <<lastCommand, files>>

\* Mutant: the path is stored before the parser raises.
AnalyzeFailAfterPathSet(b) ==
    /\ BundleNodes[b] = Missing
    /\ mustGatherPath' = b
    /\ response' = [tool |-> "analyze", success |-> FALSE, bundle |-> b]
    /\ UNCHANGED <<mustGatherData, lastCommand, files>>

AnalyzeFail(b) ==
    /\ BundleNodes[b] = Missing
    /\ response' = [tool |-> "analyze", success |-> FALSE, bundle |-> b]
    /\ UNCHANGED <<mustGatherData, mustGatherPath, lastCommand, files>>

(***************************************************************************)
(* validate_performance_requirements: no cached data is an error reply;    *)
(* otherwise the validator's report on the cached summary.  The tool has  *)
(* no per_pod_power_management argument, so the requirements dict lacks it.*)
(***************************************************************************)
ValidatePerformanceRequirements(req) ==
    /\ IF mustGatherData = None
       THEN response' = [tool |-> "validate", success |-> FALSE]
       ELSE response' = [tool |-> "validate", success |-> TRUE,
                         summary |-> mustGatherData, request |-> req,
                         report |-> Validate(mustGatherData, req)]
    /\ UNCHANGED <<mustGatherData, mustGatherPath, lastCommand, files>>

(***************************************************************************)
(* generate_ppc_command: every keyword argument is passed to              *)
(* generate_parameters as an override; the command mounts the cached path *)
(* and the reply carries explain_parameters' text for the parameters.     *)
(***************************************************************************)
GeneratePpcCommand(req) ==
    /\ IF mustGatherData = None \/ mustGatherPath = None
       THEN /\ response' = [tool |-> "generate", success |-> FALSE]
            /\ UNCHANGED lastCommand
       ELSE LET params == GenerateParameters(req.workload_type, req.mcp_name,
                                             req.profile_name, req, mustGatherData)
                cmd == BuildCommand(mustGatherPath, params)
            IN  /\ lastCommand' = cmd
                /\ response' = [tool |-> "generate", success |-> TRUE,
                                summary |-> mustGatherData, bundle |-> mustGatherPath,
                                request |-> req, params |-> params, command |-> cmd,
                                explanation |-> ExplainParameters(params, mustGatherData)]
    /\ UNCHANGED <<mustGatherData, mustGatherPath, files>>

(***************************************************************************)
(* The read-only tools and the resource: they reply and change nothing.  *)
(***************************************************************************)
\* get_workload_recommendations(workload_description); template_details
\* is the recommended type's template when the catalog has one.
GetWorkloadRecommendations(d) ==
    LET w == RecommendedType(d) IN
    /\ response' = [tool |-> "recommend", success |-> TRUE, description |-> d,
                    recommendations |->
                        [workload_type |-> w,
                         recommended_settings |-> RecommendedSettings(d),
                         template |-> IF HasTemplate(w) THEN DefaultConfig(w) ELSE None]]
    /\ UNCHANGED <<mustGatherData, mustGatherPath, lastCommand, files>>

\* list_workload_templates: WorkloadTemplates.list_templates(), one summary
\* per catalog entry.
ListWorkloadTemplates ==
    /\ response' = [tool |-> "list", success |-> TRUE,
                    templates |-> [t \in TemplateNames |->
                                     [requires_rt_kernel |-> DefaultConfig(t).enable_rt_kernel,
                                      requires_dpdk |-> DefaultConfig(t).enable_dpdk,
                                      power_mode |-> DefaultConfig(t).power_mode]]]
    /\ UNCHANGED <<mustGatherData, mustGatherPath, lastCommand, files>>

\* The must-gather://hardware-info resource: an error object with no
\* cached data, otherwise the cached summary.
GetHardwareInfo ==
    /\ IF mustGatherData = None
       THEN response' = [tool |-> "hardware_info", success |-> FALSE]
       ELSE response' = [tool |-> "hardware_info", success |-> TRUE, summary |-> mustGatherData]
    /\ UNCHANGED <<mustGatherData, mustGatherPath, lastCommand, files>>

(***************************************************************************)
(* create_performance_profile(ppc_command, output_path), with the last     *)
(* command the client was given.  The shell runs the command: its stdout  *)
(* goes to the redirection target, so the captured stdout is empty.  Exit *)
(* 0: stdout is written to output_path.  A non-zero exit or the 60 s      *)
(* timeout: nothing is written by the tool; the shell has truncated the   *)
(* redirection target, which holds nothing or what the tool printed.     *)
(***************************************************************************)
CaptureStdout(cmd) ==
    IF cmd[Len(cmd)] = Redirect THEN Empty ELSE ProfileOf(cmd)

CreateSucceeds(out) ==
    LET cmd == lastCommand
        shellFiles == [files EXCEPT ![RedirectTarget] = ProfileOf(cmd)]
    IN  /\ files' = [shellFiles EXCEPT ![out] = CaptureStdout(cmd)]
        /\ response' = [tool |-> "create", success |-> TRUE, output_path |-> out,
                        command |-> cmd, profile_yaml |-> CaptureStdout(cmd)]

CreateFails(out) ==
    /\ \E c \in {Empty, ProfileOf(lastCommand)} :
          files' = [files EXCEPT ![RedirectTarget] = c]
    /\ response' = [tool |-> "create", success |-> FALSE, output_path |-> out,
                    command |-> lastCommand]

CreatePerformanceProfile(out) ==
    /\ lastCommand # None
    /\ CreateSucceeds(out) \/ CreateFails(out)
    /\ UNCHANGED <<mustGatherData, mustGatherPath, lastCommand>>

Next ==
    \/ \E b \in Bundles : AnalyzeOk(b) \/ AnalyzeFail(b)
    \/ \E req \in ValidateRequests : ValidatePerformanceRequirements(req)
    \/ \E req \in GenerateRequests : GeneratePpcCommand(req)
    \/ \E out \in OutputPaths : CreatePerformanceProfile(out)
    \/ \E d \in Descriptions : GetWorkloadRecommendations(d)
    \/ ListWorkloadTemplates
    \/ GetHardwareInfo

Spec == Init /\ [][Next]_vars

(***************************************************************************)
(* Properties.                                                             *)
(***************************************************************************)
Responses(tool) == response # None /\ response.tool = tool /\ response.success

\* The flags build_command emits after the fixed podman and image words.
CommandFlags ==
    {"-v", "--mcp-name", "--profile-name", "--reserved-cpu-count", "--rt-kernel",
     "--disable-ht", "--user-level-networking", "--split-reserved-cpus-across-numa",
     "--per-pod-power-management", "--power-consumption-mode",
     "--topology-manager-policy", ">"}

\* A command argument has the values its flag can take.
ArgTypeOK(a) ==
    /\ DOMAIN a = {"flag", "arg"}
    /\ a.flag \in CommandFlags
    /\ CASE a.flag = "-v" -> a.arg \in Bundles
         [] a.flag = "--reserved-cpu-count" -> a.arg \in Int
         [] a.flag \in {"--mcp-name", "--profile-name"} -> a.arg \in STRING
         [] a.flag = "--rt-kernel" -> a.arg \in {"true", "false"}
         [] a.flag = "--power-consumption-mode" -> a.arg \in PowerModes
         [] a.flag = "--topology-manager-policy" -> a.arg \in TopologyPolicies
         [] a.flag = ">" -> a.arg = Redirect.arg
         [] OTHER -> a.arg = NoArg

\* build_command emits at most 12 arguments.
CommandMaxLen == 12
IsCommand(c) ==
    \E n \in 0..CommandMaxLen : DOMAIN c = 1..n /\ \A i \in 1..n : ArgTypeOK(c[i])

\* The type invariant.
TypeOK ==
    /\ mustGatherData \in {None} \cup Summaries
    /\ mustGatherPath \in {None} \cup Bundles
    /\ lastCommand = None \/ IsCommand(lastCommand)
    /\ DOMAIN files = Paths
    /\ \A f \in Paths :
          \/ files[f] \in {NoFile, Empty}
          \/ DOMAIN files[f] = {"profile"} /\ IsCommand(files[f].profile)
    /\ \/ response = None
       \/ /\ response.tool \in {"analyze", "validate", "generate", "create", "recommend",
                               "list", "hardware_info"}
          /\ response.success \in BOOLEAN

\* The cached summary and the cached path always describe the same bundle:
\* analyze_cluster_hardware assigns both only after the parse succeeded,
\* so the command generate_ppc_command mounts is the bundle whose topology
\* the parameters were computed from, whatever analyses failed since.
ConsistentSnapshot ==
    /\ (mustGatherData = None) = (mustGatherPath = None)
    /\ mustGatherPath # None =>
          /\ BundleNodes[mustGatherPath] # Missing
          /\ mustGatherData \in SummariesOf(BundleNodes[mustGatherPath])

\* The command generate_ppc_command returns never asks the PPC tool for
\* contradictory settings: no per-pod power management together with a
\* power-consumption mode, DPDK only with a NUMA-aligned topology policy,
\* and reserved CPUs split across NUMA nodes whenever there are at least two
\* per NUMA node.  The overrides the tool passes reach the command only
\* through _adjust_parameters.
CommandFlagsConsistent ==
    Responses("generate") =>
        LET cmd == response.command
            numa == response.summary.numa_nodes_per_node
        IN  /\ ~ /\ "--per-pod-power-management" \in Flags(cmd)
                 /\ "--power-consumption-mode" \in Flags(cmd)
            /\ "--user-level-networking" \in Flags(cmd) =>
                  ArgOf(cmd, "--topology-manager-policy") \in {"single-numa-node", "restricted"}
            /\ numa > 1 /\ ArgOf(cmd, "--reserved-cpu-count") >= 2 * numa =>
                  "--split-reserved-cpus-across-numa" \in Flags(cmd)

\* validate_performance_requirements: a hugepage size the architecture does
\* not support is reported as a warning and never makes the configuration
\* invalid; validity is exactly the CPU fit (spec section 4.1).
HugepagesAdvisoryOnly ==
    Responses("validate") =>
        LET rep == response.report
            req == response.request
            cpuFits == /\ req.reserved_cpu_count # None
                       /\ (IF req.isolated_cpu_count = None
                           THEN response.summary.cpus_per_node - req.reserved_cpu_count
                           ELSE req.isolated_cpu_count) + req.reserved_cpu_count
                          <= response.summary.cpus_per_node
        IN  /\ rep.is_valid = cpuFits
            /\ "InvalidHugepageSize" \notin Tags(rep.errors)
            /\ ~rep.hugepages_valid => "InvalidHugepageSize" \in Tags(rep.warnings)

(***************************************************************************)
(* Refinement: the two cache globals, read as one snapshot, implement the  *)
(* abstract cache of CacheSpec.tla.                                        *)
(***************************************************************************)
CacheSnapshot ==
    IF mustGatherPath = None THEN None
    ELSE [bundle |-> mustGatherPath, summary |-> mustGatherData]

Cache == INSTANCE CacheSpec WITH snapshot <- CacheSnapshot

\* Every behaviour of the server is a behaviour of the abstract cache: the
\* pair (_must_gather_data, _must_gather_path) starts empty and changes
\* only when analyze_cluster_hardware parses an existing bundle, to that
\* bundle and one of its summaries; a failed analysis, validation,
\* generation and profile creation leave it as it was.
CacheRefinement == Cache!Spec

\* The generate_ppc_command arguments of an agent that follows a
\* recommendation: the recommended workload type and settings, and the
\* tool's defaults for every other argument.
FollowRecommendation(rec) ==
    LET opt(k, default) == IF k \in DOMAIN rec.recommended_settings
                           THEN rec.recommended_settings[k] ELSE default
    IN  [workload_type |-> rec.workload_type, mcp_name |-> "worker-cnf",
         profile_name |-> "performance", isolated_cpu_count |-> None,
         reserved_cpu_count |-> None,
         enable_rt_kernel |-> opt("enable_rt_kernel", FALSE), disable_ht |-> FALSE,
         enable_dpdk |-> opt("enable_dpdk", FALSE),
         power_mode |-> opt("power_mode", "default"),
         topology_policy |-> opt("topology_policy", "restricted"),
         split_reserved_across_numa |-> FALSE,
         per_pod_power_management |-> opt("per_pod_power_management", FALSE)]

\* get_workload_recommendations and generate_ppc_command agree: when an
\* agent passes a recommendation to generate_ppc_command on the cached
\* hardware, every recommended setting survives into the resolved
\* parameters, none undone by _adjust_parameters' conflict repairs.  This
\* rests on the order of the keyword blocks (power efficiency after real
\* time) as much as on the repairs.
RecommendationHonoured ==
    Responses("recommend") /\ mustGatherData # None =>
        LET rec == response.recommendations
            req == FollowRecommendation(rec)
            p == GenerateParameters(req.workload_type, req.mcp_name, req.profile_name,
                                    req, mustGatherData)
        IN  \A k \in DOMAIN rec.recommended_settings : p[k] = rec.recommended_settings[k]

(***************************************************************************)
(* Statements of the spec and of the tool descriptions that the code does  *)
(* not meet; each is checked by a run expected to find a violation.        *)
(***************************************************************************)
\* Spec section 6: the execution collaborator persists the generated
\* profile to the caller-specified file path.  A create_performance_profile
\* call, whether it succeeds, fails or times out, writes no file other
\* than its output_path.
CreateWritesOnlyOutputPath ==
    [][ response' # None /\ response'.tool = "create" =>
          \A f \in Paths \ {response'.output_path} : files'[f] = files[f] ]_vars

\* Spec section 8: a reserved count of at least the node's CPUs with no
\* isolated count is always reported invalid.
OverAllocationRejected ==
    Responses("validate") =>
        LET req == response.request IN
        (/\ req.reserved_cpu_count # None
         /\ req.isolated_cpu_count = None
         /\ req.reserved_cpu_count >= response.summary.cpus_per_node)
        => ~response.report.is_valid

\* Spec section 4.3: generation is seeded from the workload's template, so a
\* catalog workload called with no explicit option gets the template's
\* real-time kernel setting.
TemplateDefaultsApplied ==
    Responses("generate") =>
        LET req == response.request IN
        (HasTemplate(req.workload_type) /\ ~req.enable_rt_kernel)
        => response.params.enable_rt_kernel = DefaultConfig(req.workload_type).enable_rt_kernel

\* Spec section 4.3: the heuristic reserves max(4, round(cpus * 0.1)) for
\* the database and default workloads (Python's round: half to even).
RoundTenth(c) == IF c % 10 = 5 THEN c \div 10 + ((c \div 10) % 2) ELSE (c + 5) \div 10
SpecReservedCpus(w, s) ==
    LET reserved == IF w \in {"5g-ran", "telco-vnf", "ai-inference"}
                    THEN Max2(2, s.numa_nodes_per_node * 2)
                    ELSE Max2(4, RoundTenth(s.cpus_per_node))
    IN  IF s.cpus_per_node = 0 THEN 4 ELSE Max2(2, Min2(reserved, s.cpus_per_node \div 4))
ReservedHeuristicAsSpecified ==
    Responses("generate") /\ response.request.reserved_cpu_count = None =>
        response.params.reserved_cpu_count
            = SpecReservedCpus(response.request.workload_type, response.summary)

\* The tool's docstring (mcp_server.py:287): isolated_cpu_count is the
\* number of CPUs to isolate.  The command has no isolated-CPU flag: the
\* profile isolates every CPU it does not reserve, the count the
\* explanation states (ppc_generator.py:230).  A requested isolated count
\* is honoured when the command's reservation leaves exactly that many.
IsolatedCountHonoured ==
    LET req == response.request IN
    Responses("generate") /\ req.isolated_cpu_count # None =>
        req.isolated_cpu_count
            = response.summary.cpus_per_node - ArgOf(response.command, "--reserved-cpu-count")

\* Spec section 8: a reserved count of at least the node's CPUs (with no
\* isolated count) is infeasible.  The reservation generate_ppc_command
\* computes itself must therefore leave the node at least one CPU to
\* isolate.  A node of unknown capacity (0 CPUs) is left out: there the
\* spec itself prescribes 4.
HeuristicReservationFits ==
    /\ Responses("generate")
    /\ response.request.reserved_cpu_count = None
    /\ response.summary.cpus_per_node > 0
    =>
        response.params.reserved_cpu_count < response.summary.cpus_per_node

\* Spec section 4.1: when both a hugepage size and a hugepage count are
\* given, the report states the memory they reserve; only an absent count
\* draws the request to specify one.
HugepageCountHonoured ==
    Responses("validate") =>
        LET req == response.request IN
        req.hugepages_size # None /\ req.hugepages_count # None =>
            "HugepagesReserveKiB" \in Tags(response.report.recommendations)

\* get_workload_recommendations' docstring: the recommendation is based on
\* "keywords in the workload description".  A workload type is recommended
\* only when one of its keywords is a word, or a phrase, of the
\* description, and not a fragment of some other word.
IsWordOf(kw, text) == Occurs(" " \o kw \o " ", " " \o text \o " ")
TypeKeywords(w) ==
    CASE w = "5g-ran" -> RanKeywords
      [] w = "database" -> DatabaseKeywords
      [] w = "ai-inference" -> AiKeywords
      [] w = "telco-vnf" -> TelcoKeywords
RecommendedForKeywordWord ==
    Responses("recommend") /\ response.recommendations.workload_type # "custom" =>
        \E kw \in TypeKeywords(response.recommendations.workload_type) :
            IsWordOf(kw, response.description)

\* create_performance_profile's description: a successful call leaves the
\* generated profile at output_path.
ProfileWrittenOnSuccess ==
    Responses("create") =>
        files[response.output_path] = ProfileOf(response.command)

=============================================================================
