--------------------------- MODULE ServerProofs ---------------------------
(***************************************************************************)
(* Theorems about the hardware cache of mcp_server.py, for every set of    *)
(* bundles, every bundle content and every set of tool arguments.          *)
(***************************************************************************)
EXTENDS Server, GeneratorProofs, SequenceTheorems, TLAPS

\* Every summary _generate_summary can produce for a bundle of well-formed
\* nodes (or for an empty bundle, via the sample node) is a summary.
LEMMA SummariesOfTyped ==
    ASSUME NEW ns, ns \subseteq Nodes
    PROVE  SummariesOf(ns) \subseteq Summaries
  <1> SUFFICES ASSUME NEW s \in SummariesOf(ns) PROVE s \in Summaries
    OBVIOUS
  <1> DEFINE nodes == IF ns = {} THEN {SampleNode} ELSE ns
             workers0 == {n \in nodes : "master" \notin n.roles
                                        /\ "control-plane" \notin n.roles}
             workers == IF workers0 = {} THEN nodes ELSE workers0
             archs == {n.architecture : n \in workers}
  <1>1. workers \subseteq Nodes
    BY DEF SampleNode, Nodes, Roles, Architectures
  <1>2. PICK first \in workers, a \in archs :
           s = [cpus_per_node |-> first.capacity,
                numa_nodes_per_node |-> EstimateNumaNodes(first.capacity),
                hyperthreading_enabled |-> TRUE,
                architectures |-> archs,
                architecture |-> a]
    BY DEF SummariesOf
  <1>3. first.capacity \in Nat
    BY <1>1 DEF Nodes
  <1>4. EstimateNumaNodes(first.capacity) \in {1, 2, 4}
    BY DEF EstimateNumaNodes
  <1>5. archs \subseteq Architectures
    BY <1>1 DEF Nodes
  <1>6. QED
    BY <1>2, <1>3, <1>4, <1>5 DEF Summaries

\* Every seed generate_parameters can start from is a configuration.
LEMMA SeedTyped ==
    ASSUME NEW w
    PROVE  (IF HasTemplate(w) THEN DefaultConfig(w) ELSE BaseDefaults) \in Configs
  <1>1. CASE HasTemplate(w)
    BY <1>1 DEF HasTemplate, TemplateNames, DefaultConfig, Config, Configs,
                PowerModes, TopologyPolicies
  <1>2. CASE ~HasTemplate(w)
    BY <1>2 DEF BaseDefaults, Config, Configs, PowerModes, TopologyPolicies
  <1>3. QED
    BY <1>1, <1>2

\* The override loop in three groups of three keys; each group keeps a
\* parameter dictionary (one lemma each keeps the SMT obligations small).
OverrideHyps(ov) ==
    /\ ov \in GenerateRequestType
    /\ None \notin BOOLEAN
    /\ None \notin PowerModes \cup TopologyPolicies

LEMMA OverrideGroup1 ==
    ASSUME NEW q \in Params(STRING, STRING), NEW ov, OverrideHyps(ov)
    PROVE  [q EXCEPT !.enable_rt_kernel = Pick(ov.enable_rt_kernel, @),
                     !.disable_ht = Pick(ov.disable_ht, @),
                     !.enable_dpdk = Pick(ov.enable_dpdk, @)] \in Params(STRING, STRING)
  BY DEF OverrideHyps, Pick, Params, GenerateRequestType

LEMMA OverrideGroup2 ==
    ASSUME NEW q \in Params(STRING, STRING), NEW ov, OverrideHyps(ov)
    PROVE  [q EXCEPT !.power_mode = Pick(ov.power_mode, @),
                     !.topology_policy = Pick(ov.topology_policy, @),
                     !.split_reserved_across_numa = Pick(ov.split_reserved_across_numa, @)]
              \in Params(STRING, STRING)
  BY DEF OverrideHyps, Pick, Params, GenerateRequestType

LEMMA OverrideGroup3 ==
    ASSUME NEW q \in Params(STRING, STRING), NEW ov, OverrideHyps(ov)
    PROVE  [q EXCEPT !.per_pod_power_management = Pick(ov.per_pod_power_management, @),
                     !.reserved_cpu_count = Pick(ov.reserved_cpu_count, @),
                     !.isolated_cpu_count = Pick(ov.isolated_cpu_count, @)]
              \in Params(STRING, STRING)
  BY DEF OverrideHyps, Pick, Params, GenerateRequestType

\* Applying the tool's arguments as overrides keeps a parameter dictionary.
LEMMA ApplyOverridesTyped ==
    ASSUME NEW p \in Params(STRING, STRING), NEW ov \in GenerateRequestType
    PROVE  ApplyOverrides(p, ov) \in Params(STRING, STRING)
  <1>1. OverrideHyps(ov)
    BY NoneAssumption, NoneNotOption, Zenon DEF OverrideHyps
  <1> DEFINE q1 == [p EXCEPT
                       !.enable_rt_kernel = Pick(ov.enable_rt_kernel, @),
                       !.disable_ht = Pick(ov.disable_ht, @),
                       !.enable_dpdk = Pick(ov.enable_dpdk, @)]
             q2 == [q1 EXCEPT
                       !.power_mode = Pick(ov.power_mode, @),
                       !.topology_policy = Pick(ov.topology_policy, @),
                       !.split_reserved_across_numa = Pick(ov.split_reserved_across_numa, @)]
             q3 == [q2 EXCEPT
                       !.per_pod_power_management = Pick(ov.per_pod_power_management, @),
                       !.reserved_cpu_count = Pick(ov.reserved_cpu_count, @),
                       !.isolated_cpu_count = Pick(ov.isolated_cpu_count, @)]
  <1>2. q1 \in Params(STRING, STRING)
    BY <1>1, OverrideGroup1 DEF q1
  <1>3. q2 \in Params(STRING, STRING)
    BY <1>1, <1>2, OverrideGroup2 DEF q2
  <1>4. q3 \in Params(STRING, STRING)
    BY <1>1, <1>3, OverrideGroup3 DEF q3
  <1>5. ApplyOverrides(p, ov) = q3
    BY DEF ApplyOverrides, q1, q2, q3
  <1>6. QED
    BY <1>4, <1>5

\* generate_parameters, called as generate_ppc_command calls it, returns a
\* parameter dictionary whose names are strings.
LEMMA GenerateParametersTyped ==
    ASSUME NEW req \in GenerateRequestType, NEW s \in Summaries
    PROVE  LET p == GenerateParameters(req.workload_type, req.mcp_name,
                                       req.profile_name, req, s)
           IN  p \in Params(STRING, STRING) /\ ConflictFree(p, s)
  <1> DEFINE w == req.workload_type
             seed == IF HasTemplate(w) THEN DefaultConfig(w) ELSE BaseDefaults
             p0 == [enable_rt_kernel |-> seed.enable_rt_kernel,
                    disable_ht |-> seed.disable_ht,
                    enable_dpdk |-> seed.enable_dpdk,
                    power_mode |-> seed.power_mode,
                    topology_policy |-> seed.topology_policy,
                    split_reserved_across_numa |-> seed.split_reserved_across_numa,
                    per_pod_power_management |-> seed.per_pod_power_management,
                    mcp_name |-> req.mcp_name, profile_name |-> req.profile_name,
                    reserved_cpu_count |->
                        IF req.reserved_cpu_count = None
                        THEN CalculateReservedCpus(w, s)
                        ELSE req.reserved_cpu_count,
                    isolated_cpu_count |-> None]
  <1>1. seed \in Configs
    BY SeedTyped
  <1>2. CalculateReservedCpus(w, s) \in Int
    BY DEF Summaries, CalculateReservedCpus, Max2, Min2
  <1>3. p0 \in Params(STRING, STRING)
    BY <1>1, <1>2 DEF Configs, Params, GenerateRequestType
  <1>4. ApplyOverrides(p0, req) \in Params(STRING, STRING)
    BY <1>3, ApplyOverridesTyped
  <1>5. s.numa_nodes_per_node \in Int
    BY DEF Summaries
  <1>6. AdjustParameters(ApplyOverrides(p0, req), s) \in Params(STRING, STRING)
    BY <1>4, <1>5, RepairsKeepType DEF AdjustParameters
  <1>7. ConflictFree(AdjustParameters(ApplyOverrides(p0, req), s), s)
    BY <1>4, <1>5, AdjustResolvesConflicts
  <1>8. QED
    BY <1>6, <1>7 DEF GenerateParameters

\* The well-typed command arguments, as a set.
CmdArgs ==
    {a \in [flag : CommandFlags, arg : Bundles \cup Int \cup STRING \cup {"true", "false"}
                                     \cup PowerModes \cup TopologyPolicies \cup {NoArg}
                                     \cup {Redirect.arg}] :
        ArgTypeOK(a)}

\* A conditional append contributes at most one argument.
LEMMA WhenTyped ==
    ASSUME NEW S, NEW c, NEW x \in S
    PROVE  When(c, x) \in Seq(S) /\ Len(When(c, x)) <= 1
  BY DEF When

\* A short enough sequence of well-typed arguments is a command.
LEMMA SeqIsCommand ==
    ASSUME NEW c \in Seq(CmdArgs), Len(c) <= CommandMaxLen
    PROVE  IsCommand(c)
  <1>1. Len(c) \in Nat /\ DOMAIN c = 1..Len(c)
    BY LenProperties, Zenon
  <1>2. Len(c) \in 0..CommandMaxLen
    <2>1. \A n \in Nat : n <= CommandMaxLen => n \in 0..CommandMaxLen
      BY DEF CommandMaxLen
    <2>2. QED
      BY <1>1, <2>1, Zenon
  <1>3. \A i \in 1..Len(c) : ArgTypeOK(c[i])
    BY DEF CmdArgs
  <1>4. QED
    BY <1>1, <1>2, <1>3 DEF IsCommand

\* build_command, for a cached bundle and a parameter dictionary whose names
\* are strings, returns a command.
LEMMA BuildCommandIsCommand ==
    ASSUME NEW b \in Bundles, NEW p \in Params(STRING, STRING)
    PROVE  IsCommand(BuildCommand(b, p))
  <1> DEFINE head == << Arg("-v", b),
                        Arg("--mcp-name", p.mcp_name),
                        Arg("--profile-name", p.profile_name),
                        Arg("--reserved-cpu-count", p.reserved_cpu_count),
                        Arg("--rt-kernel", IF p.enable_rt_kernel THEN "true" ELSE "false") >>
             w1 == When(p.disable_ht, Arg("--disable-ht", NoArg))
             w2 == When(p.enable_dpdk, Arg("--user-level-networking", NoArg))
             w3 == When(p.split_reserved_across_numa,
                        Arg("--split-reserved-cpus-across-numa", NoArg))
             w4 == When(p.per_pod_power_management, Arg("--per-pod-power-management", NoArg))
             w5 == When(p.power_mode # "default", Arg("--power-consumption-mode", p.power_mode))
             tail == << Arg("--topology-manager-policy", p.topology_policy), Redirect >>
  <1>1. head \in Seq(CmdArgs) /\ Len(head) = 5
    BY DEF head, Arg, CmdArgs, ArgTypeOK, CommandFlags, Params
  <1>2. /\ Arg("--disable-ht", NoArg) \in CmdArgs
        /\ Arg("--user-level-networking", NoArg) \in CmdArgs
        /\ Arg("--split-reserved-cpus-across-numa", NoArg) \in CmdArgs
        /\ Arg("--per-pod-power-management", NoArg) \in CmdArgs
        /\ Arg("--power-consumption-mode", p.power_mode) \in CmdArgs
    BY DEF Arg, CmdArgs, ArgTypeOK, CommandFlags, Params
  <1>3. /\ w1 \in Seq(CmdArgs) /\ Len(w1) <= 1
        /\ w2 \in Seq(CmdArgs) /\ Len(w2) <= 1
        /\ w3 \in Seq(CmdArgs) /\ Len(w3) <= 1
        /\ w4 \in Seq(CmdArgs) /\ Len(w4) <= 1
        /\ w5 \in Seq(CmdArgs) /\ Len(w5) <= 1
    BY <1>2, WhenTyped DEF w1, w2, w3, w4, w5
  <1>4. tail \in Seq(CmdArgs) /\ Len(tail) = 2
    BY DEF tail, Arg, Redirect, CmdArgs, ArgTypeOK, CommandFlags, Params
  <1>5. BuildCommand(b, p) = head \o w1 \o w2 \o w3 \o w4 \o w5 \o tail
    BY DEF BuildCommand, head, w1, w2, w3, w4, w5, tail
  <1>6. /\ head \o w1 \o w2 \o w3 \o w4 \o w5 \o tail \in Seq(CmdArgs)
        /\ Len(head \o w1 \o w2 \o w3 \o w4 \o w5 \o tail) <= CommandMaxLen
    BY <1>1, <1>3, <1>4 DEF CommandMaxLen
  <1>7. QED
    BY <1>5, <1>6, SeqIsCommand

(***************************************************************************)
(* The cached summary and the cached path always describe the same       *)
(* bundle, whatever sequence of tool calls the client makes, failed       *)
(* analyses included: analyze_cluster_hardware assigns _must_gather_data  *)
(* and _must_gather_path together, after the parse, and no other tool     *)
(* assigns either.  ConsistentSnapshot is inductive as it stands.          *)
(***************************************************************************)
THEOREM SnapshotInvariant == Spec => []ConsistentSnapshot
  <1>1. Init => ConsistentSnapshot
    BY DEF Init, ConsistentSnapshot
  <1>2. ConsistentSnapshot /\ [Next]_vars => ConsistentSnapshot'
    <2> SUFFICES ASSUME ConsistentSnapshot, [Next]_vars PROVE ConsistentSnapshot'
      OBVIOUS
    <2>1. ASSUME NEW b \in Bundles, AnalyzeOk(b) PROVE ConsistentSnapshot'
      <3>1. PICK s \in SummariesOf(BundleNodes[b]) :
                 mustGatherData' = s /\ mustGatherPath' = b
        BY <2>1 DEF AnalyzeOk
      <3>2. BundleNodes[b] # Missing
        BY <2>1 DEF AnalyzeOk
      <3>3. s \in Summaries
        BY <3>1, <3>2, BundleAssumption, SummariesOfTyped
      <3>4. s # None /\ b # None
        BY <3>3, NoneAssumption, BundleAssumption
      <3>5. QED
        BY <3>1, <3>2, <3>4 DEF ConsistentSnapshot
    <2>2. ASSUME NEW b \in Bundles, AnalyzeFail(b) PROVE ConsistentSnapshot'
      BY <2>2 DEF AnalyzeFail, ConsistentSnapshot
    <2>3. ASSUME NEW req \in ValidateRequests, ValidatePerformanceRequirements(req)
          PROVE  ConsistentSnapshot'
      BY <2>3 DEF ValidatePerformanceRequirements, ConsistentSnapshot
    <2>4. ASSUME NEW req \in GenerateRequests, GeneratePpcCommand(req)
          PROVE  ConsistentSnapshot'
      BY <2>4 DEF GeneratePpcCommand, ConsistentSnapshot
    <2>5. ASSUME NEW out \in OutputPaths, CreatePerformanceProfile(out)
          PROVE  ConsistentSnapshot'
      BY <2>5 DEF CreatePerformanceProfile, ConsistentSnapshot
    <2>6. ASSUME NEW d \in Descriptions, GetWorkloadRecommendations(d)
          PROVE  ConsistentSnapshot'
      BY <2>6 DEF GetWorkloadRecommendations, ConsistentSnapshot
    <2>7. CASE ListWorkloadTemplates \/ GetHardwareInfo
      BY <2>7 DEF ListWorkloadTemplates, GetHardwareInfo, ConsistentSnapshot
    <2>8. CASE UNCHANGED vars
      BY <2>8 DEF vars, ConsistentSnapshot
    <2>9. QED
      BY <2>1, <2>2, <2>3, <2>4, <2>5, <2>6, <2>7, <2>8 DEF Next
  <1>3. QED
    BY <1>1, <1>2, PTL DEF Spec

\* A profile file holding the output for a command is a well-typed file.
\* The server implements the abstract cache of CacheSpec.tla: read as one
\* snapshot, the two globals of mcp_server.py start empty, and every tool
\* call either leaves them alone or is a successful analysis that stores
\* an existing bundle with one of its summaries.
THEOREM CacheRefined == Spec => CacheRefinement
  <1>1. Init => Cache!Init
    BY DEF Init, Cache!Init, CacheSnapshot
  <1>2. [Next]_vars => [Cache!Next]_CacheSnapshot
    <2> SUFFICES ASSUME [Next]_vars PROVE [Cache!Next]_CacheSnapshot
      OBVIOUS
    <2>1. ASSUME NEW b \in Bundles, AnalyzeOk(b) PROVE Cache!Next
      <3>1. PICK s \in SummariesOf(BundleNodes[b]) :
                 mustGatherData' = s /\ mustGatherPath' = b
        BY <2>1 DEF AnalyzeOk
      <3>2. BundleNodes[b] # Missing
        BY <2>1 DEF AnalyzeOk
      <3>3. CacheSnapshot' = [bundle |-> b, summary |-> s]
        BY <3>1, BundleAssumption DEF CacheSnapshot
      <3>4. QED
        BY <3>2, <3>3 DEF Cache!Next, Cache!Analyze
    <2>2. ASSUME UNCHANGED <<mustGatherData, mustGatherPath>>
          PROVE  UNCHANGED CacheSnapshot
      BY <2>2 DEF CacheSnapshot
    <2>3. QED
      BY <2>1, <2>2 DEF Next, AnalyzeFail, ValidatePerformanceRequirements,
                        GeneratePpcCommand, CreatePerformanceProfile,
                        GetWorkloadRecommendations, ListWorkloadTemplates,
                        GetHardwareInfo, vars
  <1>3. QED
    BY <1>1, <1>2, PTL DEF Spec, CacheRefinement, Cache!Spec

LEMMA ProfileFileTyped ==
    ASSUME NEW cmd, IsCommand(cmd)
    PROVE  /\ DOMAIN ProfileOf(cmd) = {"profile"} /\ IsCommand(ProfileOf(cmd).profile)
           /\ \/ CaptureStdout(cmd) \in {NoFile, Empty}
              \/ DOMAIN CaptureStdout(cmd) = {"profile"}
                 /\ IsCommand(CaptureStdout(cmd).profile)
  BY DEF ProfileOf, CaptureStdout

(***************************************************************************)
(* Type correctness of the server: whatever the client calls, the cache    *)
(* holds a summary and a bundle (or nothing), the last generated command  *)
(* is a command (every flag with the values build_command can give it),  *)
(* and every file the tools or the shell write holds nothing, the empty   *)
(* string, or the profile of a command.  TypeOK is inductive as it stands.*)
(***************************************************************************)
THEOREM TypeCorrect == Spec => []TypeOK
  <1>1. Init => TypeOK
    BY DEF Init, TypeOK
  <1>2. TypeOK /\ [Next]_vars => TypeOK'
    <2> SUFFICES ASSUME TypeOK, [Next]_vars PROVE TypeOK'
      OBVIOUS
    <2>1. ASSUME NEW b \in Bundles, AnalyzeOk(b) PROVE TypeOK'
      <3>1. PICK s \in SummariesOf(BundleNodes[b]) :
                 /\ mustGatherData' = s /\ mustGatherPath' = b
                 /\ response' = [tool |-> "analyze", success |-> TRUE, bundle |-> b,
                                 summary |-> s]
        BY <2>1 DEF AnalyzeOk
      <3>2. s \in Summaries
        BY <2>1, <3>1, BundleAssumption, SummariesOfTyped DEF AnalyzeOk
      <3>3. QED
        BY <2>1, <3>1, <3>2 DEF AnalyzeOk, TypeOK
    <2>2. ASSUME NEW b \in Bundles, AnalyzeFail(b) PROVE TypeOK'
      BY <2>2 DEF AnalyzeFail, TypeOK
    <2>3. ASSUME NEW req \in ValidateRequests, ValidatePerformanceRequirements(req)
          PROVE  TypeOK'
      \* The two replies are records with different fields: each is named
      \* first, then read.
      <3>1. response'.tool = "validate" /\ response'.success \in BOOLEAN
        <4>1. CASE mustGatherData = None
          <5>1. response' = [tool |-> "validate", success |-> FALSE]
            BY <2>3, <4>1 DEF ValidatePerformanceRequirements
          <5>2. QED
            BY <5>1
        <4>2. CASE mustGatherData # None
          <5>1. response' = [tool |-> "validate", success |-> TRUE,
                             summary |-> mustGatherData, request |-> req,
                             report |-> Validate(mustGatherData, req)]
            BY <2>3, <4>2 DEF ValidatePerformanceRequirements
          <5>2. QED
            BY <5>1
        <4>3. QED
          BY <4>1, <4>2
      <3>2. UNCHANGED <<mustGatherData, mustGatherPath, lastCommand, files>>
        BY <2>3 DEF ValidatePerformanceRequirements
      <3>3. QED
        BY <3>1, <3>2 DEF TypeOK
    <2>4. ASSUME NEW req \in GenerateRequests, GeneratePpcCommand(req)
          PROVE  TypeOK'
      <3>1. CASE mustGatherData = None \/ mustGatherPath = None
        <4>1. /\ response' = [tool |-> "generate", success |-> FALSE]
              /\ UNCHANGED <<mustGatherData, mustGatherPath, lastCommand, files>>
          BY <2>4, <3>1 DEF GeneratePpcCommand
        <4>2. response'.tool = "generate" /\ response'.success \in BOOLEAN
          BY <4>1
        <4>3. QED
          BY <4>1, <4>2 DEF TypeOK
      <3>2. CASE ~(mustGatherData = None \/ mustGatherPath = None)
        <4> DEFINE params == GenerateParameters(req.workload_type, req.mcp_name,
                                                req.profile_name, req, mustGatherData)
                   cmd == BuildCommand(mustGatherPath, params)
        <4>1. mustGatherData \in Summaries /\ mustGatherPath \in Bundles
          BY <3>2 DEF TypeOK
        <4>2. params \in Params(STRING, STRING)
          BY <4>1, GenerateRequestsAssumption, GenerateParametersTyped
        <4>3. IsCommand(cmd)
          BY <4>1, <4>2, BuildCommandIsCommand
        <4>4. lastCommand' = cmd
              /\ response'.tool = "generate" /\ response'.success = TRUE
              /\ UNCHANGED <<mustGatherData, mustGatherPath, files>>
          BY <2>4, <3>2 DEF GeneratePpcCommand
        <4>5. QED
          BY <4>3, <4>4 DEF TypeOK
      <3>3. QED
        BY <3>1, <3>2
    <2>5. ASSUME NEW out \in OutputPaths, CreatePerformanceProfile(out)
          PROVE  TypeOK'
      <3>1. IsCommand(lastCommand) /\ out \in Paths /\ RedirectTarget \in Paths
        BY <2>5 DEF CreatePerformanceProfile, TypeOK, Paths
      <3>2. /\ DOMAIN ProfileOf(lastCommand) = {"profile"}
            /\ IsCommand(ProfileOf(lastCommand).profile)
            /\ \/ CaptureStdout(lastCommand) \in {NoFile, Empty}
               \/ DOMAIN CaptureStdout(lastCommand) = {"profile"}
                  /\ IsCommand(CaptureStdout(lastCommand).profile)
        BY <3>1, ProfileFileTyped
      <3>3. CASE CreateSucceeds(out)
        BY <3>1, <3>2, <3>3, <2>5 DEF CreateSucceeds, CreatePerformanceProfile, TypeOK
      <3>4. CASE CreateFails(out)
        BY <3>1, <3>2, <3>4, <2>5 DEF CreateFails, CreatePerformanceProfile, TypeOK
      <3>5. QED
        BY <2>5, <3>3, <3>4 DEF CreatePerformanceProfile
    <2>6. ASSUME NEW d \in Descriptions, GetWorkloadRecommendations(d)
          PROVE  TypeOK'
      BY <2>6 DEF GetWorkloadRecommendations, TypeOK
    <2>7. CASE ListWorkloadTemplates
      BY <2>7 DEF ListWorkloadTemplates, TypeOK
    <2>8. CASE GetHardwareInfo
      <3>1. response'.tool = "hardware_info" /\ response'.success \in BOOLEAN
        <4>1. CASE mustGatherData = None
          <5>1. response' = [tool |-> "hardware_info", success |-> FALSE]
            BY <2>8, <4>1 DEF GetHardwareInfo
          <5>2. QED
            BY <5>1
        <4>2. CASE mustGatherData # None
          <5>1. response' = [tool |-> "hardware_info", success |-> TRUE,
                             summary |-> mustGatherData]
            BY <2>8, <4>2 DEF GetHardwareInfo
          <5>2. QED
            BY <5>1
        <4>3. QED
          BY <4>1, <4>2
      <3>2. QED
        BY <2>8, <3>1 DEF GetHardwareInfo, TypeOK
    <2>9. CASE UNCHANGED vars
      BY <2>9 DEF vars, TypeOK
    <2>10. QED
      BY <2>1, <2>2, <2>3, <2>4, <2>5, <2>6, <2>7, <2>8, <2>9 DEF Next
  <1>3. QED
    BY <1>1, <1>2, PTL DEF Spec

=============================================================================
