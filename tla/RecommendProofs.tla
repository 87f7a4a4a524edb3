-------------------------- MODULE RecommendProofs --------------------------
(***************************************************************************)
(* get_workload_recommendations and generate_ppc_command agree, for every  *)
(* description, summary, bundle set and argument set: an agent that passes *)
(* the recommended settings to generate_ppc_command gets parameters that   *)
(* keep each of them (RecommendationHonoured).  Which keywords a           *)
(* description contains is left open: the four keyword tests are any      *)
(* Booleans, so the proof covers every outcome of the substring matching.  *)
(*                                                                         *)
(* The argument: the settings dict holds only five keys, each with the     *)
(* value its block assigns, and per-pod power management always comes     *)
(* with power mode "default" because the power block runs after the       *)
(* real-time block (SettingsShape).  Every setting is then a non-None     *)
(* override, and none of the three repairs of _adjust_parameters fires on *)
(* a recommended key (FollowedSettingsKept).                               *)
(***************************************************************************)
EXTENDS ServerProofs, TLAPS

\* The keys the four settings blocks write.
SettingKeys == {"enable_rt_kernel", "power_mode", "enable_dpdk", "topology_policy",
                "per_pod_power_management"}

\* The shape of a settings dict: the five keys only, each flag TRUE, the
\* topology single-numa-node and the power mode one of the two the blocks set.
WellShaped(f) ==
    /\ DOMAIN f \subseteq SettingKeys
    /\ \A k \in DOMAIN f \ {"power_mode", "topology_policy"} : f[k] = TRUE
    /\ "topology_policy" \in DOMAIN f => f["topology_policy"] = "single-numa-node"
    /\ "power_mode" \in DOMAIN f => f["power_mode"] \in {"default", "ultra-low-latency"}

\* Per-pod power management is recommended only with power mode "default".
PerPodWithDefault(f) ==
    "per_pod_power_management" \in DOMAIN f =>
        "power_mode" \in DOMAIN f /\ f["power_mode"] = "default"

\* Setting one of the five keys to the value its block uses keeps the shape.
LEMMA PutWellShaped ==
    ASSUME NEW f, WellShaped(f), NEW k \in SettingKeys, NEW v,
           k \notin {"power_mode", "topology_policy"} => v = TRUE,
           k = "topology_policy" => v = "single-numa-node",
           k = "power_mode" => v \in {"default", "ultra-low-latency"}
    PROVE  WellShaped(Put(f, k, v))
  <1> DEFINE g == Put(f, k, v)
  <1>1. DOMAIN g = DOMAIN f \cup {k} /\ g[k] = v /\ \A x \in DOMAIN f \ {k} : g[x] = f[x]
    BY DEF Put
  <1>2. DOMAIN g \subseteq SettingKeys
    BY <1>1 DEF WellShaped
  <1>3. \A x \in DOMAIN g \ {"power_mode", "topology_policy"} : g[x] = TRUE
    BY <1>1 DEF WellShaped
  <1>4. "topology_policy" \in DOMAIN g => g["topology_policy"] = "single-numa-node"
    BY <1>1 DEF WellShaped
  <1>5. "power_mode" \in DOMAIN g => g["power_mode"] \in {"default", "ultra-low-latency"}
    BY <1>1 DEF WellShaped
  <1>6. QED
    BY <1>2, <1>3, <1>4, <1>5 DEF WellShaped

LEMMA SettingsShape ==
    ASSUME NEW text
    PROVE  LET f == RecommendedSettings(text)
           IN  WellShaped(f) /\ PerPodWithDefault(f)
  <1> DEFINE f1 == RtSettings(NoSettings, text)
             f2 == DpdkSettings(f1, text)
             f3 == PowerSettings(f2, text)
             f4 == NumaSettings(f3, text)
  <1>1. WellShaped(f1) /\ "per_pod_power_management" \notin DOMAIN f1
    <2>1. WellShaped(NoSettings) /\ DOMAIN NoSettings = {}
      BY DEF WellShaped, NoSettings
    <2>2. CASE AnyOccurs(RtKeywords, text)
      <3>1. f1 = Put(Put(NoSettings, "enable_rt_kernel", TRUE), "power_mode", "ultra-low-latency")
        BY <2>2 DEF f1, RtSettings
      <3>2. WellShaped(Put(NoSettings, "enable_rt_kernel", TRUE))
        BY <2>1, PutWellShaped DEF SettingKeys
      <3>3. WellShaped(f1)
        BY <3>1, <3>2, PutWellShaped DEF SettingKeys
      <3>4. DOMAIN f1 = {"enable_rt_kernel", "power_mode"}
        BY <2>1, <3>1 DEF Put
      <3>5. QED
        BY <3>3, <3>4
    <2>3. CASE ~AnyOccurs(RtKeywords, text)
      BY <2>1, <2>3 DEF f1, RtSettings
    <2>4. QED
      BY <2>2, <2>3
  <1>2. WellShaped(f2) /\ "per_pod_power_management" \notin DOMAIN f2
    <2>1. CASE AnyOccurs(DpdkKeywords, text)
      <3>1. f2 = Put(Put(f1, "enable_dpdk", TRUE), "topology_policy", "single-numa-node")
        BY <2>1 DEF f2, DpdkSettings
      <3>2. WellShaped(Put(f1, "enable_dpdk", TRUE))
        BY <1>1, PutWellShaped DEF SettingKeys
      <3>3. WellShaped(f2)
        BY <3>1, <3>2, PutWellShaped DEF SettingKeys
      <3>4. DOMAIN f2 = DOMAIN f1 \cup {"enable_dpdk", "topology_policy"}
        BY <3>1 DEF Put
      <3>5. QED
        BY <1>1, <3>3, <3>4
    <2>2. CASE ~AnyOccurs(DpdkKeywords, text)
      BY <1>1, <2>2 DEF f2, DpdkSettings
    <2>3. QED
      BY <2>1, <2>2
  <1>3. WellShaped(f3) /\ PerPodWithDefault(f3)
    <2>1. CASE AnyOccurs(PowerKeywords, text)
      <3>1. f3 = Put(Put(f2, "per_pod_power_management", TRUE), "power_mode", "default")
        BY <2>1 DEF f3, PowerSettings
      <3>2. WellShaped(Put(f2, "per_pod_power_management", TRUE))
        BY <1>2, PutWellShaped DEF SettingKeys
      <3>3. WellShaped(f3)
        BY <3>1, <3>2, PutWellShaped DEF SettingKeys
      <3>4. "power_mode" \in DOMAIN f3 /\ f3["power_mode"] = "default"
        BY <3>1 DEF Put
      <3>5. QED
        BY <3>3, <3>4 DEF PerPodWithDefault
    <2>2. CASE ~AnyOccurs(PowerKeywords, text)
      BY <1>2, <2>2 DEF f3, PowerSettings, PerPodWithDefault
    <2>3. QED
      BY <2>1, <2>2
  <1>4. WellShaped(f4) /\ PerPodWithDefault(f4)
    <2>1. CASE AnyOccurs(NumaKeywords, text)
      <3>1. f4 = Put(f3, "topology_policy", "single-numa-node")
        BY <2>1 DEF f4, NumaSettings
      <3>2. WellShaped(f4)
        BY <1>3, <3>1, PutWellShaped DEF SettingKeys
      <3>3. /\ DOMAIN f4 = DOMAIN f3 \cup {"topology_policy"}
            /\ \A x \in DOMAIN f3 \ {"topology_policy"} : f4[x] = f3[x]
        BY <3>1 DEF Put
      <3>4. PerPodWithDefault(f4)
        BY <1>3, <3>3 DEF PerPodWithDefault
      <3>5. QED
        BY <3>2, <3>4
    <2>2. CASE ~AnyOccurs(NumaKeywords, text)
      BY <1>3, <2>2 DEF f4, NumaSettings
    <2>3. QED
      BY <2>1, <2>2
  <1>5. QED
    BY <1>4 DEF RecommendedSettings


(***************************************************************************)
(* generate_ppc_command on the arguments FollowRecommendation builds from  *)
(* a well-shaped recommendation, on any summary: each recommended setting  *)
(* is a non-None override, so it replaces the seed's value, and no repair  *)
(* of _adjust_parameters touches it: per-pod power management comes with  *)
(* power mode "default", the recommended topology is aligned, and the NUMA *)
(* split changes only split_reserved_across_numa.                          *)
(***************************************************************************)
LEMMA FollowedSettingsKept ==
    ASSUME NEW rec, NEW s,
           WellShaped(rec.recommended_settings), PerPodWithDefault(rec.recommended_settings)
    PROVE  LET req == FollowRecommendation(rec)
               p == GenerateParameters(req.workload_type, req.mcp_name, req.profile_name,
                                       req, s)
           IN  \A k \in DOMAIN rec.recommended_settings : p[k] = rec.recommended_settings[k]
  <1> DEFINE f == rec.recommended_settings
             req == FollowRecommendation(rec)
             w == req.workload_type
             seed == IF HasTemplate(w) THEN DefaultConfig(w) ELSE BaseDefaults
             p0 == [enable_rt_kernel |-> seed.enable_rt_kernel,
                    disable_ht |-> seed.disable_ht,
                    enable_dpdk |-> seed.enable_dpdk,
                    power_mode |-> seed.power_mode,
                    topology_policy |-> seed.topology_policy,
                    split_reserved_across_numa |-> seed.split_reserved_across_numa,
                    per_pod_power_management |-> seed.per_pod_power_management,
                    mcp_name |-> req.mcp_name, profile_name |-> req.profile_name,
                    reserved_cpu_count |->
                        IF req.reserved_cpu_count = None
                        THEN CalculateReservedCpus(w, s)
                        ELSE req.reserved_cpu_count,
                    isolated_cpu_count |-> None]
             q == ApplyOverrides(p0, req)
  <1>1. GenerateParameters(w, req.mcp_name, req.profile_name, req, s)
          = ResolveNumaSplit(ResolveDpdkTopology(ResolvePowerConflict(q)), s)
    BY DEF GenerateParameters, AdjustParameters, q, p0, seed, w
  \* The five arguments the recommendation sets, with the tool's defaults.
  <1>2. /\ req.enable_rt_kernel = IF "enable_rt_kernel" \in DOMAIN f
                                  THEN f["enable_rt_kernel"] ELSE FALSE
        /\ req.enable_dpdk = IF "enable_dpdk" \in DOMAIN f THEN f["enable_dpdk"] ELSE FALSE
        /\ req.power_mode = IF "power_mode" \in DOMAIN f THEN f["power_mode"] ELSE "default"
        /\ req.topology_policy = IF "topology_policy" \in DOMAIN f
                                 THEN f["topology_policy"] ELSE "restricted"
        /\ req.per_pod_power_management = IF "per_pod_power_management" \in DOMAIN f
                                          THEN f["per_pod_power_management"] ELSE FALSE
    BY DEF req, f, FollowRecommendation
  <1>3. /\ req.enable_rt_kernel \in BOOLEAN
        /\ req.enable_dpdk \in BOOLEAN
        /\ req.per_pod_power_management \in BOOLEAN
        /\ req.power_mode \in {"default", "ultra-low-latency"}
        /\ req.topology_policy \in {"single-numa-node", "restricted"}
    BY <1>2 DEF WellShaped, f
  <1>4. /\ req.enable_rt_kernel # None /\ req.enable_dpdk # None
        /\ req.per_pod_power_management # None
        /\ req.power_mode # None /\ req.topology_policy # None
    BY <1>3, NoneAssumption, NoneNotOption DEF PowerModes, TopologyPolicies
  <1>5. /\ q.enable_rt_kernel = req.enable_rt_kernel
        /\ q.enable_dpdk = req.enable_dpdk
        /\ q.power_mode = req.power_mode
        /\ q.topology_policy = req.topology_policy
        /\ q.per_pod_power_management = req.per_pod_power_management
    BY <1>4 DEF q, p0, ApplyOverrides, Pick
  <1>6. ResolvePowerConflict(q) = q
    <2>1. q.per_pod_power_management => q.power_mode = "default"
      BY <1>2, <1>5 DEF PerPodWithDefault, f
    <2>2. QED
      BY <2>1 DEF ResolvePowerConflict
  <1>7. ResolveDpdkTopology(q) = q
    BY <1>3, <1>5 DEF ResolveDpdkTopology
  <1>8. ASSUME NEW k \in SettingKeys
        PROVE  ResolveNumaSplit(q, s)[k] = q[k]
    <2>1. k \in DOMAIN q /\ k # "split_reserved_across_numa"
      BY DEF SettingKeys, q, p0, ApplyOverrides
    <2>2. QED
      BY <2>1 DEF ResolveNumaSplit
  <1>9. ASSUME NEW k \in DOMAIN f PROVE q[k] = f[k]
    <2>1. k \in SettingKeys
      BY DEF WellShaped, f
    <2>2. CASE k = "enable_rt_kernel"
      BY <1>2, <1>5, <2>2
    <2>3. CASE k = "enable_dpdk"
      BY <1>2, <1>5, <2>3
    <2>4. CASE k = "power_mode"
      BY <1>2, <1>5, <2>4
    <2>5. CASE k = "topology_policy"
      BY <1>2, <1>5, <2>5
    <2>6. CASE k = "per_pod_power_management"
      BY <1>2, <1>5, <2>6
    <2>7. QED
      BY <2>1, <2>2, <2>3, <2>4, <2>5, <2>6 DEF SettingKeys
  <1>10. SUFFICES ASSUME NEW k \in DOMAIN f
                 PROVE  GenerateParameters(w, req.mcp_name, req.profile_name, req, s)[k] = f[k]
    BY DEF f, req, w
  <1>11. k \in SettingKeys
    BY DEF WellShaped, f
  <1>12. GenerateParameters(w, req.mcp_name, req.profile_name, req, s) = ResolveNumaSplit(q, s)
    BY <1>1, <1>6, <1>7
  <1>13. QED
    BY <1>8, <1>9, <1>11, <1>12


(***************************************************************************)
(* Whatever bundle is cached, the last get_workload_recommendations reply  *)
(* is one generate_ppc_command honours: calling it with the recommended   *)
(* workload type and settings yields parameters holding every recommended *)
(* value.  The invariant is inductive by itself: analyze_cluster_hardware  *)
(* may replace the cached summary, but it also replaces the reply, and     *)
(* FollowedSettingsKept holds for every summary.                          *)
(***************************************************************************)
THEOREM RecommendationInvariant == Spec => []RecommendationHonoured
  <1>1. Init => RecommendationHonoured
    BY DEF Init, RecommendationHonoured, Responses
  <1>2. RecommendationHonoured /\ [Next]_vars => RecommendationHonoured'
    <2> SUFFICES ASSUME RecommendationHonoured, [Next]_vars
                 PROVE  RecommendationHonoured'
      OBVIOUS
    <2>1. ASSUME response'.tool # "recommend" PROVE RecommendationHonoured'
      BY <2>1 DEF RecommendationHonoured, Responses
    <2>2. ASSUME NEW b \in Bundles, AnalyzeOk(b) PROVE RecommendationHonoured'
      <3>1. response'.tool = "analyze"
        BY <2>2 DEF AnalyzeOk
      <3>2. QED
        BY <3>1, <2>1
    <2>3. ASSUME NEW b \in Bundles, AnalyzeFail(b) PROVE RecommendationHonoured'
      BY <2>3, <2>1 DEF AnalyzeFail
    <2>4. ASSUME NEW req \in ValidateRequests, ValidatePerformanceRequirements(req)
          PROVE  RecommendationHonoured'
      <3>1. response'.tool = "validate"
        <4>1. CASE mustGatherData = None
          BY <2>4, <4>1 DEF ValidatePerformanceRequirements
        <4>2. CASE mustGatherData # None
          BY <2>4, <4>2 DEF ValidatePerformanceRequirements
        <4>3. QED
          BY <4>1, <4>2
      <3>2. QED
        BY <3>1, <2>1
    <2>5. ASSUME NEW req \in GenerateRequests, GeneratePpcCommand(req)
          PROVE  RecommendationHonoured'
      <3>1. response'.tool = "generate"
        BY <2>5 DEF GeneratePpcCommand
      <3>2. QED
        BY <3>1, <2>1
    <2>6. ASSUME NEW out \in OutputPaths, CreatePerformanceProfile(out)
          PROVE  RecommendationHonoured'
      <3>1. response'.tool = "create"
        BY <2>6 DEF CreatePerformanceProfile, CreateSucceeds, CreateFails
      <3>2. QED
        BY <3>1, <2>1
    <2>7. ASSUME NEW d \in Descriptions, GetWorkloadRecommendations(d)
          PROVE  RecommendationHonoured'
      <3> DEFINE rec == response'.recommendations
      <3>1. rec.recommended_settings = RecommendedSettings(d)
        BY <2>7 DEF GetWorkloadRecommendations, rec
      <3>2. WellShaped(rec.recommended_settings)
            /\ PerPodWithDefault(rec.recommended_settings)
        BY <3>1, SettingsShape
      <3>3. QED
        BY <3>2, FollowedSettingsKept DEF RecommendationHonoured, rec
    <2>8. CASE ListWorkloadTemplates
      BY <2>8, <2>1 DEF ListWorkloadTemplates
    <2>9. CASE GetHardwareInfo
      <3>1. response'.tool = "hardware_info"
        <4>1. CASE mustGatherData = None
          BY <2>9, <4>1 DEF GetHardwareInfo
        <4>2. CASE mustGatherData # None
          BY <2>9, <4>2 DEF GetHardwareInfo
        <4>3. QED
          BY <4>1, <4>2
      <3>2. QED
        BY <3>1, <2>1
    <2>10. CASE UNCHANGED vars
      BY <2>10 DEF vars, RecommendationHonoured, Responses
    <2>11. QED
      BY <2>2, <2>3, <2>4, <2>5, <2>6, <2>7, <2>8, <2>9, <2>10 DEF Next
  <1>3. QED
    BY <1>1, <1>2, PTL DEF Spec

=============================================================================
