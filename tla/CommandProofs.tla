--------------------------- MODULE CommandProofs ---------------------------
(***************************************************************************)
(* The command generate_ppc_command returns asks for no contradictory      *)
(* settings, for every bundle set and argument set: CommandFlagsConsistent *)
(* holds in every reachable state.  The argument joins two facts: the      *)
(* parameters are conflict-free after _adjust_parameters                  *)
(* (AdjustResolvesConflicts), and build_command turns each parameter into *)
(* its flag and nothing else (CommandReflectsParams).                      *)
(***************************************************************************)
EXTENDS ServerProofs, SequenceTheorems, TLAPS

\* The arguments a command holds, as a set.
Elems(c) == {c[i] : i \in DOMAIN c}

\* The arguments of a concatenation are those of its two parts.
LEMMA ElemsConcat ==
    ASSUME NEW S, NEW s \in Seq(S), NEW t \in Seq(S)
    PROVE  Elems(s \o t) = Elems(s) \cup Elems(t)
  <1>1. /\ Len(s \o t) = Len(s) + Len(t)
        /\ \A i \in 1..(Len(s) + Len(t)) :
              (s \o t)[i] = IF i <= Len(s) THEN s[i] ELSE t[i - Len(s)]
    BY ConcatProperties
  <1>2. /\ Len(s) \in Nat /\ Len(t) \in Nat
        /\ DOMAIN s = 1..Len(s) /\ DOMAIN t = 1..Len(t)
        /\ DOMAIN (s \o t) = 1..(Len(s) + Len(t))
    BY ConcatProperties, LenProperties
  <1>3. Elems(s \o t) \subseteq Elems(s) \cup Elems(t)
    BY <1>1, <1>2 DEF Elems
  <1>4. Elems(s) \subseteq Elems(s \o t)
    BY <1>1, <1>2 DEF Elems
  <1>5. Elems(t) \subseteq Elems(s \o t)
    <2> SUFFICES ASSUME NEW j \in 1..Len(t) PROVE t[j] \in Elems(s \o t)
      BY <1>2 DEF Elems
    <2>1. j + Len(s) \in 1..(Len(s) + Len(t)) /\ ~(j + Len(s) <= Len(s))
      BY <1>2
    <2>2. (s \o t)[j + Len(s)] = t[j]
      BY <1>1, <2>1
    <2>3. QED
      BY <1>2, <2>1, <2>2 DEF Elems
  <1>6. QED
    BY <1>3, <1>4, <1>5

\* A conditional append holds its argument exactly when the condition holds.
LEMMA ElemsWhen ==
    ASSUME NEW c \in BOOLEAN, NEW x
    PROVE  Elems(When(c, x)) = IF c THEN {x} ELSE {}
  BY DEF Elems, When

\* ElemsConcat for command arguments, as one fact the provers can instantiate.
LEMMA ElemsConcatCmd ==
    \A u, v \in Seq(CmdArgs) : Elems(u \o v) = Elems(u) \cup Elems(v)
  BY ElemsConcat

(***************************************************************************)
(* The arguments of build_command's result, one term per append.           *)
(***************************************************************************)
LEMMA BuildCommandElems ==
    ASSUME NEW b \in Bundles, NEW p \in Params(STRING, STRING)
    PROVE  Elems(BuildCommand(b, p)) =
              {Arg("-v", b), Arg("--mcp-name", p.mcp_name),
               Arg("--profile-name", p.profile_name),
               Arg("--reserved-cpu-count", p.reserved_cpu_count),
               Arg("--rt-kernel", IF p.enable_rt_kernel THEN "true" ELSE "false")}
              \cup (IF p.disable_ht THEN {Arg("--disable-ht", NoArg)} ELSE {})
              \cup (IF p.enable_dpdk THEN {Arg("--user-level-networking", NoArg)} ELSE {})
              \cup (IF p.split_reserved_across_numa
                    THEN {Arg("--split-reserved-cpus-across-numa", NoArg)} ELSE {})
              \cup (IF p.per_pod_power_management
                    THEN {Arg("--per-pod-power-management", NoArg)} ELSE {})
              \cup (IF p.power_mode # "default"
                    THEN {Arg("--power-consumption-mode", p.power_mode)} ELSE {})
              \cup {Arg("--topology-manager-policy", p.topology_policy), Redirect}
  <1> DEFINE head == << Arg("-v", b),
                        Arg("--mcp-name", p.mcp_name),
                        Arg("--profile-name", p.profile_name),
                        Arg("--reserved-cpu-count", p.reserved_cpu_count),
                        Arg("--rt-kernel", IF p.enable_rt_kernel THEN "true" ELSE "false") >>
             w1 == When(p.disable_ht, Arg("--disable-ht", NoArg))
             w2 == When(p.enable_dpdk, Arg("--user-level-networking", NoArg))
             w3 == When(p.split_reserved_across_numa,
                        Arg("--split-reserved-cpus-across-numa", NoArg))
             w4 == When(p.per_pod_power_management, Arg("--per-pod-power-management", NoArg))
             w5 == When(p.power_mode # "default", Arg("--power-consumption-mode", p.power_mode))
             tail == << Arg("--topology-manager-policy", p.topology_policy), Redirect >>
  <1>1. head \in Seq(CmdArgs) /\ tail \in Seq(CmdArgs)
    BY DEF head, tail, Arg, Redirect, CmdArgs, ArgTypeOK, CommandFlags, Params
  <1>2. /\ Arg("--disable-ht", NoArg) \in CmdArgs
        /\ Arg("--user-level-networking", NoArg) \in CmdArgs
        /\ Arg("--split-reserved-cpus-across-numa", NoArg) \in CmdArgs
        /\ Arg("--per-pod-power-management", NoArg) \in CmdArgs
        /\ Arg("--power-consumption-mode", p.power_mode) \in CmdArgs
    BY DEF Arg, CmdArgs, ArgTypeOK, CommandFlags, Params
  <1>3. /\ w1 \in Seq(CmdArgs) /\ w2 \in Seq(CmdArgs) /\ w3 \in Seq(CmdArgs)
        /\ w4 \in Seq(CmdArgs) /\ w5 \in Seq(CmdArgs)
    BY <1>2, WhenTyped DEF w1, w2, w3, w4, w5
  <1>4. /\ Elems(head) = {Arg("-v", b), Arg("--mcp-name", p.mcp_name),
                          Arg("--profile-name", p.profile_name),
                          Arg("--reserved-cpu-count", p.reserved_cpu_count),
                          Arg("--rt-kernel", IF p.enable_rt_kernel THEN "true" ELSE "false")}
        /\ Elems(tail) = {Arg("--topology-manager-policy", p.topology_policy), Redirect}
    BY DEF head, tail, Elems
  <1>5. /\ Elems(w1) = IF p.disable_ht THEN {Arg("--disable-ht", NoArg)} ELSE {}
        /\ Elems(w2) = IF p.enable_dpdk THEN {Arg("--user-level-networking", NoArg)} ELSE {}
        /\ Elems(w3) = IF p.split_reserved_across_numa
                       THEN {Arg("--split-reserved-cpus-across-numa", NoArg)} ELSE {}
        /\ Elems(w4) = IF p.per_pod_power_management
                       THEN {Arg("--per-pod-power-management", NoArg)} ELSE {}
        /\ Elems(w5) = IF p.power_mode # "default"
                       THEN {Arg("--power-consumption-mode", p.power_mode)} ELSE {}
    BY ElemsWhen DEF w1, w2, w3, w4, w5, Params
  <1>6. Elems(head \o w1 \o w2 \o w3 \o w4 \o w5 \o tail)
          = Elems(head) \cup Elems(w1) \cup Elems(w2) \cup Elems(w3)
            \cup Elems(w4) \cup Elems(w5) \cup Elems(tail)
    <2> DEFINE c1 == head \o w1
               c2 == c1 \o w2
               c3 == c2 \o w3
               c4 == c3 \o w4
               c5 == c4 \o w5
    <2>1. c1 \in Seq(CmdArgs) /\ Elems(c1) = Elems(head) \cup Elems(w1)
      <3>1. head \in Seq(CmdArgs) /\ w1 \in Seq(CmdArgs)
        BY <1>1, <1>3
      <3>2. c1 \in Seq(CmdArgs)
        BY <3>1, ConcatProperties DEF c1
      <3>3. Elems(head \o w1) = Elems(head) \cup Elems(w1)
        BY <3>1, ElemsConcatCmd, Zenon
      <3>4. QED
        BY <3>2, <3>3 DEF c1
    <2>2. c2 \in Seq(CmdArgs) /\ Elems(c2) = Elems(c1) \cup Elems(w2)
      <3>1. c1 \in Seq(CmdArgs) /\ w2 \in Seq(CmdArgs)
        BY <2>1, <1>3
      <3>2. c2 \in Seq(CmdArgs)
        BY <3>1, ConcatProperties DEF c2
      <3>3. Elems(c1 \o w2) = Elems(c1) \cup Elems(w2)
        BY <3>1, ElemsConcatCmd, Zenon
      <3>4. QED
        BY <3>2, <3>3 DEF c2
    <2>3. c3 \in Seq(CmdArgs) /\ Elems(c3) = Elems(c2) \cup Elems(w3)
      <3>1. c2 \in Seq(CmdArgs) /\ w3 \in Seq(CmdArgs)
        BY <2>2, <1>3
      <3>2. c3 \in Seq(CmdArgs)
        BY <3>1, ConcatProperties DEF c3
      <3>3. Elems(c2 \o w3) = Elems(c2) \cup Elems(w3)
        BY <3>1, ElemsConcatCmd, Zenon
      <3>4. QED
        BY <3>2, <3>3 DEF c3
    <2>4. c4 \in Seq(CmdArgs) /\ Elems(c4) = Elems(c3) \cup Elems(w4)
      <3>1. c3 \in Seq(CmdArgs) /\ w4 \in Seq(CmdArgs)
        BY <2>3, <1>3
      <3>2. c4 \in Seq(CmdArgs)
        BY <3>1, ConcatProperties DEF c4
      <3>3. Elems(c3 \o w4) = Elems(c3) \cup Elems(w4)
        BY <3>1, ElemsConcatCmd, Zenon
      <3>4. QED
        BY <3>2, <3>3 DEF c4
    <2>5. c5 \in Seq(CmdArgs) /\ Elems(c5) = Elems(c4) \cup Elems(w5)
      <3>1. c4 \in Seq(CmdArgs) /\ w5 \in Seq(CmdArgs)
        BY <2>4, <1>3
      <3>2. c5 \in Seq(CmdArgs)
        BY <3>1, ConcatProperties DEF c5
      <3>3. Elems(c4 \o w5) = Elems(c4) \cup Elems(w5)
        BY <3>1, ElemsConcatCmd, Zenon
      <3>4. QED
        BY <3>2, <3>3 DEF c5
    <2>6. Elems(c5 \o tail) = Elems(c5) \cup Elems(tail)
      <3>1. c5 \in Seq(CmdArgs) /\ tail \in Seq(CmdArgs)
        BY <2>5, <1>1
      <3>2. QED
        BY <3>1, ElemsConcatCmd, Zenon
    <2>7. QED
      BY <2>1, <2>2, <2>3, <2>4, <2>5, <2>6 DEF c1, c2, c3, c4, c5
  <1>7. BuildCommand(b, p) = head \o w1 \o w2 \o w3 \o w4 \o w5 \o tail
    BY DEF BuildCommand, head, w1, w2, w3, w4, w5, tail
  <1>8. Elems(BuildCommand(b, p)) = Elems(head \o w1 \o w2 \o w3 \o w4 \o w5 \o tail)
    BY <1>7
  <1>9. QED
    BY <1>4, <1>5, <1>6, <1>8

(***************************************************************************)
(* build_command emits a bare flag exactly when its option is set, and the *)
(* topology policy and the reserved count given in the parameters.        *)
(***************************************************************************)
LEMMA CommandReflectsParams ==
    ASSUME NEW b \in Bundles, NEW p \in Params(STRING, STRING)
    PROVE  LET cmd == BuildCommand(b, p) IN
           /\ "--per-pod-power-management" \in Flags(cmd) <=> p.per_pod_power_management
           /\ "--power-consumption-mode" \in Flags(cmd) <=> p.power_mode # "default"
           /\ "--user-level-networking" \in Flags(cmd) <=> p.enable_dpdk
           /\ "--split-reserved-cpus-across-numa" \in Flags(cmd)
                 <=> p.split_reserved_across_numa
           /\ ArgOf(cmd, "--topology-manager-policy") = p.topology_policy
           /\ ArgOf(cmd, "--reserved-cpu-count") = p.reserved_cpu_count
  <1> DEFINE cmd == BuildCommand(b, p)
  <1>1. Flags(cmd) = {e.flag : e \in Elems(cmd)}
    BY DEF Flags, Elems
  \* Every argument is one of the fixed ones or an optional one whose condition holds.
  <1>2. ASSUME NEW e \in Elems(cmd)
        PROVE  \/ e.flag \in {"-v", "--mcp-name", "--profile-name", "--reserved-cpu-count",
                              "--rt-kernel", "--topology-manager-policy", ">"}
               \/ p.disable_ht /\ e.flag = "--disable-ht"
               \/ p.enable_dpdk /\ e.flag = "--user-level-networking"
               \/ p.split_reserved_across_numa /\ e.flag = "--split-reserved-cpus-across-numa"
               \/ p.per_pod_power_management /\ e.flag = "--per-pod-power-management"
               \/ p.power_mode # "default" /\ e.flag = "--power-consumption-mode"
    <2>1. e \in {Arg("-v", b), Arg("--mcp-name", p.mcp_name),
                 Arg("--profile-name", p.profile_name),
                 Arg("--reserved-cpu-count", p.reserved_cpu_count),
                 Arg("--rt-kernel", IF p.enable_rt_kernel THEN "true" ELSE "false")}
                 \cup (IF p.disable_ht THEN {Arg("--disable-ht", NoArg)} ELSE {})
                 \cup (IF p.enable_dpdk THEN {Arg("--user-level-networking", NoArg)} ELSE {})
                 \cup (IF p.split_reserved_across_numa
                       THEN {Arg("--split-reserved-cpus-across-numa", NoArg)} ELSE {})
                 \cup (IF p.per_pod_power_management
                       THEN {Arg("--per-pod-power-management", NoArg)} ELSE {})
                 \cup (IF p.power_mode # "default"
                       THEN {Arg("--power-consumption-mode", p.power_mode)} ELSE {})
                 \cup {Arg("--topology-manager-policy", p.topology_policy), Redirect}
      BY BuildCommandElems
    <2>2. QED
      BY <2>1 DEF Arg, Redirect
  \* An optional flag is in the command exactly when its condition holds.
  <1>3. ASSUME NEW f, NEW c \in BOOLEAN, NEW v,
               c => Arg(f, v) \in Elems(cmd),
               \A e \in Elems(cmd) : e.flag = f => c
        PROVE  f \in Flags(cmd) <=> c
    BY <1>1, <1>3 DEF Arg
  <1>4. /\ "--per-pod-power-management" \in Flags(cmd) <=> p.per_pod_power_management
        /\ "--power-consumption-mode" \in Flags(cmd) <=> p.power_mode # "default"
        /\ "--user-level-networking" \in Flags(cmd) <=> p.enable_dpdk
        /\ "--split-reserved-cpus-across-numa" \in Flags(cmd)
              <=> p.split_reserved_across_numa
    <2>1. /\ p.per_pod_power_management => Arg("--per-pod-power-management", NoArg) \in Elems(cmd)
          /\ p.power_mode # "default"
                => Arg("--power-consumption-mode", p.power_mode) \in Elems(cmd)
          /\ p.enable_dpdk => Arg("--user-level-networking", NoArg) \in Elems(cmd)
          /\ p.split_reserved_across_numa
                => Arg("--split-reserved-cpus-across-numa", NoArg) \in Elems(cmd)
      BY BuildCommandElems
    <2>2. /\ \A e \in Elems(cmd) : e.flag = "--per-pod-power-management" => p.per_pod_power_management
          /\ \A e \in Elems(cmd) : e.flag = "--power-consumption-mode" => p.power_mode # "default"
          /\ \A e \in Elems(cmd) : e.flag = "--user-level-networking" => p.enable_dpdk
          /\ \A e \in Elems(cmd) : e.flag = "--split-reserved-cpus-across-numa"
                => p.split_reserved_across_numa
      BY <1>2
    <2>3. /\ p.per_pod_power_management \in BOOLEAN /\ p.enable_dpdk \in BOOLEAN
          /\ p.split_reserved_across_numa \in BOOLEAN
      BY DEF Params
    <2>4. QED
      BY <2>1, <2>2, <2>3, <1>3
  \* The one argument of a valued flag: whichever index CHOOSE picks holds it.
  <1>5. ASSUME NEW f \in {"--topology-manager-policy", "--reserved-cpu-count"},
               NEW v,
               Arg(f, v) \in Elems(cmd),
               \A e \in Elems(cmd) : e.flag = f => e = Arg(f, v)
        PROVE  ArgOf(cmd, f) = v
    <2>1. \E i \in DOMAIN cmd : cmd[i].flag = f
      BY <1>5 DEF Elems, Arg
    <2>2. PICK i \in DOMAIN cmd : i = CHOOSE j \in DOMAIN cmd : cmd[j].flag = f
      BY <2>1
    <2>3. cmd[i].flag = f /\ cmd[i] \in Elems(cmd)
      BY <2>1, <2>2 DEF Elems
    <2>4. QED
      BY <1>5, <2>2, <2>3 DEF ArgOf, Arg
  <1>6. ArgOf(cmd, "--topology-manager-policy") = p.topology_policy
    <2>1. /\ Arg("--topology-manager-policy", p.topology_policy) \in Elems(cmd)
          /\ \A e \in Elems(cmd) : e.flag = "--topology-manager-policy"
                => e = Arg("--topology-manager-policy", p.topology_policy)
      BY BuildCommandElems DEF Arg, Redirect
    <2>2. QED
      BY <2>1, <1>5
  <1>7. ArgOf(cmd, "--reserved-cpu-count") = p.reserved_cpu_count
    <2>1. /\ Arg("--reserved-cpu-count", p.reserved_cpu_count) \in Elems(cmd)
          /\ \A e \in Elems(cmd) : e.flag = "--reserved-cpu-count"
                => e = Arg("--reserved-cpu-count", p.reserved_cpu_count)
      BY BuildCommandElems DEF Arg, Redirect
    <2>2. QED
      BY <2>1, <1>5
  <1>8. QED
    BY <1>4, <1>6, <1>7


(***************************************************************************)
(* CommandFlagsConsistent holds in every reachable state: the command      *)
(* generate_ppc_command returns never asks for per-pod power management   *)
(* together with a power-consumption mode, asks for DPDK only with a      *)
(* NUMA-aligned topology policy, and splits a reservation that spans the  *)
(* NUMA nodes.  Only a successful generate reply is constrained, and its  *)
(* command is build_command of the adjusted parameters.                   *)
(***************************************************************************)
THEOREM CommandFlagsInvariant == Spec => []CommandFlagsConsistent
  <1>1. Init => CommandFlagsConsistent
    BY DEF Init, CommandFlagsConsistent, Responses
  <1>2. CommandFlagsConsistent /\ TypeOK /\ [Next]_vars => CommandFlagsConsistent'
    <2> SUFFICES ASSUME CommandFlagsConsistent, TypeOK, [Next]_vars
                 PROVE  CommandFlagsConsistent'
      OBVIOUS
    \* Every other reply names another tool, or reports a failure.
    <2>1. ASSUME response'.tool # "generate" PROVE CommandFlagsConsistent'
      BY <2>1 DEF CommandFlagsConsistent, Responses
    <2>2. ASSUME NEW b \in Bundles, AnalyzeOk(b) PROVE CommandFlagsConsistent'
      <3>1. response'.tool = "analyze"
        BY <2>2 DEF AnalyzeOk
      <3>2. QED
        BY <3>1, <2>1
    <2>3. ASSUME NEW b \in Bundles, AnalyzeFail(b) PROVE CommandFlagsConsistent'
      BY <2>3, <2>1 DEF AnalyzeFail
    <2>4. ASSUME NEW req \in ValidateRequests, ValidatePerformanceRequirements(req)
          PROVE  CommandFlagsConsistent'
      <3>1. response'.tool = "validate"
        <4>1. CASE mustGatherData = None
          BY <2>4, <4>1 DEF ValidatePerformanceRequirements
        <4>2. CASE mustGatherData # None
          BY <2>4, <4>2 DEF ValidatePerformanceRequirements
        <4>3. QED
          BY <4>1, <4>2
      <3>2. QED
        BY <3>1, <2>1
    <2>5. ASSUME NEW req \in GenerateRequests, GeneratePpcCommand(req)
          PROVE  CommandFlagsConsistent'
      <3>1. CASE mustGatherData = None \/ mustGatherPath = None
        <4>1. response' = [tool |-> "generate", success |-> FALSE]
          BY <2>5, <3>1 DEF GeneratePpcCommand
        <4>2. QED
          BY <4>1 DEF CommandFlagsConsistent, Responses
      <3>2. CASE ~(mustGatherData = None \/ mustGatherPath = None)
        <4> DEFINE s == mustGatherData
                   params == GenerateParameters(req.workload_type, req.mcp_name,
                                                req.profile_name, req, s)
                   cmd == BuildCommand(mustGatherPath, params)
        <4>1. s \in Summaries /\ mustGatherPath \in Bundles
          BY <3>2 DEF TypeOK
        <4>2. params \in Params(STRING, STRING) /\ ConflictFree(params, s)
          BY <4>1, GenerateRequestsAssumption, GenerateParametersTyped
        <4>3. /\ "--per-pod-power-management" \in Flags(cmd) <=> params.per_pod_power_management
              /\ "--power-consumption-mode" \in Flags(cmd) <=> params.power_mode # "default"
              /\ "--user-level-networking" \in Flags(cmd) <=> params.enable_dpdk
              /\ "--split-reserved-cpus-across-numa" \in Flags(cmd)
                    <=> params.split_reserved_across_numa
              /\ ArgOf(cmd, "--topology-manager-policy") = params.topology_policy
              /\ ArgOf(cmd, "--reserved-cpu-count") = params.reserved_cpu_count
          BY <4>1, <4>2, CommandReflectsParams
        <4>4. response'.command = cmd /\ response'.summary = s
          BY <2>5, <3>2 DEF GeneratePpcCommand
        <4>5. s.numa_nodes_per_node \in Int /\ params.reserved_cpu_count \in Int
          BY <4>1, <4>2 DEF Summaries, Params
        <4>6. QED
          BY <4>2, <4>3, <4>4, <4>5 DEF CommandFlagsConsistent, ConflictFree
      <3>3. QED
        BY <3>1, <3>2
    <2>6. ASSUME NEW out \in OutputPaths, CreatePerformanceProfile(out)
          PROVE  CommandFlagsConsistent'
      <3>1. response'.tool = "create"
        BY <2>6 DEF CreatePerformanceProfile, CreateSucceeds, CreateFails
      <3>2. QED
        BY <3>1, <2>1
    <2>7. ASSUME NEW d \in Descriptions, GetWorkloadRecommendations(d)
          PROVE  CommandFlagsConsistent'
      BY <2>7, <2>1 DEF GetWorkloadRecommendations
    <2>8. CASE ListWorkloadTemplates
      BY <2>8, <2>1 DEF ListWorkloadTemplates
    <2>9. CASE GetHardwareInfo
      <3>1. response'.tool = "hardware_info"
        <4>1. CASE mustGatherData = None
          BY <2>9, <4>1 DEF GetHardwareInfo
        <4>2. CASE mustGatherData # None
          BY <2>9, <4>2 DEF GetHardwareInfo
        <4>3. QED
          BY <4>1, <4>2
      <3>2. QED
        BY <3>1, <2>1
    <2>10. CASE UNCHANGED vars
      BY <2>10 DEF vars, CommandFlagsConsistent, Responses
    <2>11. QED
      BY <2>2, <2>3, <2>4, <2>5, <2>6, <2>7, <2>8, <2>9, <2>10 DEF Next
  <1>3. QED
    BY <1>1, <1>2, TypeCorrect, PTL DEF Spec

=============================================================================
