----------------------------- MODULE Generator -----------------------------
(***************************************************************************)
(* PPCCommandGenerator of ppc_generator.py: the parameter synthesis        *)
(* (generate_parameters with its reserved-CPU heuristic and conflict       *)
(* resolution) and the rendering of the PPC command (build_command).      *)
(* Pure operators; Server.tla calls them from the generate_ppc_command     *)
(* tool.  A hardware summary s is a record with the fields the generator   *)
(* reads: cpus_per_node and numa_nodes_per_node.                           *)
(***************************************************************************)
EXTENDS Integers, Sequences, Templates, Hardware

\* None is none of the string options either.
ASSUME NoneNotOption == None \notin PowerModes \cup TopologyPolicies

Max2(a, b) == IF a >= b THEN a ELSE b
Min2(a, b) == IF a <= b THEN a ELSE b

\* The resolved parameter dictionary: the seven options, the two names,
\* reserved_cpu_count (always set) and isolated_cpu_count (None when the
\* caller gave none: the key is then absent from the Python dict).
Params(Names, Profiles) ==
    [enable_rt_kernel : BOOLEAN, disable_ht : BOOLEAN, enable_dpdk : BOOLEAN,
     power_mode : PowerModes, topology_policy : TopologyPolicies,
     split_reserved_across_numa : BOOLEAN, per_pod_power_management : BOOLEAN,
     mcp_name : Names, profile_name : Profiles,
     reserved_cpu_count : Int, isolated_cpu_count : {None} \cup Int]

\* _get_base_defaults: the seed when the workload type has no template.
BaseDefaults ==
    Config(FALSE, FALSE, FALSE, "default", "restricted", FALSE, FALSE)

\* _calculate_reserved_cpus.  int(cpus_per_node * 0.1) truncates, and for
\* cpus_per_node >= 0 equals cpus_per_node \div 10; the "database" branch
\* and the default branch compute the same value.
CalculateReservedCpus(workload_type, s) ==
    LET cpus == s.cpus_per_node
        base_reserved == Max2(2, s.numa_nodes_per_node * 2)
        reserved ==
            IF workload_type \in {"5g-ran", "telco-vnf", "ai-inference"}
            THEN base_reserved
            ELSE Max2(4, cpus \div 10)
    IN  IF cpus = 0 THEN 4 ELSE Max2(2, Min2(reserved, cpus \div 4))

\* One override: a value that is not None replaces the current one.
Pick(override, current) == IF override = None THEN current ELSE override

\* The loop over **overrides applying every non-None value.
ApplyOverrides(p, ov) ==
    [p EXCEPT
        !.enable_rt_kernel = Pick(ov.enable_rt_kernel, @),
        !.disable_ht = Pick(ov.disable_ht, @),
        !.enable_dpdk = Pick(ov.enable_dpdk, @),
        !.power_mode = Pick(ov.power_mode, @),
        !.topology_policy = Pick(ov.topology_policy, @),
        !.split_reserved_across_numa = Pick(ov.split_reserved_across_numa, @),
        !.per_pod_power_management = Pick(ov.per_pod_power_management, @),
        !.reserved_cpu_count = Pick(ov.reserved_cpu_count, @),
        !.isolated_cpu_count = Pick(ov.isolated_cpu_count, @)]

(***************************************************************************)
(* _adjust_parameters: three repairs applied in order.                     *)
(***************************************************************************)
\* Mutant: only the ultra-low-latency mode is reset.
BuggyResolvePowerConflict(p) ==
    IF p.per_pod_power_management /\ p.power_mode = "ultra-low-latency"
    THEN [p EXCEPT !.power_mode = "default"]
    ELSE p

\* Per-pod power management wins over a high power-consumption mode.
ResolvePowerConflict(p) ==
    IF p.per_pod_power_management /\ p.power_mode # "default"
    THEN [p EXCEPT !.power_mode = "default"]
    ELSE p

\* DPDK forces single-numa-node unless the policy is already aligned.
ResolveDpdkTopology(p) ==
    IF p.enable_dpdk /\ p.topology_policy \notin {"single-numa-node", "restricted"}
    THEN [p EXCEPT !.topology_policy = "single-numa-node"]
    ELSE p

\* Enough reserved CPUs on a multi-NUMA node: split them across nodes.
ResolveNumaSplit(p, s) ==
    IF /\ s.numa_nodes_per_node > 1
       /\ ~p.split_reserved_across_numa
       /\ p.reserved_cpu_count >= s.numa_nodes_per_node * 2
    THEN [p EXCEPT !.split_reserved_across_numa = TRUE]
    ELSE p

AdjustParameters(p, s) ==
    ResolveNumaSplit(ResolveDpdkTopology(ResolvePowerConflict(p)), s)

\* generate_parameters: seed from the template or the base defaults, set the
\* names, compute reserved_cpu_count unless the caller gave one (the seed
\* never holds one), apply the overrides, then repair conflicts.
GenerateParameters(workload_type, mcp_name, profile_name, ov, s) ==
    LET seed == IF HasTemplate(workload_type) THEN DefaultConfig(workload_type)
                ELSE BaseDefaults
        p0 == [enable_rt_kernel |-> seed.enable_rt_kernel,
               disable_ht |-> seed.disable_ht,
               enable_dpdk |-> seed.enable_dpdk,
               power_mode |-> seed.power_mode,
               topology_policy |-> seed.topology_policy,
               split_reserved_across_numa |-> seed.split_reserved_across_numa,
               per_pod_power_management |-> seed.per_pod_power_management,
               mcp_name |-> mcp_name, profile_name |-> profile_name,
               reserved_cpu_count |->
                   IF ov.reserved_cpu_count = None
                   THEN CalculateReservedCpus(workload_type, s)
                   ELSE ov.reserved_cpu_count,
               isolated_cpu_count |-> None]
    IN  AdjustParameters(ApplyOverrides(p0, ov), s)

(***************************************************************************)
(* build_command.  The command is the sequence of its arguments, each a    *)
(* flag and its value (NoArg for a bare flag); " \\\n  ".join is layout.  *)
(* The last element is the shell redirection "> performance-profile.yaml". *)
(***************************************************************************)
NoArg == "none"
Redirect == [flag |-> ">", arg |-> "performance-profile.yaml"]
Arg(flag, arg) == [flag |-> flag, arg |-> arg]

BuildCommand(must_gather_path, p) ==
    << Arg("-v", must_gather_path),   \* after the fixed podman/image words
       Arg("--mcp-name", p.mcp_name),
       Arg("--profile-name", p.profile_name),
       Arg("--reserved-cpu-count", p.reserved_cpu_count),
       Arg("--rt-kernel", IF p.enable_rt_kernel THEN "true" ELSE "false") >>
    \o When(p.disable_ht, Arg("--disable-ht", NoArg))
    \o When(p.enable_dpdk, Arg("--user-level-networking", NoArg))
    \o When(p.split_reserved_across_numa, Arg("--split-reserved-cpus-across-numa", NoArg))
    \o When(p.per_pod_power_management, Arg("--per-pod-power-management", NoArg))
    \o When(p.power_mode # "default", Arg("--power-consumption-mode", p.power_mode))
    \o << Arg("--topology-manager-policy", p.topology_policy), Redirect >>

(***************************************************************************)
(* explain_parameters: the explanation returned with the command, as the   *)
(* sequence of the facts it states, one tagged tuple per statement; the    *)
(* arrows, headings and wording are layout.  Isolated CPUs are stated as  *)
(* cpus_per_node - reserved whatever params holds, or as "calculated"     *)
(* for an unknown CPU count.                                               *)
(***************************************************************************)
ExplainParameters(p, s) ==
    << <<"ProfileName", p.profile_name>>, <<"Mcp", p.mcp_name>>,
       <<"Reserved", p.reserved_cpu_count>>,
       IF s.cpus_per_node > 0 THEN <<"Isolated", s.cpus_per_node - p.reserved_cpu_count>>
       ELSE <<"IsolatedCalculated">> >>
    \o When(p.disable_ht, <<"HtDisabled">>)
    \o When(p.split_reserved_across_numa, <<"NumaSplit", s.numa_nodes_per_node>>)
    \o << IF p.enable_rt_kernel THEN <<"RtEnabled">> ELSE <<"RtDisabled">> >>
    \o When(p.enable_dpdk, <<"DpdkEnabled">>)
    \o << <<"TopologyPolicy", p.topology_policy>>, <<"PowerMode", p.power_mode>> >>
    \o When(p.per_pod_power_management, <<"PerPodEnabled">>)

\* The flags of a command, and the value given to a flag.
Flags(cmd) == {cmd[i].flag : i \in DOMAIN cmd}
ArgOf(cmd, flag) == cmd[CHOOSE i \in DOMAIN cmd : cmd[i].flag = flag].arg
=============================================================================
