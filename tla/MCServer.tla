----------------------------- MODULE MCServer -----------------------------
(***************************************************************************)
(* Model-checking instance of Server.tla: four must-gather paths and small *)
(* sets of tool arguments.                                                 *)
(***************************************************************************)
EXTENDS Server

CONSTANTS b1, b2, b3, b4, b5, b6

Node(roles, capacity, arch) == [roles |-> roles, capacity |-> capacity, architecture |-> arch]

\* b1: one 16-CPU master and one 48-CPU x86 worker (2 NUMA nodes).
\* b2: mixed-architecture workers, 64-CPU arm64 and 16-CPU amd64, in no
\*     fixed order.  b3: a path that does not exist.  b4: a directory with
\*     no Node YAML, so the parser's sample worker is used.
\* b5: a two-CPU edge worker.  b6: a worker whose capacity is not a digit
\*     string, which the parser reads as 0 CPUs.
MCBundleNodes ==
    [b \in Bundles |->
        CASE b = b1 -> {Node({"master"}, 16, "amd64"), Node({"worker"}, 48, "amd64")}
          [] b = b2 -> {Node({"worker"}, 64, "arm64"), Node({"worker"}, 16, "amd64")}
          [] b = b3 -> Missing
          [] b = b4 -> {}
          [] b = b5 -> {Node({"worker"}, 2, "amd64")}
          [] b = b6 -> {Node({"worker"}, 0, "amd64")}]

\* validate_performance_requirements arguments: the tool's defaults and the
\* values around the thresholds of the CPU and hugepage checks.
ValidateArgs(Workloads, Isolated, Reserved, Rt, Dpdk, Sizes, Counts, Modes) ==
    [workload_type : Workloads, isolated_cpu_count : Isolated,
     reserved_cpu_count : Reserved, enable_rt_kernel : Rt,
     enable_dpdk : Dpdk, hugepages_size : Sizes, hugepages_count : Counts,
     power_mode : Modes]

MCValidateRequests ==
    ValidateArgs({"5g-ran", "database"}, {None, 40}, {None, 1, 4, 50}, BOOLEAN, {FALSE},
                 {None, HugepageSize(64, "K"), HugepageSize(1, "G")}, {None, 4},
                 {"low-latency"})

\* generate_ppc_command arguments.  disable_ht only becomes a flag, so it
\* is left at the tool's default.
GenerateArgs(Workloads, Isolated, Reserved, Rt, Dpdk, Modes, Policies, Split, PerPod) ==
    [workload_type : Workloads, mcp_name : {"worker-cnf"},
     profile_name : {"performance"}, isolated_cpu_count : Isolated,
     reserved_cpu_count : Reserved, enable_rt_kernel : Rt, disable_ht : {FALSE},
     enable_dpdk : Dpdk, power_mode : Modes, topology_policy : Policies,
     split_reserved_across_numa : Split, per_pod_power_management : PerPod]

MCGenerateRequests ==
    GenerateArgs({"5g-ran", "custom"}, {None}, {None, 8}, BOOLEAN, BOOLEAN,
                 {"default", "low-latency"}, {"best-effort", "restricted"},
                 BOOLEAN, BOOLEAN)

\* A 1G hugepage size with a count of 0 and of 4.
MCValidateCounts ==
    ValidateArgs({"database"}, {None}, {4}, {FALSE}, {FALSE}, {HugepageSize(1, "G")}, {0, 4},
                 {"default"})

\* Smaller argument sets for the runs about the other tool.
MCValidateFew ==
    ValidateArgs({"5g-ran"}, {None}, {4}, {FALSE}, {FALSE}, {None}, {None}, {"default"})
MCGenerateFew ==
    GenerateArgs({"5g-ran"}, {None}, {None}, {FALSE}, {FALSE}, {"default"}, {"restricted"},
                 {FALSE}, {FALSE})

\* A database workload that fixes its isolated CPUs.
MCGenerateIsolated ==
    GenerateArgs({"database"}, {40}, {None}, {FALSE}, {FALSE}, {"default"}, {"restricted"},
                 {FALSE}, {FALSE})

\* workload_description values, lower-cased: the four of the local test
\* suite, one naming all four settings classes, and two whose words
\* contain short keywords ("ran" in "guaranteed", "ai" in "containers").
MCDescriptions ==
    {"i need to run 5g ran workloads with ultra-low latency",
     "database server running postgresql with some real-time requirements",
     "ai inference using tensorflow with dpdk packet processing",
     "low latency trading system for high-frequency trading",
     "realtime packet processing with power saving and numa affinity",
     "postgres database with guaranteed transactions",
     "web frontend in containers"}
NoDescriptions == {}

MCBundles == {b1, b2, b3, b4}
MCSmallBundles == {b5, b6}

\* Generation on the small nodes with the computed reservation.
MCGenerateComputed ==
    GenerateArgs({"5g-ran", "custom"}, {None}, {None}, {FALSE}, {FALSE}, {"default"},
                 {"restricted"}, {FALSE}, {FALSE})

MCOutputPaths == {"/tmp/performance-profile.yaml"}
NoOutputPaths == {}

=============================================================================
