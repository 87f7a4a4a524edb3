----------------------------- MODULE Hardware -----------------------------
(***************************************************************************)
(* The hardware summary that MustGatherParser.analyze_hardware derives     *)
(* from a must-gather bundle (must_gather_parser.py), as far as the        *)
(* validator and the generator read it.  A bundle is the set of Node       *)
(* objects its YAML files hold; the reading of the files is not modelled. *)
(***************************************************************************)
EXTENDS Integers

\* Python's None: an absent optional argument or dictionary entry.
CONSTANT None

\* Architecture names a node's status.nodeInfo.architecture reports.
Architectures == {"amd64", "x86_64", "arm64", "aarch64", "s390x", "unknown"}
Roles == {"worker", "master", "control-plane"}

\* What _extract_node_info keeps of a node: roles from the node-role
\* labels, the CPU capacity (0 when not a digit string), the architecture.
Nodes == [roles : SUBSET Roles, capacity : Nat, architecture : Architectures]

\* The summary fields read downstream.  architecture is element [0] of
\* list(set(...)), whose order depends on string hashing.
Summaries ==
    [cpus_per_node : Nat, numa_nodes_per_node : {1, 2, 4},
     hyperthreading_enabled : BOOLEAN,
     architectures : SUBSET Architectures, architecture : Architectures]

\* None is no integer, Boolean, string or summary.
ASSUME NoneAssumption == None \notin Int \cup BOOLEAN \cup STRING \cup Summaries

\* Mutant: one NUMA node per 16 CPUs.
EstimateNumaNodesPer16(cpu_count) == cpu_count \div 16

\* _estimate_numa_nodes.
EstimateNumaNodes(cpu_count) ==
    IF cpu_count >= 64 THEN 4 ELSE IF cpu_count >= 32 THEN 2 ELSE 1

\* _parse_nodes_fallback: the sample worker used when no node parses.
SampleNode == [roles |-> {"worker"}, capacity |-> 48, architecture |-> "amd64"]

\* The summaries _generate_summary can produce for a bundle: the workers
\* are the nodes without a master or control-plane role (all nodes if
\* none), the first worker in glob order gives cpus_per_node and the
\* topology, and any architecture may come first.  threads_per_core is
\* always 2, so hyperthreading_enabled is always TRUE.
SummariesOf(bundle_nodes) ==
    LET nodes == IF bundle_nodes = {} THEN {SampleNode} ELSE bundle_nodes
        workers0 == {n \in nodes : "master" \notin n.roles
                                   /\ "control-plane" \notin n.roles}
        workers == IF workers0 = {} THEN nodes ELSE workers0
        archs == {n.architecture : n \in workers}
    IN  {[cpus_per_node |-> first.capacity,
          numa_nodes_per_node |-> EstimateNumaNodes(first.capacity),
          hyperthreading_enabled |-> TRUE,
          architectures |-> archs,
          architecture |-> a] : first \in workers, a \in archs}

\* The substring tests "x86" in a or "amd64" in a, and "aarch64" in a or
\* "arm64" in a, over the architecture names above.
IsX86(a) == a \in {"amd64", "x86_64"}
IsArm(a) == a \in {"arm64", "aarch64"}

\* A helper for the conditional list appends of the code.
When(c, x) == IF c THEN <<x>> ELSE <<>>

=============================================================================
