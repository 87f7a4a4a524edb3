-------------------------- MODULE GeneratorProofs --------------------------
(***************************************************************************)
(* Theorems about the parameter synthesis of ppc_generator.py, for every   *)
(* parameter dictionary and every hardware summary.                        *)
(***************************************************************************)
EXTENDS Generator, TLAPS

\* The three conflicts _adjust_parameters repairs are absent from p.
ConflictFree(p, s) ==
    /\ ~(p.per_pod_power_management /\ p.power_mode # "default")
    /\ p.enable_dpdk => p.topology_policy \in {"single-numa-node", "restricted"}
    /\ (s.numa_nodes_per_node > 1 /\ p.reserved_cpu_count >= s.numa_nodes_per_node * 2)
          => p.split_reserved_across_numa

\* Each repair keeps p a parameter dictionary.
LEMMA RepairsKeepType ==
    ASSUME NEW N, NEW P, NEW p \in Params(N, P), NEW s,
           s.numa_nodes_per_node \in Int
    PROVE  /\ ResolvePowerConflict(p) \in Params(N, P)
           /\ ResolveDpdkTopology(p) \in Params(N, P)
           /\ ResolveNumaSplit(p, s) \in Params(N, P)
  BY DEF Params, ResolvePowerConflict, ResolveDpdkTopology, ResolveNumaSplit,
         PowerModes, TopologyPolicies

(***************************************************************************)
(* _adjust_parameters leaves none of the conflicts it repairs: the        *)
(* parameters behind every generated command are conflict-free.            *)
(***************************************************************************)
THEOREM AdjustResolvesConflicts ==
    ASSUME NEW N, NEW P, NEW p \in Params(N, P), NEW s,
           s.numa_nodes_per_node \in Int
    PROVE  ConflictFree(AdjustParameters(p, s), s)
  <1> DEFINE p1 == ResolvePowerConflict(p)
             p2 == ResolveDpdkTopology(p1)
             p3 == ResolveNumaSplit(p2, s)
  <1>1. p1 \in Params(N, P) /\ p2 \in Params(N, P)
    BY RepairsKeepType
  <1>2. ~(p1.per_pod_power_management /\ p1.power_mode # "default")
    BY DEF ResolvePowerConflict, Params
  <1>3. /\ p2.per_pod_power_management = p1.per_pod_power_management
        /\ p2.power_mode = p1.power_mode
        /\ p2.enable_dpdk => p2.topology_policy \in {"single-numa-node", "restricted"}
    BY <1>1 DEF ResolveDpdkTopology, Params
  <1>4. /\ p3.per_pod_power_management = p2.per_pod_power_management
        /\ p3.power_mode = p2.power_mode
        /\ p3.enable_dpdk = p2.enable_dpdk
        /\ p3.topology_policy = p2.topology_policy
        /\ p3.reserved_cpu_count = p2.reserved_cpu_count
        /\ (s.numa_nodes_per_node > 1 /\ p3.reserved_cpu_count >= s.numa_nodes_per_node * 2)
              => p3.split_reserved_across_numa
    BY <1>1 DEF ResolveNumaSplit, Params
  <1>5. QED
    BY <1>2, <1>3, <1>4 DEF ConflictFree, AdjustParameters

\* On conflict-free parameters every repair is the identity.
LEMMA RepairsFixConflictFree ==
    ASSUME NEW N, NEW P, NEW p \in Params(N, P), NEW s,
           s.numa_nodes_per_node \in Int,
           ConflictFree(p, s)
    PROVE  AdjustParameters(p, s) = p
  <1>1. ResolvePowerConflict(p) = p
    BY DEF ConflictFree, ResolvePowerConflict
  <1>2. ResolveDpdkTopology(p) = p
    BY DEF ConflictFree, ResolveDpdkTopology
  <1>3. ResolveNumaSplit(p, s) = p
    BY DEF ConflictFree, ResolveNumaSplit, Params
  <1>4. QED
    BY <1>1, <1>2, <1>3 DEF AdjustParameters

(***************************************************************************)
(* Spec section 8: conflict resolution is idempotent.                     *)
(***************************************************************************)
THEOREM AdjustIdempotent ==
    ASSUME NEW N, NEW P, NEW p \in Params(N, P), NEW s,
           s.numa_nodes_per_node \in Int
    PROVE  AdjustParameters(AdjustParameters(p, s), s) = AdjustParameters(p, s)
  <1>1. AdjustParameters(p, s) \in Params(N, P)
    BY RepairsKeepType DEF AdjustParameters
  <1>2. ConflictFree(AdjustParameters(p, s), s)
    BY AdjustResolvesConflicts
  <1>3. QED
    BY <1>1, <1>2, RepairsFixConflictFree

(***************************************************************************)
(* _calculate_reserved_cpus.  For a node with a known CPU count the        *)
(* heuristic reserves at least 2 CPUs, never more than a quarter of a node *)
(* with 8 CPUs or more, and is non-decreasing in the CPU count (spec       *)
(* section 8); a count of 0 ("unknown") yields the fixed default 4.        *)
(***************************************************************************)
THEOREM ReservedCpusBounds ==
    ASSUME NEW w, NEW s, s.cpus_per_node \in Nat, s.numa_nodes_per_node \in Nat
    PROVE  /\ CalculateReservedCpus(w, s) >= 2
           /\ s.cpus_per_node >= 8 => CalculateReservedCpus(w, s) <= s.cpus_per_node \div 4
  BY DEF CalculateReservedCpus, Max2, Min2

\* _calculate_reserved_cpus never reserves fewer CPUs on a bigger node
\* with the same NUMA layout (spec section 8: more CPUs, no fewer
\* reserved), as long as the smaller count is known (non-zero).
THEOREM ReservedCpusMonotone ==
    ASSUME NEW w, NEW s, NEW t,
           s.cpus_per_node \in Nat \ {0}, t.cpus_per_node \in Nat,
           s.numa_nodes_per_node \in Nat,
           t.numa_nodes_per_node = s.numa_nodes_per_node,
           s.cpus_per_node <= t.cpus_per_node
    PROVE  CalculateReservedCpus(w, s) <= CalculateReservedCpus(w, t)
  BY DEF CalculateReservedCpus, Max2, Min2

=============================================================================
