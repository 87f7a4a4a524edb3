----------------------------- MODULE Templates -----------------------------
(***************************************************************************)
(* The static workload-template catalog of workload_templates.py           *)
(* (WorkloadTemplates.TEMPLATES and get_template).  Only default_config is *)
(* modelled: names, descriptions, use cases and the hugepage hints are     *)
(* text that no modelled code reads.                                       *)
(***************************************************************************)

\* The values the string-valued options can take (mcp_server.py:292-293).
PowerModes == {"default", "low-latency", "ultra-low-latency"}
TopologyPolicies == {"single-numa-node", "best-effort", "restricted"}

\* The seven core options every default_config defines.
Configs ==
    [enable_rt_kernel : BOOLEAN, disable_ht : BOOLEAN, enable_dpdk : BOOLEAN,
     power_mode : PowerModes, topology_policy : TopologyPolicies,
     split_reserved_across_numa : BOOLEAN, per_pod_power_management : BOOLEAN]

Config(rt, ht, dpdk, pm, tp, split, pp) ==
    [enable_rt_kernel |-> rt, disable_ht |-> ht, enable_dpdk |-> dpdk,
     power_mode |-> pm, topology_policy |-> tp,
     split_reserved_across_numa |-> split, per_pod_power_management |-> pp]

\* The keys of WorkloadTemplates.TEMPLATES.
TemplateNames ==
    {"5g-ran", "telco-vnf", "database", "ai-inference", "hpc",
     "low-latency-trading", "media-processing"}

\* TEMPLATES[t]["default_config"], one row per catalog entry.  No entry
\* defines reserved_cpu_count.
DefaultConfig(t) ==
    CASE t \in {"5g-ran", "low-latency-trading"} ->
            Config(TRUE, TRUE, TRUE, "ultra-low-latency", "single-numa-node", TRUE, FALSE)
      [] t = "telco-vnf" ->
            Config(TRUE, FALSE, TRUE, "low-latency", "single-numa-node", TRUE, FALSE)
      [] t \in {"ai-inference", "hpc"} ->
            Config(FALSE, FALSE, FALSE, "low-latency", "single-numa-node", TRUE, FALSE)
      [] t = "database" ->
            Config(FALSE, FALSE, FALSE, "default", "restricted", TRUE, FALSE)
      [] t = "media-processing" ->
            Config(FALSE, FALSE, FALSE, "default", "restricted", TRUE, TRUE)

\* get_template(workload_type) returns a template exactly for the catalog
\* keys; every other workload type ("custom", ...) gets None.
HasTemplate(workload_type) == workload_type \in TemplateNames

=============================================================================
