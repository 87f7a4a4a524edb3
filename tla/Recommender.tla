---------------------------- MODULE Recommender ----------------------------
(***************************************************************************)
(* The keyword heuristics of get_workload_recommendations (mcp_server.py): *)
(* a workload type from the first keyword class the description mentions, *)
(* and recommended settings from four further keyword classes, applied in *)
(* the code's order.  text is description_lower; the reasoning sentences   *)
(* are layout and left out.                                                *)
(***************************************************************************)
EXTENDS Integers, Sequences, Templates

\* Python's  kw in text  for strings: kw is a substring of text.
Occurs(kw, text) ==
    \E i \in 0..(Len(text) - Len(kw)) : SubSeq(text, i + 1, i + Len(kw)) = kw

\* any(kw in description_lower for kw in kws)
AnyOccurs(kws, text) == \E kw \in kws : Occurs(kw, text)

\* The keyword lists of the code.
RanKeywords == {"5g", "ran", "radio", "baseband"}
DatabaseKeywords == {"database", "db", "sql", "postgres", "mysql"}
AiKeywords == {"ai", "ml", "inference", "tensorflow", "pytorch"}
TelcoKeywords == {"vnf", "telco", "nfv"}
RtKeywords == {"real-time", "realtime", "rt", "low latency", "latency-sensitive"}
DpdkKeywords == {"dpdk", "user space networking", "packet processing"}
PowerKeywords == {"power efficient", "power saving", "energy"}
NumaKeywords == {"numa", "locality", "affinity"}

\* The if/elif chain on the workload type; "custom" when nothing matches.
RecommendedType(text) ==
    IF AnyOccurs(RanKeywords, text) THEN "5g-ran"
    ELSE IF AnyOccurs(DatabaseKeywords, text) THEN "database"
    ELSE IF AnyOccurs(AiKeywords, text) THEN "ai-inference"
    ELSE IF AnyOccurs(TelcoKeywords, text) THEN "telco-vnf"
    ELSE "custom"

(***************************************************************************)
(* recommended_settings, a dict filled by four independent if blocks: a   *)
(* function on the option names set so far.  A later block overwrites an  *)
(* option an earlier one set.                                              *)
(***************************************************************************)
NoSettings == [k \in {} |-> FALSE]
Put(f, k, v) == [x \in DOMAIN f \cup {k} |-> IF x = k THEN v ELSE f[x]]

RtSettings(f, text) ==
    IF AnyOccurs(RtKeywords, text)
    THEN Put(Put(f, "enable_rt_kernel", TRUE), "power_mode", "ultra-low-latency")
    ELSE f

DpdkSettings(f, text) ==
    IF AnyOccurs(DpdkKeywords, text)
    THEN Put(Put(f, "enable_dpdk", TRUE), "topology_policy", "single-numa-node")
    ELSE f

PowerSettings(f, text) ==
    IF AnyOccurs(PowerKeywords, text)
    THEN Put(Put(f, "per_pod_power_management", TRUE), "power_mode", "default")
    ELSE f

NumaSettings(f, text) ==
    IF AnyOccurs(NumaKeywords, text)
    THEN Put(f, "topology_policy", "single-numa-node")
    ELSE f

\* Mutant: the real-time block runs after the power-efficiency block.
RecommendedSettingsRtLast(text) ==
    RtSettings(NumaSettings(PowerSettings(DpdkSettings(NoSettings, text), text), text), text)

RecommendedSettings(text) ==
    NumaSettings(PowerSettings(DpdkSettings(RtSettings(NoSettings, text), text), text), text)

=============================================================================
