# Formal model of the performance-profile MCP server

This directory holds TLA+ modules, TLC configurations and TLAPS proofs for the
MCP server in `src/mcp-server-template`. The server helps a user build an
OpenShift PerformanceProfile. A client (an LLM agent) calls its tools in any
order:

* `analyze_cluster_hardware` parses a must-gather bundle and caches the result;
* `validate_performance_requirements` checks a requirements set against the cache;
* `generate_ppc_command` builds a `podman run ... performance-profile-creator`
  command line from a template, the user's arguments and the cached topology,
  with an explanation of the parameters;
* `create_performance_profile` runs that command through a shell and saves
  the output;
* `get_workload_recommendations`, `list_workload_templates` and the
  `must-gather://hardware-info` resource only read.

## Inventory of the system

| Part | Source | Module | Status |
|---|---|---|---|
| Workload template catalog | `workload_templates.py` | `Templates`, `Server` | partly: `default_config`, `get_template` and `list_templates`; `find_template_by_keywords` and `get_template_names` are called by no tool |
| Must-gather parser | `must_gather_parser.py` | `Hardware` | partly: node extraction, NUMA estimate, fallback node, summary; YAML reading is I/O and `get_summary`'s text is read by no tool |
| Hardware validator | `hardware_validator.py` | `Validator` | modelled: `validate` and its four sub-checks |
| PPC command generator | `ppc_generator.py` | `Generator` | modelled: `explain_parameters` as the facts it states |
| Tools and hardware cache | `mcp_server.py` | `Server`, `CacheSpec`, `Recommender`, `MCServer` | partly: every tool and the resource; the prompt returns constant text |
| Container path mapping | `mcp_server.py` (`resolve_path`) | none | not modelled: string rewriting from environment variables |

### How the parts interact, and how the model follows them

The server's state is two module globals, `_must_gather_data` and
`_must_gather_path`. These are `mustGatherData` and `mustGatherPath` in
`Server.tla`. Every tool is an `async def` that never awaits. A call
therefore runs to completion before the next one starts, and **one call is
one step**. Each tool is one action:

| Action | Code | What the action does |
|---|---|---|
| `AnalyzeOk(b)` | `mcp_server.py:149-190` | The summary and the path are assigned together, after the parse. |
| `AnalyzeFail(b)` | `mcp_server.py:191-200` | `MustGatherParser.__init__` raises for a missing path, and nothing is assigned. |
| `ValidatePerformanceRequirements(req)` | `mcp_server.py:203-262` | An error reply with no cache; otherwise `Validate` of `Validator.tla`. |
| `GeneratePpcCommand(req)` | `mcp_server.py:265-344` | Calls `GenerateParameters` with every tool argument as an override, then `BuildCommand` on the cached path. |
| `CreatePerformanceProfile(out)` | `mcp_server.py:347-397` | Runs the last generated command. See below. |
| `GetWorkloadRecommendations(d)` | `mcp_server.py:416-481` | The keyword heuristics of `Recommender.tla` on the lower-cased description `d`. |
| `ListWorkloadTemplates` | `mcp_server.py:400-412`, `workload_templates.py:221-239` | The catalog summary of each template. |
| `GetHardwareInfo` | `mcp_server.py:484-494` | An error object with no cache, otherwise the cached summary. |

`GeneratePpcCommand`'s reply carries `ExplainParameters(params, summary)`
(`ppc_generator.py:205-290`): the sequence of facts the text states, as tagged
tuples such as `<<"Isolated", 12>>`, without the wording.

`Recommender.tla` translates `get_workload_recommendations`. Python's
`kw in text` on strings is `Occurs`, a substring test over TLA+ strings. The
workload type is the first matching branch of the `if/elif` chain. The
recommended settings are built by four `if` blocks applied in the code's
order; a later block overwrites a key an earlier one set.

`CreatePerformanceProfile(out)` models the shell as well as the tool:

* The command's trailing `> performance-profile.yaml` sends the container's
  output to that file (`RedirectTarget`).
* What the tool captures as stdout is empty (`CaptureStdout`).
* On exit 0 (`CreateSucceeds`), the captured stdout is written to
  `output_path`.
* On a non-zero exit or a timeout (`CreateFails`), the tool writes nothing.
  The shell has still truncated the redirection target.
* The command run is the last one `generate_ppc_command` returned, and
  create needs one. The tool itself accepts any string (`mcp_server.py:349`),
  so a create before any generate, or with a hand-written command, is not
  modelled.

Data is abstracted as follows:

* A bundle is a model value. `BundleNodes` gives its set of Node records, or
  `Missing`.
* A summary is a record holding the fields the validator and the generator
  read.
* A validator message is a tuple of a tag and the values the code formats
  into it.
* A command is a sequence of `[flag, arg]` records. The podman and image
  words are left out, because they are constant.
* The container's output is `ProfileOf(cmd)`. This is the one
  spec-modelled definition, because the PPC tool is not in this repository.

Python's `None` is the model value `None`.

The parser's two sources of nondeterminism are kept as nondeterminism:

* **Which worker is first.** This depends on glob order, and it decides
  `cpus_per_node` and the NUMA estimate.
* **Which architecture is `list(set(...))[0]`.** This depends on string
  hashing.

`SummariesOf(nodes)` is the set of every summary the code can produce for a
bundle. `AnalyzeOk` picks any of them.

The pure components (`Templates`, `Hardware`, `Validator`, `Generator`) are
operators with no variables. `Server` composes them.

## Runs (`MCServer.tla` plus one `.cfg` each)

Bundles in every run:

* `b1`: a 16-CPU master and a 48-CPU x86 worker (2 NUMA nodes);
* `b2`: a 64-CPU arm64 worker and a 16-CPU amd64 worker, so the first
  worker and the architecture are both nondeterministic;
* `b3`: a missing path;
* `b4`: an empty directory, which falls back to the sample node;
* `b5`: a single 2-CPU worker, and `b6`: a worker whose capacity is 0
  (unknown), used only by the `smallnode` run.

Descriptions for `get_workload_recommendations` are seven lower-case
sentences. They cover every keyword class, a description with both the
real-time and the power-efficiency keywords (so one block overwrites the
other), and a description where a keyword occurs inside another word.

Tool arguments are small sets chosen around the code's thresholds. For
example, `reserved_cpu_count` ∈ {None, 1, 4, 50} covers below 2, normal,
and more than the node has. Hugepage sizes ∈ {None, 64K, 1G} include a size
valid on ARM and invalid on x86.

| Run | Checks | Result | What it shows |
|---|---|---|---|
| `generate` | `TypeOK`, `ConsistentSnapshot`, `CommandFlagsConsistent` | pass | 256 generate argument sets (a template workload and a custom one) after any analyses: no command asks for per-pod power management with a power mode, DPDK without an aligned topology, or an unsplit reservation that could be split. |
| `validate` | `HugepagesAdvisoryOnly` | pass | Validity is exactly the CPU fit. An invalid hugepage size is only a warning. |
| `create` | `CreateWritesOnlyOutputPath` | violation | See finding 9. |
| `overalloc` | `OverAllocationRejected` | violation | See finding 1. |
| `templates` | `TemplateDefaultsApplied` | violation | See finding 2. |
| `heuristic` | `ReservedHeuristicAsSpecified` | violation | See finding 3. |
| `profile` | `ProfileWrittenOnSuccess` | violation | See finding 4. |
| `cache` | `TypeOK`, `RecommendationHonoured`, `CacheRefinement` | pass | Every tool, create included, in any order keeps the state well typed (the files the create step and its shell redirection write included) and implements the abstract cache `CacheSpec` (see below). A client that passes the recommended settings to `generate_ppc_command` gets parameters that keep every one of them, after `_adjust_parameters`. |
| `explain` | `IsolatedCountHonoured` | violation | See finding 5. |
| `smallnode` | `HeuristicReservationFits` | violation | See finding 6. |
| `hpcount` | `HugepageCountHonoured` | violation | See finding 7. |
| `keywords` | `RecommendedForKeywordWord` | violation | See finding 8. |

**Refinement.** `CacheSpec.tla` says what the cache promises: one variable
`snapshot`, which is `None` or the last bundle analysed successfully with a
summary of it. Its only step is a successful analysis. `Server.tla` maps its
two globals to it (`CacheSnapshot`) and states `CacheRefinement ==
Cache!Spec`. Every other tool, and a failed analysis, must be a stuttering
step of the abstract cache.

Every property of a passing run has a mutant in `PROJECT.json`: a plausible
bug in the modelled code that makes TLC report it. For example:

* `AnalyzeFailAfterPathSet` assigns the path before the parser raises;
* `BuggyResolvePowerConflict` resets only the ultra-low-latency mode;
* `ValidateHugepageErrorsFatal` lets hugepage errors decide validity;
* `EstimateNumaNodesPer16` estimates one NUMA node per 16 CPUs instead of
  per 32, which `TypeOK` catches in the summaries;
* `RecommendedSettingsRtLast` runs the real-time block after the
  power-efficiency block.

**No fairness or liveness.** Nothing in the server acts on its own: every
step is a client call, and the client may stop at any time. Every state of a
run may therefore be the last one. Deadlock checking stays on, and it holds,
because analyze is always enabled.

## Findings

1. **Over-allocation is accepted** (`hardware_validator.py:106`, `:113`).
   * With no isolated count, isolated is derived as cpus − reserved, so the
     total always equals the CPU count.
   * As a result, reserved = 50 on a 48-CPU node is reported valid.
   * Spec §8 says over-allocation is rejected.
2. **Template defaults never apply** (`mcp_server.py:320-328`).
   * The tool passes its own defaults as non-None overrides, for example
     `enable_rt_kernel=False`.
   * As a result, the 5g-ran template's RT kernel is turned off.
   * Spec §4.3 says generation is seeded from the template.
3. **Truncation instead of rounding** (`ppc_generator.py:107`, `:113`).
   * The code reserves `int(cpus*0.1)`, where the spec says round.
   * The trace is the default branch (line 113): a custom workload on a
     48-CPU worker gets 4 reserved CPUs, not 5. The database branch (line
     107) uses the same formula.
4. **The profile file is empty** (`ppc_generator.py:201`,
   `mcp_server.py:379-380`).
   * The command redirects the container's stdout to a file.
   * `create_performance_profile` therefore writes the empty captured stdout
     to `output_path`, and still reports success.
5. **The isolated CPU count is dropped** (`ppc_generator.py:151-203`).
   * The tool documents `isolated_cpu_count` as the number of CPUs to
     isolate (`mcp_server.py:287`), and stores it in the parameters.
   * `build_command` emits no isolated count, and the reservation is
     computed without it. The profile isolates every CPU it does not
     reserve, which is what the explanation states (line 230).
   * Trace: a database workload with `isolated_cpu_count=40`, on a bundle
     whose first worker has 16 CPUs. 4 are reserved, so 12 are isolated,
     not 40, and the reply gives no error or warning.
6. **Small nodes are fully reserved** (`ppc_generator.py:116`).
   * A 2-CPU node gets 2 reserved CPUs, so no CPU is left to isolate.
   * Spec §8 calls reserved ≥ cpus infeasible, and §7 calls it
     over-allocation. The clamp `[2, cpus//4]` of §4.3 is empty below 8
     CPUs.
   * A node of unknown capacity (0) gets 4, as §4.3 prescribes. The
     property exempts it.
7. **A hugepage count of 0 is ignored** (`hardware_validator.py:215`).
   * `if hugepage_count:` treats 0 as no count.
   * Spec §4.1 computes the reserved memory when size and count are given.
8. **Keywords match inside words** (`mcp_server.py:440`).
   * "postgres database with guaranteed transactions" is classed `5g-ran`,
     because "ran" occurs in "guaranteed".
   * The docstring says the heuristics look at keywords in the description.
9. **Every create writes a second file** (`ppc_generator.py:201`,
   `mcp_server.py:364`).
   * The command ends with `> performance-profile.yaml`, and the shell runs
     it in the server's working directory.
   * A successful call writes that file as well as `output_path`.
   * The shell truncates the file before podman runs, so a failed or
     timed-out call (`mcp_server.py:372`, `:387`) leaves it empty or
     partly written.
   * Spec §6 says the output is persisted to the caller-specified path.

## Proofs (TLAPS)

`GeneratorProofs.tla` proves the following for every parameter dictionary
and summary:

* `AdjustResolvesConflicts`: after `_adjust_parameters`, none of the three
  repaired conflicts remains. The proof follows the three repairs in order.
  Each later repair leaves the fields the earlier ones fixed unchanged.
* `AdjustIdempotent`: adjusting twice equals adjusting once. This follows
  from the previous theorem and from `RepairsFixConflictFree`, which says
  every repair is the identity on conflict-free parameters.
* `ReservedCpusBounds`: the heuristic reserves at least 2 CPUs. It reserves
  at most cpus/4 when cpus ≥ 8.
* `ReservedCpusMonotone`: the heuristic does not decrease as the CPU count
  grows.

`ServerProofs.tla` proves two invariants and a refinement for every set of bundles, every
bundle content and every set of arguments:

* `SnapshotInvariant`, Spec ⇒ □`ConsistentSnapshot`. The invariant is
  inductive by itself. The only step that changes the cache is `AnalyzeOk`,
  and it assigns a summary of the bundle it assigns. `SummariesOfTyped`
  shows that this summary is not `None`.
* `TypeCorrect`, Spec ⇒ □`TypeOK`, which is also inductive. The generate
  step rests on three lemmas:
  * `GenerateParametersTyped`: the template or base seed, the overrides and
    the repairs keep a parameter dictionary. The override loop is split in
    three groups of updates to keep the SMT obligations small.
  * `BuildCommandIsCommand`: the command is a concatenation of the fixed
    head, five optional flags and the tail. It is therefore a sequence of at
    most 12 well-typed arguments.
  * `SeqIsCommand`.

The assumptions are:

* `NoneAssumption`: `None` is no integer, Boolean, string or summary.
* `NoneNotOption`: `None` is not one of the documented power-mode or
  topology strings. The provers do not know that a string literal is in
  `STRING`, so this is stated explicitly.
* `BundleAssumption`: every existing bundle holds well-formed nodes.
* `GenerateRequestsAssumption`: the generate arguments have the types of the
  tool's signature. `power_mode` and `topology_policy` are limited to their
  documented values.
* `ValidateRequestsAssumption`: the validate arguments have the types of
  the tool's signature (`mcp_server.py:204-212`).

* `CacheRefined`, Spec ⇒ `CacheRefinement`. The initial states map to the
  empty cache. `AnalyzeOk` maps to `Analyze` of the same bundle and summary;
  every other step leaves both globals unchanged, so it maps to a stutter.
`CommandProofs.tla` proves `CommandFlagsInvariant`, Spec ⇒
□`CommandFlagsConsistent`. The argument has two halves:

* `GenerateParametersTyped` (in `ServerProofs`) shows that the generated
  parameters satisfy `ConflictFree`, by `AdjustResolvesConflicts`.
* `CommandReflectsParams` shows that `build_command` emits each optional
  flag exactly when its option is set, and gives the topology policy and
  the reserved count their parameter values. It rests on
  `BuildCommandElems`, which gives the set of arguments of the command, one
  term per append. That lemma in turn rests on `ElemsConcat` and `ElemsWhen`.

The invariant needs no strengthening beyond `TypeOK`. It only reads the
reply, and every step either replies for another tool, reports a failure,
or is a successful generate, whose command the two lemmas describe.

`ValidateProofs.tla` proves `HugepagesAdvisoryInvariant`, Spec ⇒
□`HugepagesAdvisoryOnly`. The invariant is inductive by itself. Only a
successful validate step writes a validate reply, and the lemma
`ValidateAdvisory` describes its report for every summary and every
well-typed request:

* the verdict equals the CPU fit, in both the branch with
  `reserved_cpu_count` given and the branch without it;
* no error carries the hugepage tag;
* an unsupported size puts the tag among the warnings.

The messages are sequences, so the proof works with their sets of elements
(`Elems`). `TagsElems` links the tags to that set.

`RecommendProofs.tla` proves `RecommendationInvariant`, Spec ⇒
□`RecommendationHonoured`. The invariant is also inductive by itself. An
analysis may replace the cached summary, but it also replaces the reply,
and the argument holds for every summary. The argument uses two lemmas:

* `SettingsShape`: a recommendation's settings use only the five keys.
  Their values are `TRUE`, `"ultra-low-latency"`, `"single-numa-node"` or
  `"default"`, and per-pod power management comes only with power mode
  `"default"`. The keyword tests are left as arbitrary Booleans, so this
  holds for every outcome of the substring matching.
* `FollowedSettingsKept`: every recommended value is a non-`None` override
  and replaces the seed's value. No repair touches it: the power repair
  does not fire, the recommended topology is already aligned, and the NUMA
  split changes only its own field.

**Only model-checked:** the nine violation properties. These are
counterexamples and have nothing to prove. Which keywords a given text
contains (the `keywords` run) is also only model-checked. The proofs do not
depend on it: each keyword test is an unknown Boolean there, so they cover
every outcome of the substring matching in `Occurs`. No liveness is stated (see above), so nothing is left out
of the provers' reach on that account.

## Not modelled

* `resolve_path` and `_init_path_mappings`: these are string rewriting from
  environment variables at import time. The model takes the resolved path as
  the bundle's identity.
* `guided_profile_creation`: the prompt returns constant text.
* `find_template_by_keywords`, `get_template_names` and `get_summary`: no
  tool calls them.
* The timeout race (`mcp_server.py:369`): on the 60 s timeout only the shell
  is killed. podman may outlive the call and write the redirection target
  after the tool has replied. This needs a process that outlives its tool
  call, which the one-call-one-step model does not have.
* Shell quoting of `mcp_name` and `profile_name` (`ppc_generator.py:175`):
  names are model values.

## Plan for later work

* Model podman as a process that outlives the tool call, to check the
  timeout race against a retried create.
* State the unreachability of the per-pod power management warning from
  the validate tool as a property.
