--------------------------- MODULE ValidateProofs ---------------------------
(***************************************************************************)
(* validate_performance_requirements reports an unsupported hugepage size  *)
(* only as a warning: for every bundle set and argument set, the verdict   *)
(* of every validate reply is exactly the CPU fit (HugepagesAdvisoryOnly). *)
(* The argument is one lemma about HardwareValidator.validate on any       *)
(* summary and any requirements (ValidateAdvisory); the invariant then     *)
(* follows from TypeOK, since every validate reply is validate of the      *)
(* cached summary.                                                         *)
(***************************************************************************)
EXTENDS CommandProofs, SequenceTheorems, TLAPS

\* The tags of a message list are the first components of its elements.
LEMMA TagsElems ==
    ASSUME NEW msgs
    PROVE  Tags(msgs) = {e[1] : e \in Elems(msgs)}
  BY DEF Tags, Elems

(***************************************************************************)
(* validate on one summary and one requirements record: the verdict is    *)
(* the CPU check's, no hugepage error is among the errors, and an invalid  *)
(* hugepage size is among the warnings.                                    *)
(***************************************************************************)
LEMMA ValidateAdvisory ==
    ASSUME NEW s \in Summaries, NEW req \in ValidateRequestType
    PROVE  LET rep == Validate(s, req)
               cpuFits == /\ req.reserved_cpu_count # None
                          /\ (IF req.isolated_cpu_count = None
                              THEN s.cpus_per_node - req.reserved_cpu_count
                              ELSE req.isolated_cpu_count) + req.reserved_cpu_count
                             <= s.cpus_per_node
           IN  /\ rep.is_valid = cpuFits
               /\ "InvalidHugepageSize" \notin Tags(rep.errors)
               /\ ~rep.hugepages_valid => "InvalidHugepageSize" \in Tags(rep.warnings)
  <1> DEFINE cpu == ValidateCpu(s, req)
             rt == ValidateRtKernel(s, req)
             hp == ValidateHugepages(s, req)
             pw == ValidatePowerMode(req)
             rep == Validate(s, req)
             reserved == req.reserved_cpu_count
             cpuFits == /\ reserved # None
                        /\ (IF req.isolated_cpu_count = None
                            THEN s.cpus_per_node - reserved
                            ELSE req.isolated_cpu_count) + reserved
                           <= s.cpus_per_node
  <1>1. /\ rep.is_valid = cpu.is_valid
        /\ rep.errors = IF cpu.is_valid THEN <<>> ELSE cpu.errors
        /\ rep.warnings = cpu.warnings \o rt.warnings
                          \o (IF hp.is_valid THEN <<>> ELSE hp.errors) \o pw.warnings
        /\ rep.hugepages_valid = hp.is_valid
    BY DEF Validate
  <1>2. ASSUME reserved = None
        PROVE  rep.is_valid = cpuFits /\ "InvalidHugepageSize" \notin Tags(rep.errors)
    <2>1. cpu = [is_valid |-> FALSE, errors |-> << <<"ReservedRequired">> >>,
                 warnings |-> <<>>, recommendations |-> <<>>]
      BY <1>2 DEF ValidateCpu
    <2>2. rep.is_valid = cpuFits
      BY <1>1, <1>2, <2>1 DEF cpuFits
    <2>3. "InvalidHugepageSize" \notin Tags(rep.errors)
      BY <1>1, <2>1 DEF Tags
    <2>4. QED
      BY <2>2, <2>3
  <1>3. ASSUME reserved # None
        PROVE  rep.is_valid = cpuFits /\ "InvalidHugepageSize" \notin Tags(rep.errors)
    <2> DEFINE cpus == s.cpus_per_node
               total == (IF req.isolated_cpu_count = None THEN cpus - reserved
                         ELSE req.isolated_cpu_count) + reserved
    <2>1. /\ cpu.is_valid = (total <= cpus)
          /\ cpu.errors = When(total > cpus, <<"TotalExceedsCpus", total, cpus>>)
      BY <1>3 DEF ValidateCpu
    <2>2. rep.is_valid = cpuFits
      <3>0. reserved \in Int /\ cpus \in Int /\ total \in Int
        BY <1>3, NoneAssumption DEF ValidateRequestType, Summaries, total, cpus
      <3>1. cpuFits = (total <= cpus)
        <4>1. cpuFits = (reserved # None /\ total <= cpus)
          BY DEF cpuFits, total, cpus
        <4>2. cpuFits <=> (total <= cpus)
          BY <1>3, <4>1
        <4>3. cpuFits \in BOOLEAN /\ (total <= cpus) \in BOOLEAN
          BY <3>0 DEF cpuFits
        <4>4. QED
          BY <4>2, <4>3
      <3>2. QED
        BY <1>1, <2>1, <3>1
    <2>3. Tags(When(total > cpus, <<"TotalExceedsCpus", total, cpus>>)) \subseteq {"TotalExceedsCpus"}
      BY DEF Tags, When
    <2>4. "InvalidHugepageSize" \notin Tags(rep.errors)
      <3>1. CASE cpu.is_valid
        BY <1>1, <3>1 DEF Tags
      <3>2. CASE ~cpu.is_valid
        <4>1. rep.errors = When(total > cpus, <<"TotalExceedsCpus", total, cpus>>)
          BY <1>1, <2>1, <3>2
        <4>2. QED
          BY <4>1, <2>3
      <3>3. QED
        BY <3>1, <3>2
    <2>5. QED
      BY <2>2, <2>4
  \* An invalid size: its error is one element of the concatenated warnings.
  <1>4. ~rep.hugepages_valid => "InvalidHugepageSize" \in Tags(rep.warnings)
    <2> SUFFICES ASSUME ~hp.is_valid
                 PROVE  "InvalidHugepageSize" \in Tags(rep.warnings)
      BY <1>1
    <2> DEFINE msg == <<"InvalidHugepageSize", req.hugepages_size, s.architecture>>
               S == {<<"ReservedTooLow">>,
                     <<"ReservedNotNumaAligned", reserved, s.numa_nodes_per_node>>,
                     <<"RtOnArm">>, <<"RtNotNeeded", req.workload_type>>, msg,
                     <<"PowerIncrease", req.power_mode>>, <<"PerPodPmDisabled">>}
               a == cpu.warnings \o rt.warnings
    <2>1. hp.errors = <<msg>>
      BY DEF ValidateHugepages, When
    <2>2. cpu.warnings \in Seq(S)
      <3>1. CASE reserved = None
        BY <3>1, EmptySeq DEF ValidateCpu
      <3>2. CASE reserved # None
        <4>1. /\ When(reserved < 2, <<"ReservedTooLow">>) \in Seq(S)
              /\ When(s.numa_nodes_per_node > 1 /\ reserved % s.numa_nodes_per_node # 0,
                      <<"ReservedNotNumaAligned", reserved, s.numa_nodes_per_node>>) \in Seq(S)
          BY WhenTyped
        <4>2. QED
          BY <3>2, <4>1, ConcatProperties DEF ValidateCpu
      <3>3. QED
        BY <3>1, <3>2
    <2>3. rt.warnings \in Seq(S)
      <3>1. /\ When(IsArm(s.architecture), <<"RtOnArm">>) \in Seq(S)
            /\ When(req.workload_type \in {"database", "ai-inference"},
                    <<"RtNotNeeded", req.workload_type>>) \in Seq(S)
        BY WhenTyped
      <3>2. CASE req.enable_rt_kernel
        BY <3>1, <3>2, ConcatProperties DEF ValidateRtKernel
      <3>3. CASE ~req.enable_rt_kernel
        BY <3>3, EmptySeq DEF ValidateRtKernel
      <3>4. QED
        BY <3>2, <3>3
    <2>4. pw.warnings \in Seq(S)
      <3>1. /\ When(req.power_mode \in {"low-latency", "ultra-low-latency"},
                    <<"PowerIncrease", req.power_mode>>) \in Seq(S)
            /\ When(PerPodPm(req) /\ req.power_mode # "default",
                    <<"PerPodPmDisabled">>) \in Seq(S)
        BY WhenTyped
      <3>2. QED
        BY <3>1, ConcatProperties DEF ValidatePowerMode
    <2>5. <<msg>> \in Seq(S)
      BY WhenTyped DEF When
    <2>6. /\ a \in Seq(S)
          /\ a \o <<msg>> \in Seq(S)
      BY <2>2, <2>3, <2>5, ConcatProperties
    <2>0. \A u, v \in Seq(S) : Elems(u \o v) = Elems(u) \cup Elems(v)
      BY ElemsConcat
    <2>7. rep.warnings = (a \o <<msg>>) \o pw.warnings
      BY <1>1, <2>1
    <2>8. msg \in Elems(a \o <<msg>>)
      <3>1. Elems(a \o <<msg>>) = Elems(a) \cup Elems(<<msg>>)
        BY <2>0, <2>5, <2>6
      <3>2. msg \in Elems(<<msg>>)
        BY DEF Elems
      <3>3. QED
        BY <3>1, <3>2
    <2>9. msg \in Elems(rep.warnings)
      <3>1. Elems((a \o <<msg>>) \o pw.warnings) = Elems(a \o <<msg>>) \cup Elems(pw.warnings)
        BY <2>0, <2>4, <2>6
      <3>2. QED
        BY <2>7, <2>8, <3>1
    <2>10. QED
      BY <2>9, TagsElems
  <1>5. QED
    BY <1>2, <1>3, <1>4 DEF rep, cpuFits, reserved


(***************************************************************************)
(* HugepagesAdvisoryOnly holds in every reachable state: every successful  *)
(* validate_performance_requirements reply is valid exactly when the CPU   *)
(* request fits the cached node, carries no hugepage error, and reports an *)
(* unsupported hugepage size as a warning.  Every other step replies for   *)
(* another tool or with success FALSE.                                     *)
(***************************************************************************)
THEOREM HugepagesAdvisoryInvariant == Spec => []HugepagesAdvisoryOnly
  <1>1. Init => HugepagesAdvisoryOnly
    BY DEF Init, HugepagesAdvisoryOnly, Responses
  <1>2. HugepagesAdvisoryOnly /\ TypeOK /\ [Next]_vars => HugepagesAdvisoryOnly'
    <2> SUFFICES ASSUME HugepagesAdvisoryOnly, TypeOK, [Next]_vars
                 PROVE  HugepagesAdvisoryOnly'
      OBVIOUS
    <2>1. ASSUME response'.tool # "validate" PROVE HugepagesAdvisoryOnly'
      BY <2>1 DEF HugepagesAdvisoryOnly, Responses
    <2>2. ASSUME NEW b \in Bundles, AnalyzeOk(b) PROVE HugepagesAdvisoryOnly'
      <3>1. response'.tool = "analyze"
        BY <2>2 DEF AnalyzeOk
      <3>2. QED
        BY <3>1, <2>1
    <2>3. ASSUME NEW b \in Bundles, AnalyzeFail(b) PROVE HugepagesAdvisoryOnly'
      BY <2>3, <2>1 DEF AnalyzeFail
    <2>4. ASSUME NEW req \in ValidateRequests, ValidatePerformanceRequirements(req)
          PROVE  HugepagesAdvisoryOnly'
      <3>1. CASE mustGatherData = None
        <4>1. response' = [tool |-> "validate", success |-> FALSE]
          BY <2>4, <3>1 DEF ValidatePerformanceRequirements
        <4>2. QED
          BY <4>1 DEF HugepagesAdvisoryOnly, Responses
      <3>2. CASE mustGatherData # None
        <4>1. response' = [tool |-> "validate", success |-> TRUE,
                           summary |-> mustGatherData, request |-> req,
                           report |-> Validate(mustGatherData, req)]
          BY <2>4, <3>2 DEF ValidatePerformanceRequirements
        <4>2. mustGatherData \in Summaries /\ req \in ValidateRequestType
          BY <3>2, ValidateRequestsAssumption DEF TypeOK
        <4>3. QED
          BY <4>1, <4>2, ValidateAdvisory DEF HugepagesAdvisoryOnly, Responses
      <3>3. QED
        BY <3>1, <3>2
    <2>5. ASSUME NEW req \in GenerateRequests, GeneratePpcCommand(req)
          PROVE  HugepagesAdvisoryOnly'
      <3>1. response'.tool = "generate"
        BY <2>5 DEF GeneratePpcCommand
      <3>2. QED
        BY <3>1, <2>1
    <2>6. ASSUME NEW out \in OutputPaths, CreatePerformanceProfile(out)
          PROVE  HugepagesAdvisoryOnly'
      <3>1. response'.tool = "create"
        BY <2>6 DEF CreatePerformanceProfile, CreateSucceeds, CreateFails
      <3>2. QED
        BY <3>1, <2>1
    <2>7. ASSUME NEW d \in Descriptions, GetWorkloadRecommendations(d)
          PROVE  HugepagesAdvisoryOnly'
      BY <2>7, <2>1 DEF GetWorkloadRecommendations
    <2>8. CASE ListWorkloadTemplates
      BY <2>8, <2>1 DEF ListWorkloadTemplates
    <2>9. CASE GetHardwareInfo
      <3>1. response'.tool = "hardware_info"
        <4>1. CASE mustGatherData = None
          BY <2>9, <4>1 DEF GetHardwareInfo
        <4>2. CASE mustGatherData # None
          BY <2>9, <4>2 DEF GetHardwareInfo
        <4>3. QED
          BY <4>1, <4>2
      <3>2. QED
        BY <3>1, <2>1
    <2>10. CASE UNCHANGED vars
      BY <2>10 DEF vars, HugepagesAdvisoryOnly, Responses
    <2>11. QED
      BY <2>2, <2>3, <2>4, <2>5, <2>6, <2>7, <2>8, <2>9, <2>10 DEF Next
  <1>3. QED
    BY <1>1, <1>2, TypeCorrect, PTL DEF Spec

=============================================================================
