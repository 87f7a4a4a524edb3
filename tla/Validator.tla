----------------------------- MODULE Validator -----------------------------
(***************************************************************************)
(* HardwareValidator of hardware_validator.py: the four sub-checks and     *)
(* their aggregation into one report.  Pure operators of a hardware        *)
(* summary s (Hardware.tla) and a requirements record req.  A message is   *)
(* a tuple of a tag and the values the code formats into its text.         *)
(***************************************************************************)
EXTENDS Integers, Sequences, Hardware

\* A hugepage size string such as "2M" is its number and its unit letter.
HugepageSize(n, u) == [num |-> n, unit |-> u]
ValidSizesX86 == {HugepageSize(2, "M"), HugepageSize(1, "G")}
ValidSizesArm == {HugepageSize(64, "K"), HugepageSize(2, "M"), HugepageSize(32, "M"),
                  HugepageSize(512, "M"), HugepageSize(1, "G")}

\* _hugepage_to_gb, kept in KiB so that it stays an integer: G is 1024^2
\* KiB, M is 1024 KiB, K is 1 KiB, any other unit 0.
HugepageToKiB(size) ==
    CASE size.unit = "G" -> size.num * 1024 * 1024
      [] size.unit = "M" -> size.num * 1024
      [] size.unit = "K" -> size.num
      [] OTHER -> 0

\* _validate_cpu.
ValidateCpu(s, req) ==
    LET cpus == s.cpus_per_node
        numa == s.numa_nodes_per_node
        reserved == req.reserved_cpu_count
        isolated == IF req.isolated_cpu_count = None THEN cpus - reserved
                    ELSE req.isolated_cpu_count
        total_required == isolated + reserved
    IN  IF reserved = None
        THEN [is_valid |-> FALSE, errors |-> << <<"ReservedRequired">> >>,
              warnings |-> <<>>, recommendations |-> <<>>]
        ELSE [is_valid |-> total_required <= cpus,
              errors |-> When(total_required > cpus,
                              <<"TotalExceedsCpus", total_required, cpus>>),
              warnings |->
                  When(reserved < 2, <<"ReservedTooLow">>)
                  \o When(numa > 1 /\ reserved % numa # 0,
                          <<"ReservedNotNumaAligned", reserved, numa>>),
              recommendations |->
                  When(reserved < 2, <<"ReserveTwoToFour">>)
                  \o When(req.isolated_cpu_count = None, <<"IsolatedDerived", isolated>>)
                  \o When(numa > 1, <<"AlignToNuma", numa>>)
                  \o When(s.hyperthreading_enabled, <<"ConsiderDisableHt">>)]

\* _validate_rt_kernel.
ValidateRtKernel(s, req) ==
    LET w == req.workload_type IN
    IF req.enable_rt_kernel
    THEN [is_valid |-> TRUE,
          warnings |-> When(IsArm(s.architecture), <<"RtOnArm">>)
                       \o When(w \in {"database", "ai-inference"}, <<"RtNotNeeded", w>>),
          recommendations |-> << <<"RtNeedsReboot">> >>]
    ELSE [is_valid |-> TRUE, warnings |-> <<>>,
          recommendations |-> When(w \in {"5g-ran", "telco-vnf"}, <<"RtAdvised", w>>)]

\* _validate_hugepages.  A size or count of None (or a count of 0) is
\* falsy; an architecture neither x86 nor ARM skips the size check.
ValidateHugepages(s, req) ==
    LET size == req.hugepages_size
        count == req.hugepages_count
        arch == s.architecture
        bad == /\ size # None
               /\ \/ IsX86(arch) /\ size \notin ValidSizesX86
                  \/ IsArm(arch) /\ size \notin ValidSizesArm
    IN  [is_valid |-> ~bad,
         errors |-> When(bad, <<"InvalidHugepageSize", size, arch>>),
         recommendations |->
             (IF size = None THEN <<>>
              ELSE IF count \notin {None, 0}
                   THEN << <<"HugepagesReserveKiB", HugepageToKiB(size) * count>> >>
                   ELSE << <<"HugepageCountMissing">> >>)
             \o When(req.enable_dpdk /\ size = None, <<"DpdkNeedsHugepages">>)]

\* requirements.get("per_pod_power_management", False).
PerPodPm(req) ==
    IF "per_pod_power_management" \in DOMAIN req THEN req.per_pod_power_management ELSE FALSE

\* _validate_power_mode.
ValidatePowerMode(req) ==
    [warnings |->
        When(req.power_mode \in {"low-latency", "ultra-low-latency"},
             <<"PowerIncrease", req.power_mode>>)
        \o When(PerPodPm(req) /\ req.power_mode # "default",
                <<"PerPodPmDisabled">>)]

\* Mutant: hugepage errors are folded into the errors and the validity.
ValidateHugepageErrorsFatal(s, req) ==
    LET cpu == ValidateCpu(s, req)
        hp == ValidateHugepages(s, req)
    IN  [is_valid |-> cpu.is_valid /\ hp.is_valid,
         errors |-> (IF cpu.is_valid THEN <<>> ELSE cpu.errors) \o hp.errors,
         warnings |-> cpu.warnings \o ValidateRtKernel(s, req).warnings
                      \o ValidatePowerMode(req).warnings,
         recommendations |-> cpu.recommendations \o ValidateRtKernel(s, req).recommendations
                             \o hp.recommendations,
         hugepages_valid |-> hp.is_valid]

\* validate: only the CPU check decides validity; the hugepage check's
\* errors become warnings; overall_status is a string keyed on is_valid.
Validate(s, req) ==
    LET cpu == ValidateCpu(s, req)
        rt == ValidateRtKernel(s, req)
        hp == ValidateHugepages(s, req)
        pw == ValidatePowerMode(req)
    IN  [is_valid |-> cpu.is_valid,
         errors |-> IF cpu.is_valid THEN <<>> ELSE cpu.errors,
         warnings |-> cpu.warnings \o rt.warnings
                      \o (IF hp.is_valid THEN <<>> ELSE hp.errors)
                      \o pw.warnings,
         recommendations |-> cpu.recommendations \o rt.recommendations
                             \o hp.recommendations,
         hugepages_valid |-> hp.is_valid]

\* The tags of the messages of a list.
Tags(msgs) == {msgs[i][1] : i \in DOMAIN msgs}

=============================================================================
