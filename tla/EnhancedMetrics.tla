-------------------------- MODULE EnhancedMetrics --------------------------
(***************************************************************************)
(* proc/, metrics/enhanced: what is read of the machine at the start and   *)
(* at the end of an invocation and in between, and the metrics made of it. *)
(*                                                                         *)
(* A machine is what can be read of it: [net, stat, ticks, uptime, pids,   *)
(* tmp]: the lines of /proc/net/dev, [interface, rx, tx]; those of         *)
(* /proc/stat, [label, user, system, idle]; clock ticks a second; the      *)
(* uptime in hundredths; the processes, [fd, tasks, files, procs]: open    *)
(* descriptors, threads and the limits on both; and the blocks of /tmp.    *)
(* What cannot be read or parsed is <<>>, else <<value>>: a process may    *)
(* end after it was listed.  Metrics are a function from names to values,  *)
(* a share is [n, d].                                                      *)
(*                                                                         *)
(* Definitions whose name starts with Mut are plausible wrong versions of  *)
(* the definition that follows them; the runs' properties are shown to     *)
(* reject them.                                                            *)
(***************************************************************************)
EXTENDS Integers, Sequences, SequencesExt, FiniteSetsExt, TLC

CONSTANTS DEFAULT_LIMIT,     \* descriptors and processes of a sandbox (1024)
          BASE_PRICE, PRICE  \* of an invocation, and of a megabyte for a millisecond
ASSUME EnhancedMetricsAssumption == DEFAULT_LIMIT \in Nat /\ BASE_PRICE \in Nat /\ PRICE \in Nat

Some(option) == option # <<>>
None == <<>>
SumOf(values) == FoldLeft(LAMBDA sum, v : sum + v, 0, values)

\* The first interface of the sandbox decides, even if its counters are not there.
get_network_data(machine) ==
  LET i == SelectInSeq(machine.net, LAMBDA l : l.interface \in {"vinternal_1", "vint_runtime", "Ceth1"})
      line == machine.net[i]
  IN IF i = 0 \/ ~Some(line.rx) \/ ~Some(line.tx) THEN None ELSE <<[rx |-> line.rx[1], tx |-> line.tx[1]]>>

\* The line of all cores and one of each; one that cannot be read, no clock or no
\* core is an error.
get_cpu_data(machine) ==
  LET total == SelectSeq(machine.stat, LAMBDA l : l.label = "cpu")
      cores == SelectSeq(machine.stat, LAMBDA l : l.label \in {"cpu0", "cpu1"})
      Ms(ticks) == (ticks * 1000) \div machine.ticks[1]
      Legible(l) == Some(l.idle) /\ (l.label = "cpu" => Some(l.user) /\ Some(l.system))
  IN IF \/ ~Some(machine.ticks) \/ cores = <<>> \/ \E i \in DOMAIN total : ~Legible(total[i])
        \/ \E i \in DOMAIN cores : ~Legible(cores[i])
       THEN None
     ELSE <<[user |-> IF total = <<>> THEN 0 ELSE Ms(Last(total).user[1]), system |-> IF total = <<>> THEN 0 ELSE Ms(Last(total).system[1]),
             idle |-> IF total = <<>> THEN 0 ELSE Ms(Last(total).idle[1]),
             cores |-> [c \in {cores[i].label : i \in DOMAIN cores} |->
                          Ms(cores[SelectLastInSeq(cores, LAMBDA l : l.label = c)].idle[1])]]>>

get_uptime(machine) == IF Some(machine.uptime) THEN <<machine.uptime[1] * 10>> ELSE None

\* Limits are the smallest of those that can be read; descriptors are counted where
\* they can be, threads only if all can.
Limit(option, least) == IF Some(option) THEN Min({least, option[1]}) ELSE least
get_fd_max_data(pids) == FoldLeft(LAMBDA least, p : Limit(p.files, least), DEFAULT_LIMIT, pids)
get_threads_max_data(pids) == FoldLeft(LAMBDA least, p : Limit(p.procs, least), DEFAULT_LIMIT, pids)
get_fd_use_data(pids) == SumOf([i \in DOMAIN pids |-> IF Some(pids[i].fd) THEN pids[i].fd[1] ELSE 0])
get_threads_use_data(pids) ==
  IF \E i \in DOMAIN pids : ~Some(pids[i].tasks) THEN None ELSE <<SumOf([i \in DOMAIN pids |-> pids[i].tasks[1]])>>
get_tmp_max(machine) == IF Some(machine.tmp) THEN <<machine.tmp[1].bsize * machine.tmp[1].blocks>> ELSE None
get_tmp_used(machine) == IF Some(machine.tmp) THEN <<machine.tmp[1].bsize * (machine.tmp[1].blocks - machine.tmp[1].available)>> ELSE None
-----------------------------------------------------------------------------
generate_network_enhanced_metrics(offset, end) ==
  LET rx == end.rx - offset.rx
      tx == end.tx - offset.tx
  IN "rx_bytes" :> rx @@ "tx_bytes" :> tx @@ "total_network" :> rx + tx
set_network_enhanced_metrics(offset, machine) ==
  LET data == get_network_data(machine)
  IN IF Some(offset) /\ Some(data) THEN generate_network_enhanced_metrics(offset[1], data[1]) ELSE <<>>

generate_cpu_time_enhanced_metrics(offset, end) ==
  LET user == end.user - offset.user
      system == end.system - offset.system
  IN "cpu_user_time" :> user @@ "cpu_system_time" :> system @@ "cpu_total_time" :> user + system
set_cpu_time_enhanced_metrics(offset, machine) ==
  LET data == get_cpu_data(machine)
  IN IF Some(offset) /\ Some(data) THEN generate_cpu_time_enhanced_metrics(offset[1], data[1]) ELSE <<>>

\* The share of time a core was not idle, none below 0.  Without a core known at
\* both times the smallest idle time is the largest number there is.
Share(time, idle) == [n |-> Max({0, time - idle}), d |-> time]
MutTotalOfOneCore(uptime, cores, idle) == Share(uptime, idle)
TotalShare(uptime, cores, idle) == Share(uptime * cores, idle)
generate_cpu_utilization_enhanced_metrics(offset, end, uptime_offset, uptime_end) ==
  LET uptime == uptime_end - uptime_offset
      common == DOMAIN end.cores \cap DOMAIN offset.cores
      idles == {Max({0, end.cores[c] - offset.cores[c]}) : c \in common}
      least == IF idles = {} THEN uptime ELSE Min(idles)
      cores == Cardinality(DOMAIN end.cores)
  IN IF uptime <= 0 THEN <<>>
     ELSE "num_cores" :> cores @@ "cpu_max_utilization" :> Share(uptime, least) @@ "cpu_min_utilization" :> Share(uptime, Max({0} \cup idles))
            @@ "cpu_total_utilization_pct" :> TotalShare(uptime, cores, end.idle - offset.idle)
set_cpu_utilization_enhanced_metrics(offset, uptime_offset, machine) ==
  LET data == get_cpu_data(machine)
      uptime == get_uptime(machine)
  IN IF Some(offset) /\ Some(data) /\ Some(uptime_offset) /\ Some(uptime)
       THEN generate_cpu_utilization_enhanced_metrics(offset[1], data[1], uptime_offset[1], uptime[1]) ELSE <<>>

\* UsageMetrics::update, at every tick while an invocation runs.
Usage == [tmp_used |-> 0, fd_use |-> 0, threads_use |-> 0]
update(usage, machine) ==
  LET Peak(old, option) == IF Some(option) /\ option[1] > old THEN option[1] ELSE old
  IN [tmp_used |-> Peak(usage.tmp_used, get_tmp_used(machine)), fd_use |-> Peak(usage.fd_use, <<get_fd_use_data(machine.pids)>>),
      threads_use |-> Peak(usage.threads_use, get_threads_use_data(machine.pids))]
set_usage_enhanced_metrics(usage, machine) ==
  LET max == get_tmp_max(machine)
      Positive(name, value) == IF value > 0 THEN name :> value ELSE <<>>
  IN Positive("tmp_used", usage.tmp_used) @@ Positive("fd_use", usage.fd_use) @@ Positive("threads_use", usage.threads_use)
       @@ (IF usage.tmp_used > 0 /\ Some(max) THEN "tmp_max" :> max[1] @@ "tmp_free" :> max[1] - usage.tmp_used ELSE <<>>)
set_max_enhanced_metrics(machine) ==
  "fd_max" :> get_fd_max_data(machine.pids) @@ "threads_max" :> get_threads_max_data(machine.pids)

calculate_estimated_cost_usd(billed_ms, memory_mb) == BASE_PRICE + billed_ms * memory_mb * PRICE
set_report_log_metrics(report) ==
  "duration" :> report.duration
    @@ (IF report.managed THEN <<>>
        ELSE "billed_duration" :> report.billed @@ "max_memory_used" :> report.used @@ "memorysize" :> report.size
               @@ "estimated_cost" :> calculate_estimated_cost_usd(report.billed, report.size))

\* An invocation with DD_ENHANCED_METRICS set or not.
MetricsOf(x) ==
  IF ~x.enabled THEN <<>>
  ELSE set_network_enhanced_metrics(get_network_data(x.start), x.end) @@ set_cpu_time_enhanced_metrics(get_cpu_data(x.start), x.end)
         @@ set_cpu_utilization_enhanced_metrics(get_cpu_data(x.start), get_uptime(x.start), x.end)
         @@ set_usage_enhanced_metrics(FoldLeft(update, Usage, x.samples), x.end) @@ set_max_enhanced_metrics(x.end)
         @@ set_report_log_metrics(x.report)
=============================================================================
