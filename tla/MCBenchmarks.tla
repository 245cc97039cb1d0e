----------------------------- MODULE MCBenchmarks -----------------------------
(* Instances of Benchmarks for TLC.                                          *)
EXTENDS Benchmarks, TLC

MCPlans(k) ==
    CASE k = "suite" -> {<<"bundle", "bundle">>}
      [] k = "speculative" -> {<<"trial", "trial">>}
      [] k = "acceptance" -> {<<"host", "visual">>, <<"host", "text">>}

MCCacheModes(k) == {k = "suite"}

MCSymmetry == Permutations(Processes)

===============================================================================
