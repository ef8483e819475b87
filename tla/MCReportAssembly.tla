---- MODULE MCReportAssembly ----
(* Small instances of ReportAssembly: two agents at most, reports of one or two packets. *)
EXTENDS ReportAssembly

Faults(lose, dup, swap, restart, delay) ==
  [k \in FaultKind |-> CASE k = "lose" -> lose [] k = "dup" -> dup
                         [] k = "swap" -> swap [] k = "restart" -> restart
                         [] k = "delay" -> delay]

AnyFaults == {Faults(1, 1, 1, 0, 1), Faults(0, 0, 0, 1, 0)}
LossOnly  == {Faults(1, 0, 0, 0, 1)}
====
