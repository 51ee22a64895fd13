--------------------------- MODULE ReportLifecycle ---------------------------
(***************************************************************************)
(* What becomes of a work report, as a service that waits for its work     *)
(* sees it: it is guaranteed at most once, it is accumulated at most once, *)
(* and only after everything it needs; a report that timed out, was judged *)
(* not good or waited too long never comes back.                           *)
(*                                                                         *)
(* WorkReports.tla implements this specification.                          *)
(***************************************************************************)
EXTENDS Naturals

CONSTANTS
    Report,       \* work reports
    Package,      \* work package hashes
    PackageOf,    \* PackageOf[r]: the package r was made from
    Needs         \* Needs[r]: the packages to be accumulated before r

VARIABLE stage    \* stage[r]: where the report stands

Stages == {"new", "pending", "queued", "accumulated", "gone"}

Successors ==
    [new |-> {"new", "pending"},
     pending |-> {"pending", "queued", "accumulated", "gone"},
     queued |-> {"queued", "accumulated", "gone"},
     accumulated |-> {"accumulated"},
     gone |-> {"gone"}]

AccumulatedIn(stages) == {PackageOf[r] : r \in {s \in Report : stages[s] = "accumulated"}}

Init == stage = [r \in Report |-> "new"]

\* A block moves any number of reports, each one by one stage.
Block ==
    /\ stage' \in [Report -> Stages]
    /\ \A r \in Report : stage'[r] \in Successors[stage[r]]
    /\ \A r \in Report : stage'[r] = "accumulated" => Needs[r] \subseteq AccumulatedIn(stage')

Spec == Init /\ [][Block]_stage
=============================================================================
