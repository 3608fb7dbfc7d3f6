---------------------------- MODULE MCTelemetry ----------------------------
(* Instances of Telemetry for TLC: see the configurations.                   *)
EXTENDS Telemetry

CONSTANTS v1, v2

(* Every language of a vehicle meets every language of the map.                *)
MCFleets == {[v \in {v1, v2} |-> IF v = v1 THEN "c" ELSE "python"],
             [v \in {v1, v2} |-> IF v = v1 THEN "ts" ELSE "dotnet"]}

(* The longest text of C, one that is rounded, and whole degrees.             *)
MCPositions == {<<-900000000, -361697842>>, <<-4, 835510716>>, <<510000000, -1700000000>>}
=============================================================================
