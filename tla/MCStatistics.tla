----------------------------- MODULE MCStatistics -----------------------------
(***************************************************************************)
(* Statistics for TLC: two statistics that may share a clock, a group or   *)
(* the one-shots of a time.                                                *)
(***************************************************************************)
EXTENDS Statistics

StatSymmetry == Permutations(Stats)

MCData == {<<1, 1>>, <<2, 4>>, <<1, 6>>}

Param(type, mode, rate, startat, stopat, reset, group) ==
    [type |-> type, mode |-> mode, rate |-> rate, startat |-> startat,
     stopat |-> stopat, reset |-> reset, group |-> group]

MCConfigs ==
    {Param("accumulator", "time", 2, 0, 0, TRUE, FALSE),
     Param("accumulator", "time", 0, 1, 3, FALSE, FALSE),
     Param("accumulator", "event", 2, 3, 1, TRUE, FALSE),
     Param("histogram", "time", 2, 1, 0, FALSE, TRUE),
     Param("histogram", "event", 3, 0, 1, TRUE, FALSE),
     Param("unique", "event", 2, 0, 3, FALSE, FALSE)}
=============================================================================
