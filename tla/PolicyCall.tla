----------------------------- MODULE PolicyCall -----------------------------
(***************************************************************************)
(* One call of ag_policy_evaluate (policy.c): the arguments, and then the  *)
(* decision.                                                               *)
(***************************************************************************)
EXTENDS Policy

CONSTANTS
    CallConfigs,      \* the configurations it may be called with
    CallFrequencies   \* and the frequencies

\* ag_config_load guarantees this of a configuration; see Config.
ASSUME PolicyCallAssumption ==
    /\ CallConfigs \subseteq Configs /\ \A c \in CallConfigs : DistinctRows(c)
    /\ CallFrequencies \subseteq Int

VARIABLES
    config, has_frequency, frequency, antenna,  \* the arguments
    decision                                    \* <<what the call returned>>

call_vars == <<config, has_frequency, frequency, antenna, decision>>

CallInit ==
    /\ config \in CallConfigs
    /\ has_frequency \in BOOLEAN
    /\ frequency \in CallFrequencies
    /\ antenna \in Names
    /\ decision = <<>>

Evaluate ==
    /\ decision = <<>>
    /\ decision' = <<ag_policy_evaluate(config, has_frequency, frequency, antenna)>>
    /\ UNCHANGED <<config, has_frequency, frequency, antenna>>

CallSpec == CallInit /\ [][Evaluate]_call_vars

(***************************************************************************)
(* The decision of the ordered tests, first matching row and first band of *)
(* ag_policy_evaluate is the one the allow matrix prescribes.              *)
(***************************************************************************)
DecisionMatchesMatrix ==
    decision # <<>> =>
        (decision[1].allowed <=> Permitted(config, has_frequency, frequency, antenna))
=============================================================================
