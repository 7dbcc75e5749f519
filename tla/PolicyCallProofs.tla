-------------------------- MODULE PolicyCallProofs --------------------------
(***************************************************************************)
(* A call of ag_policy_evaluate, with every configuration, frequency and   *)
(* antenna.                                                                *)
(***************************************************************************)
EXTENDS PolicyCall, PolicyProofs

\* The arguments are what the theorem on the matrix asks for; the decision,
\* once there is one, is theirs.
CallInv ==
    /\ config \in CallConfigs /\ has_frequency \in BOOLEAN
    /\ frequency \in CallFrequencies /\ antenna \in Names
    /\ decision = <<>>
          \/ decision = <<ag_policy_evaluate(config, has_frequency, frequency, antenna)>>

(***************************************************************************)
(* Every call of ag_policy_evaluate returns what the allow matrix          *)
(* prescribes for its arguments.                                           *)
(***************************************************************************)
THEOREM DecisionAlwaysMatches == CallSpec => []DecisionMatchesMatrix
<1>1. CallInit => CallInv
  BY DEF CallInit, CallInv
<1>2. CallInv /\ [Evaluate]_call_vars => CallInv'
  BY DEF CallInv, Evaluate, call_vars
<1>3. CallInv => DecisionMatchesMatrix
  <2> SUFFICES ASSUME CallInv, decision # <<>>
               PROVE  decision[1].allowed
                         <=> Permitted(config, has_frequency, frequency, antenna)
    BY DEF DecisionMatchesMatrix
  <2>1. decision[1] = ag_policy_evaluate(config, has_frequency, frequency, antenna)
    BY DEF CallInv
  <2>2. /\ config \in Configs /\ DistinctRows(config)
        /\ has_frequency \in BOOLEAN /\ frequency \in Int /\ antenna \in Names
    BY PolicyCallAssumption DEF CallInv
  <2> QED
    BY <2>1, <2>2, DecisionIsTheMatrix
<1> QED
  BY <1>1, <1>2, <1>3, PTL DEF CallSpec
=============================================================================
