---------------------------- MODULE MCEvalSweep ----------------------------
(* An instance of EvalSweep for TLC: a control first, then the near-miss    *)
(* pair, in the order of RUN_ORDER.                                         *)
EXTENDS EvalSweep, TLC

MCKind ==
    ("no_fault_baseline" :> "control") @@ ("real_lift" :> "negative_confirmation")
    @@ ("shared_ip_spike" :> "fault_recall")

MCRunOrder == <<"no_fault_baseline", "real_lift", "shared_ip_spike">>
=============================================================================
