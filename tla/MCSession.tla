------------------------------ MODULE MCSession ------------------------------
(* A process of every mode; the settings that matter are those of paper.   *)
EXTENDS Session

Config(mode, account, client, once) ==
    [mode |-> mode, account |-> account, client |-> client, once |-> once]

MCConfigs ==
    {Config("paper", "paper", 0, FALSE), Config("paper", "paper", 0, TRUE),
     Config("paper", "paper", 7, FALSE), Config("paper", "none", 0, FALSE),
     Config("alert_only", "none", 7, FALSE), Config("live", "live", 0, FALSE)}
=============================================================================
