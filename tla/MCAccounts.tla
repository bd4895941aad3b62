----------------------------- MODULE MCAccounts -----------------------------
(* Three registrations for two addresses, one of them written in two ways    *)
(* and both possible for the agent.                                          *)
EXTENDS Accounts, TLC

CONSTANTS ann, Ann, ben

MCSpellings == {ann, Ann, ben}
MCNormalize == ann :> ann @@ Ann :> ann @@ ben :> ben
MCAgentAddresses == {ann, ben}
=============================================================================
