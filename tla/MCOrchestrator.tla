--------------------------- MODULE MCOrchestrator ---------------------------
(***************************************************************************)
(* Instances of Orchestrator for TLC.                                      *)
(***************************************************************************)
EXTENDS Orchestrator

\* The spellings that the documentation, the comments and the code know.
MCSpellings == {"unset", "mock", "Mock", "groth16", "GROTH16", "real"}

\* ... and one that they do not mention.
MCOddSpellings == {"groth16", "plonk"}

\* Every await of main().
MCAwaits == {"anvil_wait", "genesis", "prover_wait", "vkey", "sequencer_wait",
             "transfer0", "transfer1", "settled", "parked"}
=============================================================================
