-------------------------- MODULE OrchestratorProofs --------------------------
(***************************************************************************)
(* The runs of Orchestrator, as many as there may be, do not get in each   *)
(* other's way: when one is over, everything it has started is.  The three *)
(* properties rest on it, because a run talks to whoever has a port.       *)
(***************************************************************************)
EXTENDS Orchestrator, TLAPS

\* Ctrl-C is pressed only once the batch has settled, as index.ts asks for: at any
\* other await main() may go on and start children that shutdown() does not know.
SignalsWhenParked == SignalAt \subseteq {"parked"}

\* The spellings of PROOF_MODE that the code and its comments mention.
SpellingsAreKnown ==
  Spellings \subseteq {"unset", "mock", "Mock", "MOCK",
                       "groth16", "Groth16", "GROTH16", "real"}

Deployed == {"sequencer_wait", "transfer0", "transfer1", "batch", "settled", "parked"}

\* The children of main() that exist are those of this run, they have the ports, and
\* a call of shutdown() waits for all of them.
ChildrenInv ==
  /\ alive \subseteq procs
  /\ procs \subseteq Service \X {run}
  /\ \A s \in Service : listening[s] # 0 => <<s, listening[s]>> \in alive
  /\ \A children \in shutdowns : children = procs
  /\ shutdowns # {} => pc \in {"thrown", "parked"}
  /\ pc = "off" => procs = {}
  /\ pc \in Deployed => <<"sequencer", run>> \in procs

ContractInv ==
  /\ pc \in Deployed => contract[run].verifier = verifier(env[run])
  /\ SettledOnOwnRollup

OrchInv ==
  /\ run \in 0..MaxRuns
  /\ pc # "off" => run \in Run
  /\ env \in [Run -> Environment]
  /\ listening \in [Service -> 0..MaxRuns]
  /\ contract \in [Run -> [verifier : {"none", "no_code", "mock", "groth16"}, batches : {0, 1}]]
  /\ ChildrenInv
  /\ ContractInv

----------------------------------------------------------------------------
(* The environment.                                                        *)

\* A verifier takes nothing but the kind of proof it is for.
LEMMA KindsOf ==
  ASSUME NEW e
  PROVE  /\ prove(e) \in {"degenerate", "mock", "groth16"}
         /\ verifier(e) \in {"no_code", "mock", "groth16"}
         /\ verifier(e) = prove(e) => PresetFits(e)
BY DEF prove, verifier, from_env, PresetFits

\* The three readings of PROOF_MODE agree on the spellings that are known.
LEMMA ReadingsAgree ==
  ASSUME SpellingsAreKnown, NEW e \in Environment, PresetFits(e)
  PROVE  verifier(e) = prove(e)
<1> DEFINE m == PROOF_MODE(e)
<1>1. m \in {"mock", "Mock", "MOCK", "groth16", "Groth16", "GROTH16", "real"}
  BY DEF SpellingsAreKnown, Environment, PROOF_MODE
<1>2. isMock(m) <=> m \in {"mock", "Mock", "MOCK"}
  BY <1>1 DEF isMock, lower
<1>3. from_env(m) = IF m \in {"mock", "Mock", "MOCK"} THEN "mock" ELSE "groth16"
  BY <1>1 DEF from_env, lower
<1>4. m # "mock" => proverBackend(e) # "mock"
  BY DEF proverBackend
<1> HIDE DEF m
<1>5. prove(e) = from_env(m)
  BY <1>3, <1>4 DEF prove, m
<1>6. QED
  BY <1>2, <1>3, <1>5 DEF verifier, PresetFits, m

----------------------------------------------------------------------------
(* The invariant.                                                          *)

\* Whoever has a port is of this run.
LEMMA PortsAreOwn ==
  ASSUME OrchInv, NEW s \in Service
  PROVE  listening[s] = 0 \/ listening[s] = run
BY DEF OrchInv, ChildrenInv

\* With no script running no port is taken.
LEMMA PortsAreFree ==
  ASSUME OrchInv, pc = "off", NEW s \in Service
  PROVE  listening[s] = 0 /\ alive = {}
BY DEF OrchInv, ChildrenInv

LEMMA StartStep ==
  ASSUME OrchInv, Start
  PROVE  OrchInv'
<1>1. /\ pc = "off" /\ run < MaxRuns /\ run' = run + 1
      /\ UNCHANGED <<env, shutdowns, killed, listening, contract>>
      /\ listening["anvil"] = 0 /\ alive = {} /\ procs = {} /\ shutdowns = {}
      /\ \A s \in Service : listening[s] = 0
  BY PortsAreFree DEF Start, OrchInv, ChildrenInv, Service
<1>2. \/ pc' = "genesis" /\ procs' = {} /\ alive' = {}
      \/ pc' = "anvil_wait" /\ procs' = {<<"anvil", run'>>} /\ alive' = procs'
  BY <1>1 DEF Start, Spawn
<1>3. run' \in Run /\ run' \in 0..MaxRuns
  BY <1>1, OrchestratorAssumption DEF OrchInv, Run
<1>4. ChildrenInv'
  BY <1>1, <1>2 DEF ChildrenInv, Service, Deployed
<1>5. ContractInv'
  BY <1>2 DEF ContractInv, SettledOnOwnRollup, Deployed
<1>6. QED
  BY <1>1, <1>3, <1>4, <1>5 DEF OrchInv

\* A step of main() that starts nothing and settles nothing.
LEMMA MainStep ==
  ASSUME OrchInv, AnvilWait \/ ProverUp \/ SequencerUp \/ Park
           \/ Transfer(0, "transfer0", "transfer1") \/ Transfer(1, "transfer1", "batch")
  PROVE  OrchInv'
<1>1. /\ UNCHANGED <<run, env, procs, shutdowns, alive, listening, contract>>
      /\ \/ pc = "anvil_wait" /\ pc' = "genesis"
         \/ pc = "prover_wait" /\ pc' = "vkey"
         \/ pc = "sequencer_wait" /\ pc' = "transfer0"
         \/ pc = "transfer0" /\ pc' = "transfer1"
         \/ pc = "transfer1" /\ pc' = "batch"
         \/ pc = "settled" /\ pc' = "parked"
  BY DEF AnvilWait, ProverUp, SequencerUp, Park, Transfer
<1>2. /\ pc # "off" /\ pc' # "off" /\ pc' \in Deployed => pc \in Deployed
      /\ pc \notin {"thrown", "parked"}
      /\ pc' \in {"settled", "parked"} => pc \in {"settled", "parked"}
  BY <1>1 DEF Deployed
<1>3. ChildrenInv'
  BY <1>1, <1>2 DEF OrchInv, ChildrenInv
<1>4. ContractInv'
  BY <1>1, <1>2 DEF OrchInv, ContractInv, SettledOnOwnRollup
<1>5. QED
  BY <1>1, <1>2, <1>3, <1>4 DEF OrchInv

LEMMA SpawnStep ==
  ASSUME OrchInv, StartProver \/ Deploy
  PROVE  OrchInv'
<1>1. PICK service \in Service :
        /\ alive' = alive \cup {<<service, run>>} /\ procs' = procs \cup {<<service, run>>}
        /\ pc' \in Deployed => service = "sequencer"
  BY DEF StartProver, Deploy, Spawn, Service, Deployed
<1>2. /\ UNCHANGED <<run, env, shutdowns, listening>>
      /\ pc \in {"genesis", "vkey"} /\ pc' \in {"prover_wait", "sequencer_wait"}
  BY DEF StartProver, Deploy
<1>3. ChildrenInv'
  BY <1>1, <1>2 DEF OrchInv, ChildrenInv
<1>4. run \in Run
  BY <1>2 DEF OrchInv
<1>5. CASE StartProver
  <2>1. UNCHANGED contract /\ pc' = "prover_wait"
    BY <1>5 DEF StartProver
  <2>2. ContractInv'
    BY <2>1 DEF ContractInv, SettledOnOwnRollup, Deployed
  <2> QED BY <1>2, <1>3, <1>4, <2>1, <2>2 DEF OrchInv
<1>6. CASE Deploy
  <2>1. /\ contract' = [contract EXCEPT ![run] = [verifier |-> verifier(env[run]), batches |-> 0]]
        /\ pc' = "sequencer_wait"
    BY <1>6 DEF Deploy
  <2>2. /\ contract'[run].verifier = verifier(env[run])
        /\ contract' \in [Run -> [verifier : {"none", "no_code", "mock", "groth16"},
                                  batches : {0, 1}]]
    <3>1. verifier(env[run]) \in {"no_code", "mock", "groth16"}
      BY KindsOf
    <3>2. contract \in [Run -> [verifier : {"none", "no_code", "mock", "groth16"},
                                batches : {0, 1}]]
      BY DEF OrchInv
    <3> QED BY <1>4, <2>1, <3>1, <3>2
  <2>3. ContractInv'
    BY <1>2, <2>1, <2>2 DEF ContractInv, SettledOnOwnRollup
  <2> QED BY <1>2, <1>3, <1>4, <2>1, <2>2, <2>3 DEF OrchInv
<1>7. QED
  BY <1>5, <1>6

\* The batch settles on the contract of this run, and only a fitting verifier takes it.
LEMMA BatchStep ==
  ASSUME OrchInv, Batch
  PROVE  OrchInv'
<1> DEFINE m     == listening["sequencer"]
           p     == listening["prover"]
           owner == IF env[m].network = "anvil" THEN listening["anvil"] ELSE m
<1>1. /\ pc = "batch" /\ pc' = "settled"
      /\ m # 0 /\ p # 0 /\ RollupOf(m).verifier = prove(env[p])
      /\ contract' = [contract EXCEPT ![owner].batches = 1]
      /\ UNCHANGED <<run, env, procs, shutdowns, alive, listening>>
  BY DEF Batch, Settles
<1>2. m = run /\ p = run
  BY <1>1, PortsAreOwn DEF Service
<1>3. owner # 0
  <2>1. NoContract.verifier = "none"
    BY DEF NoContract
  <2>2. owner = 0 => RollupOf(m) = NoContract
    BY DEF RollupOf
  <2> HIDE DEF owner
  <2> QED BY <1>1, <2>1, <2>2, KindsOf
<1>4. owner = run
  BY <1>2, <1>3, PortsAreOwn DEF Service
<1>5. run \in Run /\ contract[run].verifier = verifier(env[run])
  BY <1>1 DEF OrchInv, ContractInv, Deployed
<1>6. contract[run].verifier = prove(env[run])
  BY <1>1, <1>2, <1>3, <1>4 DEF RollupOf, SameAddress
<1> HIDE DEF m, p, owner
<1>7. PresetFits(env[run])
  BY <1>5, <1>6, KindsOf
<1>8. /\ contract' \in [Run -> [verifier : {"none", "no_code", "mock", "groth16"},
                                batches : {0, 1}]]
      /\ contract'[run].verifier = contract[run].verifier
      /\ contract'[run].batches = 1
  <2>1. contract \in [Run -> [verifier : {"none", "no_code", "mock", "groth16"},
                              batches : {0, 1}]]
    BY DEF OrchInv
  <2> QED BY <1>1, <1>4, <1>5, <2>1
<1>9. ChildrenInv'
  BY <1>1 DEF OrchInv, ChildrenInv, Deployed
<1>10. ContractInv'
  BY <1>1, <1>5, <1>7, <1>8 DEF ContractInv, SettledOnOwnRollup, Deployed, PresetFits
<1>11. QED
  BY <1>1, <1>5, <1>8, <1>9, <1>10 DEF OrchInv

\* main() rejects: what it waits for from then on is all that it has started.
LEMMA FailStep ==
  ASSUME OrchInv, Fail
  PROVE  OrchInv'
<1>1. /\ pc \notin {"off", "thrown", "parked"} /\ pc' = "thrown"
      /\ shutdowns' = shutdowns \cup {procs}
      /\ UNCHANGED <<run, env, procs, alive, listening, contract>>
  BY DEF Fail, throw, shutdown
<1>2. ChildrenInv'
  BY <1>1 DEF OrchInv, ChildrenInv, Deployed
<1>3. ContractInv'
  BY <1>1 DEF ContractInv, SettledOnOwnRollup, Deployed
<1>4. QED
  BY <1>1, <1>2, <1>3 DEF OrchInv

\* A signal finds the sequencer among the children, and main() at its last await.
LEMMA SignalStep ==
  ASSUME OrchInv, SignalsWhenParked, Signal
  PROVE  OrchInv'
<1>1. pc = "parked"
  BY DEF Signal, SignalsWhenParked
<1>2. procs # {}
  BY <1>1 DEF OrchInv, ChildrenInv, Deployed
<1>3. /\ pc' = pc /\ shutdowns' = shutdowns \cup {procs}
      /\ UNCHANGED <<run, env, procs, alive, listening, contract>>
  BY <1>2 DEF Signal, shutdown
<1>4. ChildrenInv'
  BY <1>1, <1>3 DEF OrchInv, ChildrenInv
<1>5. ContractInv'
  BY <1>3 DEF OrchInv, ContractInv, SettledOnOwnRollup
<1>6. QED
  BY <1>3, <1>4, <1>5 DEF OrchInv

\* The script leaves only when all that it has started is gone.
LEMMA ExitStep ==
  ASSUME OrchInv, Exit
  PROVE  OrchInv'
<1>1. PICK children \in shutdowns : children \cap alive = {}
  BY DEF Exit
<1>2. alive = {}
  BY <1>1 DEF OrchInv, ChildrenInv
<1>3. /\ pc' = "off" /\ procs' = {} /\ shutdowns' = {}
      /\ UNCHANGED <<run, env, alive, listening, contract>>
  BY DEF Exit
<1>4. ChildrenInv'
  BY <1>2, <1>3 DEF OrchInv, ChildrenInv, Deployed
<1>5. ContractInv'
  BY <1>3 DEF ContractInv, SettledOnOwnRollup, Deployed
<1>6. QED
  BY <1>3, <1>4, <1>5 DEF OrchInv

LEMMA ListenStep ==
  ASSUME OrchInv, NEW s \in Service, NEW n \in Run, Listen(s, n)
  PROVE  OrchInv'
<1>1. /\ <<s, n>> \in alive
      /\ listening' = [listening EXCEPT ![s] = n]
      /\ UNCHANGED <<run, env, pc, procs, shutdowns, alive, contract>>
  BY DEF Listen
<1>2. n \in 0..MaxRuns /\ listening \in [Service -> 0..MaxRuns]
  BY OrchestratorAssumption DEF Run, OrchInv
<1>3. ChildrenInv'
  BY <1>1, <1>2 DEF OrchInv, ChildrenInv
<1>4. ContractInv'
  BY <1>1 DEF OrchInv, ContractInv, SettledOnOwnRollup
<1>5. QED
  BY <1>1, <1>2, <1>3, <1>4 DEF OrchInv

\* A process that ends gives its port back.
LEMMA DieStep ==
  ASSUME OrchInv, NEW s \in Service, NEW n \in Run, Die(s, n)
  PROVE  OrchInv'
<1>1. /\ alive' = alive \ {<<s, n>>}
      /\ listening' = [listening EXCEPT ![s] = IF @ = n THEN 0 ELSE @]
      /\ UNCHANGED <<run, env, pc, procs, shutdowns, contract>>
  BY DEF Die
<1>2. listening \in [Service -> 0..MaxRuns] /\ listening' \in [Service -> 0..MaxRuns]
  BY <1>1, OrchestratorAssumption DEF OrchInv
<1>3. ChildrenInv'
  BY <1>1, <1>2 DEF OrchInv, ChildrenInv
<1>4. ContractInv'
  BY <1>1 DEF OrchInv, ContractInv, SettledOnOwnRollup
<1>5. QED
  BY <1>1, <1>2, <1>3, <1>4 DEF OrchInv

LEMMA InitOrch ==
  ASSUME Init
  PROVE  OrchInv
BY OrchestratorAssumption
   DEF Init, OrchInv, ChildrenInv, ContractInv, SettledOnOwnRollup, Deployed, NoContract

LEMMA StepOrch ==
  ASSUME OrchInv, SignalsWhenParked, [Next]_vars
  PROVE  OrchInv'
<1>1. CASE main
  BY <1>1, MainStep, SpawnStep, BatchStep, FailStep DEF main
<1>2. CASE \E service \in Service, n \in Run : Listen(service, n) \/ Die(service, n)
  BY <1>2, ListenStep, DieStep
<1>3. CASE UNCHANGED vars
  BY <1>3 DEF vars, OrchInv, ChildrenInv, ContractInv, SettledOnOwnRollup
<1>4. QED
  BY <1>1, <1>2, <1>3, StartStep, SignalStep, ExitStep DEF Next, Rest

\* As long as Ctrl-C is pressed only where index.ts asks for it, all that exists, all
\* that has a port and all that shutdown() waits for are the children of this run.
THEOREM OrchInvariance ==
  ASSUME SignalsWhenParked
  PROVE  Spec => []OrchInv
BY InitOrch, StepOrch, PTL DEF Spec

----------------------------------------------------------------------------
(* The properties.                                                         *)

\* NoOrphans: when the script is over, on whatever path it got there (a deadline, an
\* error in any answer, Ctrl-C after the batch), none of its children is left.
THEOREM RunsLeaveNothing ==
  ASSUME SignalsWhenParked
  PROVE  Spec => []NoOrphans
<1>1. OrchInv => NoOrphans
  BY DEF OrchInv, ChildrenInv, NoOrphans
<1>2. QED
  BY <1>1, OrchInvariance, PTL

\* SettledOnOwnRollup: a run that reports a settled batch has settled it on the
\* contract it has deployed, with a verifier that fits, for all environments of all
\* the runs before it. The spellings of PROOF_MODE need not be known for that.
THEOREM SettledOnOwn ==
  ASSUME SignalsWhenParked
  PROVE  Spec => []SettledOnOwnRollup
<1>1. OrchInv => SettledOnOwnRollup
  BY DEF OrchInv, ContractInv
<1>2. QED
  BY <1>1, OrchInvariance, PTL

\* PairsProverWithVerifier: with the spellings the code knows, the contract takes the
\* proofs of whichever prover answers the run.
THEOREM ProverFitsVerifier ==
  ASSUME SignalsWhenParked, SpellingsAreKnown
  PROVE  Spec => []PairsProverWithVerifier
<1>1. OrchInv => PairsProverWithVerifier
  <2> SUFFICES ASSUME OrchInv, pc \in Driving, listening["prover"] # 0, PresetFits(env[run])
               PROVE  contract[run].verifier = prove(env[listening["prover"]])
    BY DEF PairsProverWithVerifier
  <2>1. pc \in Deployed /\ pc # "off"
    BY DEF Driving, Deployed
  <2>2. listening["prover"] = run
    BY PortsAreOwn DEF Service
  <2>3. contract[run].verifier = verifier(env[run])
    BY <2>1 DEF OrchInv, ContractInv
  <2>4. env[run] \in Environment
    BY <2>1 DEF OrchInv
  <2>5. verifier(env[run]) = prove(env[run])
    BY <2>4, ReadingsAgree
  <2>6. QED
    BY <2>2, <2>3, <2>5
<1>2. QED
  BY <1>1, OrchInvariance, PTL
=============================================================================
