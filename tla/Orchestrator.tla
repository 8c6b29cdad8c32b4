---------------------------- MODULE Orchestrator ----------------------------
(***************************************************************************)
(* index.ts, run after run: the script starts anvil, prover-svc and the    *)
(* sequencer as child processes, deploys the contract (Deploy.s.sol) and   *)
(* drives one batch.  The script is one thread: an action of main() is     *)
(* what it does between two awaits, and at an await a signal may start     *)
(* shutdown(), whose own await main() does not wait for.                   *)
(***************************************************************************)
EXTENDS Naturals

CONSTANTS MaxRuns,    \* bound: how often the script is started
          Spellings,  \* values of PROOF_MODE, "unset" among them
          Backends,   \* values of SP1_PROVER, "unset" among them
          Presets,    \* of SP1_VERIFIER: "unset", or "sepolia" for a Groth16 verifier there
          SignalAt    \* where in main() Ctrl-C may be pressed

ASSUME OrchestratorAssumption == MaxRuns \in Nat

Run == 1..MaxRuns

Network == {"anvil", "sepolia"}

Environment == [network : Network, mode : Spellings,
                backend : Backends, preset : Presets]

Service == {"anvil", "prover", "sequencer"}

VARIABLES run,        \* the number of the run, 0 before the first
          env,        \* the environment of each run
          pc,         \* where main() is; "off": no script runs; "thrown": main() has rejected
          procs,      \* the children of this run
          shutdowns,  \* for each call of shutdown(), the children it waits for
          alive,      \* the child processes of all runs that exist
          killed,     \* those that were sent SIGTERM
          listening,  \* whose process has the port of a service, 0 for none
          contract,   \* the Rollup that each run has deployed
          nonce       \* for each sequencer, the next nonce it accepts from alice

vars == <<run, env, pc, procs, shutdowns, alive, killed, listening, contract, nonce>>

----------------------------------------------------------------------------
(* PROOF_MODE and SP1_PROVER, read in three languages.                     *)

lower(s) ==
  CASE s \in {"Mock", "MOCK"} -> "mock"
    [] s \in {"Groth16", "GROTH16"} -> "groth16"
    [] OTHER -> s

\* index.ts: the value all its children get.
PROOF_MODE(e) ==
  IF e.mode # "unset" THEN e.mode
  ELSE IF e.network = "sepolia" THEN "groth16" ELSE "mock"

\* index.ts: real proofs need a real backend.
proverBackend(e) ==
  IF PROOF_MODE(e) # "mock"
  THEN IF e.backend \in {"unset", "mock"} THEN "cpu" ELSE e.backend
  ELSE IF e.backend = "unset" THEN "mock" ELSE e.backend

\* ProofMode::from_env.
from_env(s) == IF lower(s) \in {"groth16", "real"} THEN "groth16" ELSE "mock"

\* sp1_script::prove. The mock backend has no bytes for a Groth16 proof.
prove(e) ==
  IF from_env(PROOF_MODE(e)) = "groth16" /\ proverBackend(e) = "mock"
  THEN "degenerate"
  ELSE from_env(PROOF_MODE(e))

\* Mutant: the spelling is compared as it is.
isMockVerbatim(s) == s = "mock"

\* Deploy._isMock.
isMock(s) == lower(s) = "mock"

\* Deploy.run. forge gets the whole environment, so that SP1_VERIFIER counts on
\* anvil too, where there is no code at its address.
verifier(e) ==
  IF e.preset # "unset"
  THEN IF e.network = "sepolia" THEN "groth16" ELSE "no_code"
  ELSE IF isMock(PROOF_MODE(e)) THEN "mock" ELSE "groth16"

----------------------------------------------------------------------------

NoContract == [verifier |-> "none", batches |-> 0]

\* The Rollup is the deployer's first contract where the verifier is preset, and
\* its second where Deploy.run creates the verifier. On a fresh anvil the address
\* depends on nothing else.
SameAddress(m, n) == env[m].preset = "unset" <=> env[n].preset = "unset"

\* The contract that a run's sequencer finds at its ROLLUP_ADDRESS: on anvil, what
\* has this address on whichever anvil has the port.
RollupOf(n) ==
  LET owner == IF env[n].network = "anvil" THEN listening["anvil"] ELSE n
  IN  IF owner = 0 \/ ~SameAddress(n, owner) THEN NoContract ELSE contract[owner]

Init ==
  /\ run = 0
  /\ env \in [Run -> Environment]
  /\ pc = "off"
  /\ procs = {}
  /\ shutdowns = {}
  /\ alive = {}
  /\ killed = {}
  /\ listening = [s \in Service |-> 0]
  /\ contract = [n \in Run |-> NoContract]
  /\ nonce = [n \in Run |-> 0]

Spawn(n, service) ==
  /\ alive' = alive \cup {<<service, n>>}
  /\ procs' = procs \cup {<<service, n>>}

\* shutdown() up to its await: the children of that moment are killed and waited for.
shutdown ==
  /\ killed' = killed \cup procs
  /\ shutdowns' = shutdowns \cup {procs}

\* Mutant: nothing is killed when main() rejects.
throw_and_leave ==
  /\ pc' = "thrown"
  /\ shutdowns' = shutdowns \cup {{}}
  /\ UNCHANGED <<run, env, procs, alive, killed, listening, contract, nonce>>

\* main().catch
throw ==
  /\ pc' = "thrown"
  /\ shutdown
  /\ UNCHANGED <<run, env, procs, alive, listening, contract, nonce>>

----------------------------------------------------------------------------
(* main()                                                                  *)

\* Preflight and anvil. The only port that is checked is anvil's.
Start ==
  /\ pc = "off"
  /\ run < MaxRuns
  /\ run' = run + 1
  /\ IF env[run'].network = "sepolia"
     THEN pc' = "genesis" /\ UNCHANGED <<procs, alive>>
     ELSE IF listening["anvil"] # 0
     THEN UNCHANGED <<pc, procs, alive>>
     ELSE pc' = "anvil_wait" /\ Spawn(run', "anvil")
  /\ UNCHANGED <<env, shutdowns, killed, listening, contract, nonce>>

\* Mutant: no deadline.
AnvilWaitForever ==
  /\ pc = "anvil_wait"
  /\ listening["anvil"] # 0
  /\ pc' = "genesis"
  /\ UNCHANGED <<run, env, procs, shutdowns, alive, killed, listening, contract, nonce>>

\* Anvil answers or 30 seconds are over: main() goes on in either case.
AnvilWait ==
  /\ pc = "anvil_wait"
  /\ pc' = "genesis"
  /\ UNCHANGED <<run, env, procs, shutdowns, alive, killed, listening, contract, nonce>>

\* genesis.json is written: compute-root, and prover-svc.
StartProver ==
  /\ pc = "genesis"
  /\ pc' = "prover_wait"
  /\ Spawn(run, "prover")
  /\ UNCHANGED <<run, env, shutdowns, killed, listening, contract, nonce>>

\* /health, from whoever has the port.
ProverUp ==
  /\ pc = "prover_wait"
  /\ listening["prover"] # 0
  /\ pc' = "vkey"
  /\ UNCHANGED <<run, env, procs, shutdowns, alive, killed, listening, contract, nonce>>

\* /info has answered: forge deploys, and the sequencer.
Deploy ==
  /\ pc = "vkey"
  /\ listening["prover"] # 0
  /\ env[run].network = "anvil" => listening["anvil"] # 0
  /\ contract' = [contract EXCEPT ![run] = [verifier |-> verifier(env[run]), batches |-> 0]]
  /\ Spawn(run, "sequencer")
  /\ pc' = "sequencer_wait"
  /\ UNCHANGED <<run, env, shutdowns, killed, listening, nonce>>

SequencerUp ==
  /\ pc = "sequencer_wait"
  /\ listening["sequencer"] # 0
  /\ pc' = "transfer0"
  /\ UNCHANGED <<run, env, procs, shutdowns, alive, killed, listening, contract, nonce>>

\* The two transfers of alice, with nonces 0 and 1.
Transfer(k, here, next) ==
  LET m == listening["sequencer"]
  IN  /\ pc = here
      /\ m # 0
      /\ nonce[m] = k
      /\ nonce' = [nonce EXCEPT ![m] = k + 1]
      /\ pc' = next
      /\ UNCHANGED <<run, env, procs, shutdowns, alive, killed, listening, contract>>

\* Does POST /batch settle, given who has the ports?
Settles ==
  LET m == listening["sequencer"]
      p == listening["prover"]
  IN  /\ m # 0 /\ p # 0
      /\ RollupOf(m).verifier = prove(env[p])
      /\ RollupOf(m).batches = 0

\* Mutant: an error in the answer of /batch is not looked at.
BatchAnyAnswer ==
  /\ pc = "batch"
  /\ pc' = "settled"
  /\ UNCHANGED <<run, env, procs, shutdowns, alive, killed, listening, contract, nonce>>

\* curl, without an await.
Batch ==
  LET m     == listening["sequencer"]
      owner == IF env[m].network = "anvil" THEN listening["anvil"] ELSE m
  IN  /\ pc = "batch"
      /\ Settles
      /\ contract' = [contract EXCEPT ![owner].batches = 1]
      /\ pc' = "settled"
      /\ UNCHANGED <<run, env, procs, shutdowns, alive, killed, listening, nonce>>

\* The final balances are printed: main() waits for a signal.
Park ==
  /\ pc = "settled"
  /\ pc' = "parked"
  /\ UNCHANGED <<run, env, procs, shutdowns, alive, killed, listening, contract, nonce>>

\* A wait runs into its deadline, a command fails or a service answers an error.
Fail ==
  /\ pc \in {"genesis", "prover_wait", "vkey", "sequencer_wait",
             "transfer0", "transfer1", "batch", "settled"}
  /\ throw

main ==
  \/ AnvilWait \/ StartProver \/ ProverUp \/ Deploy \/ SequencerUp
  \/ Transfer(0, "transfer0", "transfer1") \/ Transfer(1, "transfer1", "batch")
  \/ Batch \/ Park \/ Fail

----------------------------------------------------------------------------
(* Signals, and the end of the script.                                     *)

\* With no children to wait for, the script is over before main() can go on.
Signal ==
  /\ pc \in SignalAt
  /\ procs \notin shutdowns
  /\ IF procs = {}
     THEN pc' = "off" /\ UNCHANGED <<killed, shutdowns>>
     ELSE shutdown /\ UNCHANGED pc
  /\ UNCHANGED <<run, env, procs, alive, listening, contract, nonce>>

\* One of the calls of shutdown() has seen its children exit: process.exit.
Exit ==
  /\ \E children \in shutdowns : children \cap alive = {}
  /\ pc' = "off"
  /\ procs' = {}
  /\ shutdowns' = {}
  /\ UNCHANGED <<run, env, alive, killed, listening, contract, nonce>>

----------------------------------------------------------------------------
(* The child processes.                                                    *)

\* Sequencer main: it needs the prover's /info, and a contract at genesis.
CanServe(service, n) ==
  /\ listening[service] = 0
  /\ service = "sequencer" =>
       /\ listening["prover"] # 0
       /\ RollupOf(n).verifier # "none"
       /\ RollupOf(n).batches = 0

Listen(service, n) ==
  /\ <<service, n>> \in alive
  /\ CanServe(service, n)
  /\ listening' = [listening EXCEPT ![service] = n]
  /\ UNCHANGED <<run, env, pc, procs, shutdowns, alive, killed, contract, nonce>>

\* A process that was killed, or that cannot start.
Die(service, n) ==
  /\ <<service, n>> \in alive
  /\ \/ <<service, n>> \in killed
     \/ listening[service] # n /\ ~CanServe(service, n)
  /\ alive' = alive \ {<<service, n>>}
  /\ listening' = [listening EXCEPT ![service] = IF @ = n THEN 0 ELSE @]
  /\ UNCHANGED <<run, env, pc, procs, shutdowns, killed, contract, nonce>>

----------------------------------------------------------------------------

\* All runs are over.
Rest == pc = "off" /\ run = MaxRuns /\ UNCHANGED vars

Next ==
  \/ Start \/ main \/ Signal \/ Exit \/ Rest
  \/ \E service \in Service, n \in Run : Listen(service, n) \/ Die(service, n)

Spec == Init /\ [][Next]_vars

\* The event loop turns and timers fire, and a process that is killed dies. No
\* service is assumed to come up.
FairSpec ==
  /\ Spec
  /\ WF_vars(main) /\ WF_vars(Exit)
  /\ \A service \in Service, n \in Run : WF_vars(Die(service, n))

----------------------------------------------------------------------------
(* Properties.                                                             *)

Driving == {"transfer0", "transfer1", "batch", "settled", "parked"}

\* SP1_VERIFIER is set for what it is documented for: real proofs on Sepolia.
PresetFits(e) ==
  e.preset # "unset" => e.network = "sepolia" /\ from_env(PROOF_MODE(e)) = "groth16"

\* Whatever the spelling of PROOF_MODE and whatever SP1_PROVER says, the
\* contract a run has deployed takes the proofs of the prover that answers it.
PairsProverWithVerifier ==
  pc \in Driving /\ listening["prover"] # 0 /\ PresetFits(env[run]) =>
    contract[run].verifier = prove(env[listening["prover"]])

\* A run that reports a settled batch has settled it on the contract that it has
\* deployed itself, with a verifier that fits: no run passes for a success
\* that was given somebody else's verifier or contract.
SettledOnOwnRollup ==
  pc \in {"settled", "parked"} => contract[run].batches = 1 /\ PresetFits(env[run])

\* When the script is over none of its children is left, so that the next run
\* boots from a clean state.
NoOrphans == pc = "off" => alive = {}

\* A run gets to its settled batch or comes to an end, although no service is
\* certain to come up.
EveryRunEnds == pc # "off" ~> pc \in {"parked", "off"}
=============================================================================
