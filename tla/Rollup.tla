------------------------------- MODULE Rollup -------------------------------
(***************************************************************************)
(* contracts/src/Rollup.sol: the settlement contract.  A transaction on L1 *)
(* is atomic, so a call of submitBatch is one step that either takes all   *)
(* its effects or reverts.                                                 *)
(***************************************************************************)
EXTENDS Stf

CONSTANT Verifier   \* the ISP1Verifier deployed with the contract

ProofKind == {"mock", "groth16"}

ASSUME VerifierAssumption == Verifier \in ProofKind

VARIABLES stateRoot,
          batchCount,
          settled      \* the BatchSettled events, in order

rollupVars == <<stateRoot, batchCount, settled>>

----------------------------------------------------------------------------

\* Where _verifier or _programVKey is zero the constructor reverts and there is no
\* contract; Verifier is one that exists, and a proof of another program is one
\* that VerifyProof does not take.
constructor(_genesisRoot) ==
  /\ stateRoot = _genesisRoot
  /\ batchCount = 0
  /\ settled = <<>>

\* ISP1Verifier.verifyProof. SP1MockVerifier takes the empty proof only, the
\* Groth16 verifier a real one only; that a proof it takes is one of these
\* public values is the soundness of the proof system, and assumed.
VerifyProof(proof) == proof = Verifier

\* Mutant: no StaleStateRoot check.
StaleAccepted(publicValues, proof) ==
  VerifyProof(proof) /\ publicValues.newRoot # ZeroRoot

\* None of the reverts: bad proof, StaleStateRoot, EmptyNewRoot.
Accepted(publicValues, proof) ==
  /\ VerifyProof(proof)
  /\ publicValues.prevRoot = stateRoot
  /\ publicValues.newRoot # ZeroRoot

submitBatch(publicValues, proof) ==
  /\ Accepted(publicValues, proof)
  /\ stateRoot' = publicValues.newRoot
  /\ batchCount' = WrappingSucc(batchCount)
  /\ settled' = Append(settled,
                  [batchNumber |-> batchCount',
                   prevRoot    |-> publicValues.prevRoot,
                   newRoot     |-> publicValues.newRoot,
                   batchHash   |-> publicValues.batchHash])

BatchSettled == [batchNumber : U64, prevRoot : Root, newRoot : Root, batchHash : Batch]
=============================================================================
