--------------------------- MODULE VerifyNetwork ---------------------------
(***************************************************************************)
(* Fulfillments on the verify-network router and the verdict the simulator *)
(* gives on them: local-verify-network.ts signs and sends them, and        *)
(* randomness-verification.ts, with verify-network-router.ts, reads them   *)
(* back from the transaction alone, for the router keeps none.             *)
(*                                                                         *)
(* keccak256 is injective: the id of a request is the request, a           *)
(* commitment what it commits to and the address of a node its key.        *)
(***************************************************************************)
EXTENDS Ecvrf, Sequences, SequencesExt

Router == "router"
Absent == -1   \* no word, no transaction hash

\* computeRequestId: every field is hashed in; the chain, the router and the
\* fields that only price the callback are left out.
ComputeRequestId(request) == request

\* fulfillmentTypedData.
FulfillmentDigest(id, proof) == <<id, proof>>

\* signLocalVrfFulfillment.
SignFulfillment(x, id, proof) == [by |-> PublicKey(x), over |-> FulfillmentDigest(id, proof)]

\* recoverFulfillmentSigner: a signature over something else recovers to some
\* other key, here to none.
RecoverFulfillmentSigner(id, proof, signature) ==
  IF signature.over = FulfillmentDigest(id, proof) THEN signature.by ELSE NoPoint

\* A transaction of fulfillRandomness, or of fulfillRandomnessBatch, and its
\* logs; before them what the consumers' callbacks logged.
Fulfillment(request, proof, x) ==
  [request |-> request, proof |-> proof,
   signature |-> SignFulfillment(x, ComputeRequestId(request), proof)]

FulfilledLog(address, f) ==
  [address |-> address, requestId |-> ComputeRequestId(f.request),
   randomness |-> DeriveRandomness(f.proof), proof |-> f.proof, signature |-> f.signature]

FulfillmentTransaction(foreignLogs, fulfillments) ==
  [calls |-> fulfillments,
   logs |-> foreignLogs \o [n \in DOMAIN fulfillments |-> FulfilledLog(Router, fulfillments[n])]]

\* fulfillmentGas, for a callback gas limit and the bytes of its data.
FulfillmentGas(callbackGasLimit, bytes) == (callbackGasLimit * 64) \div 63 + 250000 + 17 * bytes

-----------------------------------------------------------------------------
\* The first entry of a sequence that matches, or none.
FirstOf(seq, Matches(_)) ==
  LET found == {n \in DOMAIN seq : Matches(seq[n])}
  IN  IF found = {} THEN {} ELSE {seq[CHOOSE n \in found : \A m \in found : n <= m]}

FindFulfillmentLog(logs, id) ==
  FirstOf(logs, LAMBDA log : log.address = Router /\ log.requestId = id)

\* Mutant: the first request of the calldata is taken for the one asked about.
FindFirstRequest(calls, id) ==
  {f.request : f \in FirstOf(calls, LAMBDA f : TRUE)}

\* findEchoedRequest: accepted only when it hashes to the id.
FindEchoedRequest(calls, id) ==
  {f.request : f \in FirstOf(calls, LAMBDA f : ComputeRequestId(f.request) = id)}

\* findFulfillmentTransaction: the router's last log of the id.
FindFulfillmentTransaction(transactions, id) ==
  LET logged == {t \in DOMAIN transactions : FindFulfillmentLog(transactions[t].logs, id) # {}}
  IN  IF logged = {} THEN Absent ELSE CHOOSE t \in logged : \A u \in logged : u <= t

\* A request as a session's row has it: no checks, and so no verdict.
Unchecked(row) == [row EXCEPT !.checks = {}, !.valid = FALSE]

\* verifyRequest; reads: whether the chain answers.
VerifyRequest(transactions, row, reads) ==
  LET id == row.requestId
      hash == IF row.transactionHash # Absent THEN row.transactionHash
              ELSE FindFulfillmentTransaction(transactions, id)
      found == IF hash = Absent \/ ~reads THEN {} ELSE FindFulfillmentLog(transactions[hash].logs, id)
      log == CHOOSE l \in found : TRUE
      echo == FindEchoedRequest(transactions[hash].calls, id)
      signer == RecoverFulfillmentSigner(id, log.proof, log.signature)
      proofValid == signer # NoPoint /\ Verify(signer, log.proof, id)
      checks ==
        [vrfProofValid |-> proofValid,
         vrfBetaMatchesRandomness |->
           /\ proofValid
           /\ DeriveRandomness(log.proof) = log.randomness
           /\ row.randomness \in {Absent, log.randomness},
         enclaveSignatureValid |-> signer # NoPoint,
         signerMatchesFulfiller |-> \E request \in echo : signer = request.fulfiller]
  IN  IF found = {} THEN Unchecked(row)
      ELSE [row EXCEPT !.randomness = IF @ = Absent THEN log.randomness ELSE @,
                       !.fulfilled = TRUE,
                       !.transactionHash = hash,
                       !.checks = {checks},
                       !.valid = \A c \in DOMAIN checks : checks[c]]

\* verifyRandomnessRequestsWith: what is not fulfilled is left as it is.
VerifyRandomnessRequests(transactions, rows, reads) ==
  [n \in DOMAIN rows |->
     IF rows[n].fulfilled THEN VerifyRequest(transactions, rows[n], reads) ELSE Unchecked(rows[n])]

=============================================================================
