----------------------------- MODULE ProofPipeline -----------------------------
(***************************************************************************)
(* From an identity to a verdict: the prover of the SDK and of the widget  *)
(* builds the circuit's inputs, snarkjs makes a proof if the constraints   *)
(* hold, and the verifiers of the backend and of the SDK decide about it.  *)
(* Groth16 is taken at its word: a proof verifies exactly when its public  *)
(* signals were proved with a witness that satisfies the circuit.          *)
(***************************************************************************)
EXTENDS KYCCircuit, FrontendConstants

CONSTANTS
  AadhaarHashes, Secrets,  \* 256-bit numbers: they may exceed the field
  AppIds, OwnApp,          \* applications, and the one this backend serves
  Years,                   \* birth years on Aadhaar files
  ThisYear,                \* new Date().getFullYear()
  CurrentYears,            \* years a caller of the SDK may state instead
  Siblings                 \* sibling hashes a caller of the SDK may pass

ASSUME PipelineAssumption ==
  /\ AadhaarHashes \cup Secrets \cup AppIds \cup Siblings \subseteq Nat
  /\ OwnApp \in AppIds
  /\ Years \subseteq Nat /\ CurrentYears \subseteq Nat /\ ThisYear \in CurrentYears
  /\ None \notin Nat

\* A birth year may lie in the future, but not so far that the difference runs
\* once around the field: years are JavaScript numbers, the field has 254 bits.
ASSUME YearsFitField == \A y \in Years, c \in CurrentYears : y - c < P - 273

VARIABLES
  inputs,    \* what the prover is called with, or None
  prover,    \* "idle", or how proving ended
  request,   \* public signals and proof that reach a verifier, or None
  verdict,   \* "none", "valid" or the kind of error
  sdk_valid  \* verifyProof's answer to the same request

pipeline == <<inputs, prover, request, verdict, sdk_valid>>

ProveInputs ==
  [by : {"sdk", "widget"}, aadhaarHash : AadhaarHashes, walletSecret : Secrets,
   appId : AppIds, dobYear : Years, currentYear : CurrentYears,
   merkleSiblings : [1 .. SMT_DEPTH -> Siblings], merklePos : [1 .. SMT_DEPTH -> {0, 1}]]

ASSUME NoneIsNoInput == None \notin ProveInputs

PipelineInit ==
  /\ inputs = None
  /\ prover = "idle"
  /\ request = None
  /\ verdict = "none"
  /\ sdk_valid = FALSE

\* Mutated forms of definitions below: the bugs the properties must catch.
SnarkjsOK_Always(req) == TRUE

-----------------------------------------------------------------------------
(* The prover's own arithmetic (mimc.ts, prover.ts, and the widget's copy). *)

Power4(t) == Times(Times(t, t), Times(t, t))

mimcEncrypt(m, k) ==
  LET after[i \in 0 .. Len(MimcConstants)] ==
        IF i = 0 THEN m
        ELSE LET t == (after[i - 1] + k + MimcConstants[i]) % P
             IN  Times(Power4(t), t)
  IN  (after[Len(MimcConstants)] + k) % P

mimcHash(ins) ==
  LET h[i \in 0 .. Len(ins)] ==
        IF i = 0 THEN 0
        ELSE (mimcEncrypt(ins[i], h[i - 1]) + h[i - 1] + ins[i]) % P
  IN  h[Len(ins)]

computeNullifier(hash, app, secret) == mimcHash(<<hash, app, secret>>)

\* A mutated form of Node: the tree's sides forgotten.
Node_Unordered(current, sibling, p) == mimcHash(<<current, sibling>>)

Node(current, sibling, p) ==
  IF p = 0 THEN mimcHash(<<current, sibling>>) ELSE mimcHash(<<sibling, current>>)

computeMerkleRoot(nullifier, siblings, pos) ==
  LET current[i \in 0 .. SMT_DEPTH] ==
        IF i = 0 THEN nullifier ELSE Node(current[i - 1], siblings[i], pos[i])
  IN  current[SMT_DEPTH]

Age(in) == in.currentYear - in.dobYear

PublicOf(in) ==
  LET nullifier == computeNullifier(in.aadhaarHash, in.appId, in.walletSecret)
  IN  [nullifier |-> nullifier,
       merkleRoot |-> computeMerkleRoot(nullifier, in.merkleSiblings, in.merklePos),
       appId |-> in.appId, isIndian |-> 1, isAdult |-> 1, isKYCVerified |-> 1]

PrivateOf(in) ==
  [aadhaarHash |-> in.aadhaarHash, walletSecret |-> in.walletSecret,
   dobYear |-> in.dobYear, currentYear |-> in.currentYear, nationalityIN |-> 1,
   kycStatus |-> 1, merkleSiblings |-> in.merkleSiblings, merklePos |-> in.merklePos]

\* The widget knows no tree and no other year, and its Confirm button lets
\* nobody under 18 get as far as this.
WidgetCan(in) ==
  /\ in.merkleSiblings = [i \in 1 .. SMT_DEPTH |-> 0]
  /\ in.merklePos = [i \in 1 .. SMT_DEPTH |-> 0]
  /\ in.appId = OwnApp
  /\ in.currentYear = ThisYear
  /\ Age(in) >= 18

\* Witness and proof, made by fullProve from the inputs.  It throws when the
\* circuit's files do not load or when the constraints do not hold.
fullProve(in) ==
  \/ /\ CircomSatisfied(PublicOf(in), PrivateOf(in))
     /\ prover' = "proved"
  \/ /\ ~CircomSatisfied(PublicOf(in), PrivateOf(in))
     /\ prover' = "unsatisfied"
  \/ prover' = "not loaded"

\* The SDK passes the exception on; the widget sends a mock proof instead.
generateProof(in) ==
  /\ inputs = None
  /\ in.by = "widget" => WidgetCan(in)
  /\ inputs' = in
  /\ fullProve(in)
  /\ request' = IF prover' = "proved" \/ in.by = "widget"
                THEN [pub |-> PublicOf(in), proved |-> prover' = "proved"]
                ELSE None
  /\ UNCHANGED <<verdict, sdk_valid>>

-----------------------------------------------------------------------------
(* The verifiers. *)

SnarkjsOK(req) == req.proved

ClaimsHold(pub) == pub.isIndian = 1 /\ pub.isAdult = 1 /\ pub.isKYCVerified = 1

AppMatches(pub) == pub.appId = OwnApp

\* The checks of verify_groth16_proof after snarkjs answered, in its order.
Verdict(req) ==
  CASE ~SnarkjsOK(req) -> "snarkjs failed"
    [] SnarkjsOK(req) /\ ~ClaimsHold(req.pub) -> "claims"
    [] SnarkjsOK(req) /\ ClaimsHold(req.pub) /\ ~AppMatches(req.pub) -> "appId mismatch"
    [] OTHER -> "valid"

\* The SDK's verifyProof, with the application's id passed to it.
verifyProof(req) ==
  /\ req.proved
  /\ req.pub.isIndian = 1 /\ req.pub.isAdult = 1 /\ req.pub.isKYCVerified = 1
  /\ req.pub.appId = OwnApp

\* verify_groth16_proof: the key may be missing, snarkjs may take too long.
\* The same request is put to verifyProof.
verify_groth16_proof ==
  /\ request # None
  /\ verdict = "none"
  /\ verdict' \in {"vk missing", "timed out", Verdict(request)}
  /\ sdk_valid' = verifyProof(request)
  /\ UNCHANGED <<inputs, prover, request>>

PipelineNext ==
  \/ \E in \in ProveInputs : generateProof(in)
  \/ verify_groth16_proof

PipelineSpec == PipelineInit /\ [][PipelineNext]_pipeline

-----------------------------------------------------------------------------

\* A nullifier that the backend takes to the chain, or that the SDK's
\* verifyProof passes, was proved for this application, by somebody who was 18
\* in the year the prover stated; a mock proof, a minor, or a proof for another
\* application is never accepted.
AcceptedIsEntitled ==
  verdict = "valid" \/ sdk_valid =>
    /\ prover = "proved"
    /\ Age(inputs) >= 18
    /\ request.pub.nullifier
         = MiMCHash(<<inputs.aadhaarHash, OwnApp, inputs.walletSecret>>)

\* An adult who proves for this application finds no constraint unsatisfied,
\* and neither verifier finds fault with the proof: the prover's own hashing
\* agrees with the circuit's, for every position in the tree and for inputs
\* that exceed the field.
AdultsGetThrough ==
  inputs # None /\ inputs.appId = OwnApp /\ Age(inputs) \in 18 .. 150 =>
    /\ prover # "unsatisfied"
    /\ prover = "proved" => verdict \in {"none", "valid", "vk missing", "timed out"}
    /\ verdict = "valid" => sdk_valid

\* The two circuits "implement identical logic" for the ages people have: up
\* to 200 years, and for a birth year in the future, whose difference wraps
\* around the field, one is satisfied by a witness if the other is.
CircuitsAgree ==
  inputs # None /\ Age(inputs) <= 200 =>
    (CircomSatisfied(PublicOf(inputs), PrivateOf(inputs))
       <=> GnarkSatisfied(PublicOf(inputs), PrivateOf(inputs)))

=============================================================================
