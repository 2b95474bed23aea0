# A verification project for AlgoKYC

AlgoKYC lets a person prove in zero knowledge that they are an Indian adult
with a verified identity, binds the proof to an Algorand wallet through a
*nullifier*, and lets three of five court custodians undo the anonymity of one
nullifier. This directory holds TLA+ modules for its contracts and the scripts
that deploy them, its backend, its proof pipeline, its widget and the
custodians' dashboard, TLC configurations for them, and TLAPS proofs about the
parts that can be proved for every size.

Paths below are relative to the repository's root; contracts are under
`zk-kyc/projects/zk-kyc/smart_contracts/`, scripts under
`zk-kyc/projects/zk-kyc/`.

## 1. Inventory

| Component | Code | State it keeps | Operations |
|---|---|---|---|
| NullifierRegistry | `nullifier_registry/contract.py` | issuer, box per nullifier (its wallet), count of boxes | register, invalidate, update_issuer, reads |
| KYCBoxStorage | `kyc_box_storage/contract.py` | issuer, ciphertext per nullifier, count | store_blob, delete_blob, reads |
| CredentialManager | `credential_manager/contract.py` | issuer, asset id, issued and revoked counts; on the ledger: holdings, freezes | initialize_asa, issue, revoke, update_issuer |
| SMTRegistry | `smt_registry/contract.py` | issuer, root, round and number of updates | update_root, update_issuer, reads |
| Court order service | `backend/court_order_service.py` | orders with votes, status, expiry, decrypted identity; Shamir shares | create, vote (which decides and decrypts), get (which expires), execute |
| Backend API | `backend/main.py`, `backend/algorand_service.py` | nothing beyond the two in-memory stores | register, revoke, verify, the court order endpoints |
| Identity store, ECIES | `backend/ecies_service.py` | the issuer's key, in `.env` or `.issuer_key`; blob per nullifier | load or generate the key, encrypt, decrypt, store, get |
| Shamir service | `backend/shamir_service.py` | none | split_secret, reconstruct_secret |
| Proof verifier | `backend/zk_verifier.py` | none | verify_groth16_proof |
| Circuits | `projects/circuits/` (Circom and gnark) | none | constraints |
| SDK | `sdk/src/` | none | generateProof, verifyProof, registerNullifier, reads |
| Widget | `widget/src/App.jsx` | step, identity, wallet and secret, result; promises in flight | select, confirm, back, proceed, run, reset |
| Dashboard | `dashboard/src/App.jsx` | the list of orders, the order on view, requests in flight | poll, open, vote, execute, create |
| KYC verifier contract | `kyc_verifier/contract.py` | none | verify a PlonK proof |
| Deployment scripts | `deploy_*.py`, `final_deploy.py`, `force_build.py`, `projects/circuits/circom/onchain_zktest.py`, `smart_contracts/__main__.py` with the `deploy_config.py` files | `deployed_contracts.json`, the artifacts | create, fund, initialize, build, write the record, test on chain |
| Generated clients | `smart_contracts/artifacts/*/*_client.py` | none | a factory and its `deploy` per contract |
| Template, gnark tools | `hello_world/`, `projects/circuits/gnark/*.go` | none | – |

**How they interact.** Widget and SDK build a witness and a Groth16 proof, and
post it with the wallet and an encrypted identity to the backend. The backend
verifies it through the snarkjs CLI, reads the nullifier's box, sends
`register` signed with the issuer's key, waits for the transaction and then
keeps the blob in a dictionary. The SDK can send `register` itself. A court
order collects votes; the third approval hands Shamir shares to
`reconstruct_secret` and decrypts the blob inside the same call; executing the
order sends `invalidate` and closes it. The contracts never call each other.

**What is hard.** Every handler is an `async` function that never awaits, so a
single worker runs them one after another: the interleaving is not between
handlers but between a handler that waits for a block and the chain, where
transactions of earlier requests and of the SDK are still pending. `_wait`
gives up after twelve rounds without knowing the outcome. Orders, votes,
shares and blobs are process memory while registrations are permanent. Orders
expire only when somebody reads them. Votes are told apart by one field and
shares chosen by another. The prover's arithmetic exists in three copies with
unreduced 256-bit inputs. The widget never cancels an await. The dashboard
polls every five seconds without waiting for the poll before, over an open
order that is a copy of its own. The issuer's key is one file written in place,
and widgets seal identities for a key they fetched before a restart. The
scripts write one record in several ways, are stopped anywhere, and give up on
transactions that are confirmed later.

**What makes each part correct.**

- Contracts: counters equal boxes, a box is never overwritten with another
  wallet, the credential cannot be passed on.
- Court orders: decided by exactly the votes the thresholds ask for, one vote
  per id, no vote after expiry, decrypted data only between approval and
  execution.
- Backend: the box's history alternates, a blob belongs to a registration, a
  missing blob has a reason, an executed order names its own confirmed
  revocation.
- The key: a restart comes up with the same one, an identity that was said to
  go in encrypted can be opened by an order that three different shares approve.
- Shamir: any three shares give the byte back, two say nothing.
- Pipeline: what is accepted was proved by an adult for this application; an
  adult is not refused on the merits; two circuits and two verifiers agree.
- Verifier contract: true statements pass; false ones, replaced commitments or
  public inputs and respelt numbers do not, up to the points a random challenge
  practically never hits.
- Widget: no blank step, no proof about an identity other than one that was
  confirmed, a result that is not a demo is registered, a secret is used in one
  run only.
- Dashboard: never ahead of the service, a first vote stands, the list catches
  up, a blank screen has a reason.
- Deployment: the record names the right applications and keeps them, nothing
  is made in vain, a script ends.

## 2. Modules

| Module | Models | State and actions against the code |
|---|---|---|
| `LedgerConstants` | parameters the contract modules share | – |
| `NullifierRegistry` | the registry contract | a variable per global and BoxMap, an action per ABI method that writes. A failed assertion undoes the call, so refused calls are no steps |
| `KYCBoxStorage` | the blob contract | the same; `CountedIn` is the test of `is_new` before the write |
| `CredentialManager` | contract and asset | the three inner transactions of an issue are one step; `opt_in`, `close_out` and `Payable` are the ledger's rules, marked external |
| `SMTRegistry` | the root contract | with the ledger's round as a variable |
| `MCContracts` | the four contracts for TLC | they share no state, so each behaviour runs one of them |
| `CourtOrders` | court order service with the identity store | a call is a step. `Refreshed` and `Touch` are the lazy expiry of `get_order`; `RecordVote` is the whole of `cast_vote` with the decryption it triggers; `RefuseVote` is its ValueErrors, which still write the expiry |
| `CourtOrderPromise` | the abstract court order: phases and two counts | written independently of custodians, shares, blobs and clock |
| `CourtOrdersRefinement` | the mapping from `CourtOrders` to it | `ayes`, `noes` count the votes, `revealed` says whether a blob is readable |
| `KYCBackend` | backend, chain and SDK together | composes `NullifierRegistry` and `CourtOrders`. A handler that uses the chain is cut where it waits: check, `Submit` or `SubmitFails`, `WaitSees` or `WaitGivesUp`. Chain: `CommitTx`, `DropTx`. `Crash` empties the stores and the worker, not the chain |
| `IdentityKeys` | the issuer's key from start to start, sealing and opening, spellings of a nullifier | `load_or_generate_issuer_key` as the set of what it may return; `Boot`, `BootTorn` (dies while writing), `Die`, `Operate` (an operator edits `.env` or removes the file); `Fetch`, `register_kyc`, the three steps of a court order. `zfill(64)` is the second half of a nullifier |
| `PrimeField` | integers modulo a prime | the field of `shamir_service.py` and of the verifier contract; sums and products over finite sets |
| `Shamir` | sharing of a byte | Horner evaluation, Lagrange interpolation with the inverse of zero, two-byte packing, final reduction |
| `KYCCircuit` | both circuits | predicates on signals over a small field: MiMC chaining, multiplexed tree levels, comparisons with their bit widths |
| `FrontendConstants` | what the models of JavaScript share | – |
| `ProofPipeline` | provers and verifiers | extends `KYCCircuit`; prover's own hash and tree, the widget's mock proofs, verdicts in the order of the code |
| `Widget` | the page and its promises | root state and the mounted stage, `parsing` and `runs` as calls in flight, the backend's answers |
| `Dashboard` | a custodian's page over `CourtOrders` | state of the root component and of the open modal, answers in flight as copies of what the service said; `list_orders`, which does not refresh; other custodians; a restart that loses the orders |
| `Polynomials` | polynomials over the field, external | sequences of coefficients; evaluation by Horner's rule, sums, products, division by x - z |
| `PlonkVerifier` | the verifier contract, with a prover for it | `verify` and its subroutines in the order of the code, over any prime field; a point is its discrete logarithm, a pairing a product, Fiat-Shamir challenges are drawn, `expmod` the recursive function. `Prove` makes the proof of a true or false statement of any circuit (`Gates`, `Sigma`), hidden by the polynomials in `Blinding`; `Change` alters one part |
| `Deployment` | every deployment, build and test script | a script is a sequence of steps named as data (`Program`), run by one action per kind of step over the chain (`apps`, `late`), the artifacts and `deployed_contracts.json`; `Crash` and `WriteTorn` stop it anywhere |
| `MC…` | instances for TLC | symmetry sets and constants |
| `…Proofs` | theorems | see section 6 |

Abstractions worth knowing: nullifiers, wallets, blobs and order ids are model
values; the key rebuilt from shares is right or wrong, and `Shamir` is where
"three different shares" is earned; a blob decrypts with the right key unless
it is garbled; Groth16 is sound and complete; in `Widget` a nullifier is the
pair of identity and secret it is a hash of. In `KYCBackend` a node dry-runs a
call before it relays it, and box names carry the encoding they were made
with: the backend encodes the nullifier once, the SDK twice.

Each module has one type invariant at most. They are proved for every size;
the court orders' is checked by a run as well.

## 3. Runs

| Run | Properties and what they show | Bounds, and why they are enough |
|---|---|---|
| `contracts` | `TotalMatchesBoxes`: both box counters are true though decrements are guarded and blobs overwritten; `CountersExplainCredentials`: issued less revoked is what wallets hold or gave back; `NonTransferable` | 3 nullifiers, 3 wallets, 3 blobs, 2 accounts; a supply of 3 that runs out, 4 issues; 4 root updates in 4 rounds |
| `court_orders` | `TypeOK`, `DecidedByThreshold`, `IdentityOnlyWhileApproved`, `NoLateVote`; `KeepsPromise`: refinement of `CourtOrderPromise` | 5 custodians and the code's threshold of 3; numbers 1 to 3, of which voters may share one; a readable and a garbled blob; a lifetime shorter than the clock. One order: the service keeps no state across orders |
| `backend` | `HistoryExplainsBox`, `BlobWasRegistered`, `BlobLossHasReason`, `ExecutedMeansRevoked` | one nullifier, on which every conflict happens; two orders that race; three transactions, enough for register, revoke and a late second call; one restart; one custodian suffices, as voting is checked above |
| `shamir` | `AnyKRecover`, `FewerTellNothing`, `RepeatsDropOut`, for every polynomial | 3 of 5 modulo 7: the one share value that does not fit a byte occurs as it does modulo 257 |
| `proof_pipeline` | `AcceptedIsEntitled`: backend, SDK and circuit accept only an adult's own proof for this application; `AdultsGetThrough`: no verifier refuses one, and what the backend accepts the SDK accepts; `CircuitsAgree` | a field of 1009 in which fifth powers are a permutation, so 9-bit comparisons wrap as in the large field; birth years around 18, 200, 255, 273 and in the future; a tree of depth 2 with all positions; secrets above the field |
| `widget` | `NeverBlank`, `WhatWasConfirmed`, `ResultIsRegistered`; `OneRunPerSecret`: no nullifier goes out from two runs, though the stage may be left and entered again under a run that goes on | two adults and a minor, 3 parses, 2 secrets: a run overtaken by a parse and by another run. One wallet: no property tells two apart |
| `dashboard` | `NeverAhead`: no list and no open copy tells what the service does not have, or did not have when a restart took it; `BlankHasReason`, `FirstVoteStands`; `ListCatchesUp`: liveness | one order, two custodians who both must approve, two polls in flight so that answers overtake each other, one restart |
| `identity_keys` | `KeyNotLost`: of everything sealed; `KeySurvivesRestart`; `PromiseIsKept`: an approval with three different shares shows the identity that was said to go in encrypted | two persons, so that one's blob can be sealed before and the other's after a restart; two keys, three starts, of which any can die while writing; one order at a time; three custodians' shares, of which the three votes bring any one, two or three |
| `plonk` | `InterpolationIsLagrange`, `TrueIsAccepted`, `AcceptedFitsIdentity`, `ChangeIsRefused` | field of 13 elements with 4 gates and 2 public inputs, wires and grand product blinded, every evaluation point, some choices of the other challenges: each commitment and public input replaced, each number spelt otherwise, public inputs left out, and proofs of false statements |
| `deployment` | `RecordNamesApps`, `NoneMadeInVain`, `RecordStaysComplete`; `EveryRunEnds`: liveness | any two scripts one after the other: every property relates what one run left to what the next finds; three contract folders, which have every mix of artifacts and settings the scripts ask for; two late applications |
| `approval_decrypts` | violated: finding 1 | as `court_orders` |
| `late_commit` | violated: finding 2 | one order, as `backend` |

Deadlock is not checked for `shamir`, `proof_pipeline`, `plonk` and
`deployment`, which are at an end after a reconstruction, a verdict or the last
script, and not for the two runs that look for one violation. The bounds in
guards are `MaxIssued`, `MaxUpdates`, `MaxRound`, `MaxTime`, `MaxTx`,
`MaxCrashes`, `MaxSelects`, `MaxSecrets`, `MaxRestarts`, `Slots`, `MaxBoots`,
`MaxRuns` and `MaxTotal`. Symmetry is used for keys, persons, wallets and
orders, in runs without liveness only. `deployment` takes one chain, one working
directory and one record for granted; section 7 says what that leaves out.

## 4. Fairness

- `Dashboard`: `setInterval` polls for ever (weak fairness). An answer may fail
  each time, but a network that delivers now and then delivers one of them
  (strong fairness of `PollArrives`). Nobody must open, vote or execute, and
  `ListCatchesUp` owes nothing once the backend has restarted or the page is
  blank.
- `Deployment`: a script that runs takes its next step, or dies. That nothing
  waits for ever is the scripts' doing: every wait has a limit of rounds.

No other specification is fair. The court order service has no sweep, so nothing
makes an order expire; the widget's requests have no timeout, so nothing makes
a run end. The modules promise neither.

## 5. Findings

Run and refuted by TLC:

1. `approval_decrypts` – duplicates are looked for by `custodian_id`, shares
   chosen by `custodian_num`: three approvals with a repeated number approve
   the order and decrypt nothing, for ever (`court_order_service.py:142`
   against `main.py:538`). `RepeatsDropOut` shows why: the repeated share's
   summands vanish.
2. `late_commit` – a registration answered "On-chain registration failed" can
   be confirmed afterwards (`algorand_service.py:46` against `main.py:278`);
   its blob is then missing, which `BlobLossHasReason` accounts for.

Met while reading, plain from the code, and not run. Backend and clients:

- An execution that is answered as failed may have revoked: the identity stays
  in memory and a second execution is refused by the node (`main.py:596`
  against `court_order_service.py:228`).
- The SDK's `registerNullifier` registers under a box name nobody reads
  (`sdk/src/algorand.ts:92` against `:147`).
- Every visit of the widget draws a new secret, so one identity registers with
  two wallets (`widget/src/App.jsx:459` against `README.md:22`).
- Every read of an approved order returns the identity (`main.py:514`), though
  it "is shown ONCE then discarded" (`court_order_service.py:10`); an open
  dashboard copy keeps it after the execution.
- An order is said to "auto-expire after 48h" (`court_order_service.py:54`), but
  only `get_order` writes the expiry (`:110`). Nothing sweeps, and `list_orders`
  (`:117`) refreshes no status, so the list shows an order as pending until
  somebody opens it; after a restart, opening a row that is gone blanks
  the page (`BlankHasReason`).
- `invalidate` leaves no trace, so a revoked nullifier can be registered again
  (`nullifier_registry/contract.py:53`), though it "permanently revokes
  credential" (`dashboard/src/App.jsx:386`).
- An order's nullifier is looked up as typed and revoked padded to 64 digits
  (`court_order_service.py:204`): a shorter spelling revokes and reveals
  nothing. `PromiseIsKept` therefore asks for the full spelling.
- `verify_kyc` answers from `total_registered` whatever the wallet
  (`main.py:319`, admitted at `main.py:309`) under "Check KYC status for a
  wallet address" (`main.py:306`).
- No revocation deletes a blob (`main.py:380`), though `delete_blob` is
  "Called on full credential revocation" (`kyc_box_storage/contract.py:52`).
- The proof's root is compared with nothing (`zk_verifier.py:128`), though the
  "Top hash must equal the on-chain SMT root" (`kyc.circom:187`).
- The Circom circuit holds for ages 18 to 273, the gnark circuit for 18 to 200,
  of which `projects/circuits/README.md:12` says "identical logic";
  `CircuitsAgree` shows that the difference starts above 200.
- A refusal that mentions snarkjs leads to the widget's success page
  (`widget/src/App.jsx:753` against `:832`), and after a failed run its Retry
  button is in a branch that is no longer rendered (`:774` against `:786`):
  the error stands under a spinner that goes on (`:793`, `:817`). Neither of the
  widget's requests has a timeout (`:706`, `:740`).
- A true PlonK proof is refused when a value is zero whose negation the
  contract leaves unreduced (`kyc_verifier/contract.py:197`), or when a
  commitment is the point at infinity. A random challenge practically never
  makes it so; `TrueIsAccepted` names these cases.

Deployment:

- `algokit project deploy` never gets through all contracts
  (`zk-kyc/projects/zk-kyc/README.md:40`): the verifier has no application
  specification, two contracts are refused without their creation call, and two
  settings import factory names the generated clients do not have. An
  application that a first run left unfunded is never funded by a second.
- `deploy_credential_manager_atomic.py` ("the CORRECT approach", line 3) sends
  TEAL source for a program and is always refused; `deploy_testnet.py` always
  stops at the second contract.
- `deploy_final_vibekit.py:102` prints "CredentialManager fully deployed!"
  without an asset; `final_deploy.py:147` prints that all contracts are
  deployed and writes ids that are in its source.
- `deploy_remaining.py:166` copies artifacts into a directory that may be
  missing, which makes a file of that name, over which later scripts stumble.
- A record torn by a script that died while writing blocks the scripts that
  merge into it. The backend never reads the record: its ids are in
  `backend/config.py`.
- `onchain_zktest.py:194` asserts that the count rose by one, which a
  registration of somebody else in between breaks, and line 237 prints "WORKS!"
  whatever the box says.

## 6. Proofs

All proofs are checked by `tlapm` from the named assumptions of the modules:
finite sets of nullifiers and wallets, `Absent`, `None` and the other "nothing"
values outside the sets they are added to, a custodian for the dashboard's
user, thresholds, times and bounds that are naturals, a field of more than 512
elements that birth years do not run around (`YearsFitField`; the code's field
has 254 bits), and for the sharing a prime above N that fits in the two bytes a
share is stored in. For the verifier contract they say what a verifying key
is: a generator of a domain of N elements, selectors for each row, a
permutation of the places that hold wire values, blinding of the length gnark
uses; nothing is assumed of the coset shift or the challenges but that they are
field elements. Each assumption is evaluated by a run. No theorem assumes a value
of a bound, so each holds for every number of calls, polls, runs and restarts.

Where a proof needs induction, on the size of a set or the length of a loop, it
is made from `WFMin`: the least number at which a claim fails, if it fails
(`NatInductionOnSet`). Loops and folds are first shown to exist as functions
(`LoopExists`, `FoldExists`, `SumsExist`), then reasoned about by their equations.

Eight modules hold theorems or lemmas. Parts that rest on the same lemmas or
share constants are proved about together: the sharing and the life of the
issuer's key, the pages and the prover. `FieldProofs` has the lemmas about
primes and polynomials that the sharing and the verifier contract both need.

| Module | Theorems | Inductive invariant and argument |
|---|---|---|
| `ContractsProofs` | of the contracts alone: `RegistryTypes`, `CounterCorrect`, `BindingNeverMovesAlways`, `BlobCounterCorrect`, `CredentialTypes`, `CredentialsStayPut`, `CountersExplain`; of what the run checks: `CountersMatchBoxes`, `JointCredentials` | Registry: types and `TotalMatchesBoxes`. A successful `register` adds exactly one box because it tests that there is none, a successful `invalidate` removes one; hence the counter was positive and the guard around its decrement is never taken. That a bound nullifier does not move is an action property: only `invalidate` changes a box that is there. Blobs: a write over a box keeps the set of boxes, and `is_new` read before the write tells the two cases apart. Credentials: `HoldingsFrozen`, every holding is frozen from the opt-in on and after every issue; `NonTransferable` alone is not inductive, as it says nothing of wallets with nothing to pay. `CountersHold` is the equation without the asset's own condition; it rests on sums over a finite set of wallets: `SumTakesAnyMember` makes the sum independent of the order the fold takes, `SumOfOneChange` says what one changed holding does to it. `StepsOfEach` and `BehavesAsEach` carry the theorems from each contract to the module the run checks: a joint step is a step or a stutter of each |
| `CourtOrdersProofs` | `TypeCorrect`, `ThresholdsDecide`, `NobodyVotesTwice`, `VotesAreInTime`, `IdentityGuarded`, `ServiceKeepsPromise` | `IInv`: types, finiteness of the vote sets, `DecidedByThreshold`, `OneVotePerId`, `IdentityOnlyWhileApproved`. Finiteness makes a tally a number; one vote per id makes a new vote raise exactly one tally by one (`TallyOfNewVote`); so the tally meets a threshold before it can pass it. The refinement uses the same invariant: `VoteIsPromised` maps a vote to one of the four counting steps, `TouchIsLapse` an expiry, the rest stutters |
| `KYCBackendProofs` | `TypeCorrect`, `HistoryAlternates`, `BlobsAreRegistered`, `LossIsExplained`, `ExecutedIsRevoked` | `IInv` has four parts. The ledger: pool and blocks are disjoint, so a transaction runs once, and `CommitKeepsLedger` moves the difference of the two histories of a box with the box. The job: the transaction the worker waits for is the call its request asked for (`JobInv`), through everything that happens meanwhile (`Grows`, `SameJob`). The orders: a known order has a nullifier, only the end of an execution makes it executed (`OrderMoves`), and a committed call stays in its box (`CommittedStays`). The store: `KeptOrExplained` says of every registration, committed or not, what `BlobLossHasReason` says of the committed ones; without it a late block would break the latter |
| `FrontendProofs` | of the dashboard: `NothingIsAhead`, `BlankOnlyAfterRestart`, `FirstVoteIsKept`; of the widget: `WidgetTypes`, `CardIsNeverBlank`, `ConfirmedIsProved`, `SecretsAreRunOnce`, `RealResultIsRegistered`; of the pipeline: `OnlyTheEntitled`, `AdultsPass`, `SameLogic` | Dashboard: The service under the dashboard is the one of `CourtOrdersProofs` (`SameVote`, `SameReads`, `SameWrites`), so its invariant holds but for the restart, which empties it (`StepKeepsService`). `DashInv` says of every list and copy on the screen *or on its way* that the service has overtaken it at most: `Holds` is what any step leaves true of orders drawn before it, `SumStays` and `CopyStays` carry a summary and a copy over it, `ListComesFrom` to `ModalComesFrom` say what can come on the screen. What a restart takes is kept in a history variable, `lost`, and `HadGrows` says that what the service has or had of an order only grows, restarts included. `DashInv` also says that without a restart whatever is shown still exists, which is why a blank screen means one. Order ids are drawn once, so an id a restart forgot does not come back. Widget: `StepIsBacked`: each step has the state that it is drawn from, and from the confirmation on the identity is an adult's; every way into a step sets that state first, a reset clears the step with it, and a late parse or run moves only to a step whose state it sets. `SecretsApart`: the runs have different secrets, and none has that of a proof step that was not started; the way back to that step draws a new one. `OkIsRegistered`: a run that was answered ok keeps what it captured, and nothing unregisters it; so the result it sets later, after a reset too, is registered. Pipeline: the hardest part is not the invariant, which says that a request carries what the prover was called with and a verdict what the verifiers say of it. It is that circuit and prover compute the same: `EncryptAgrees`, `HashAgrees` and `RootAgrees` show for any constants, any number of rounds and any depth that the circuit's chained signals and the SDK's loops meet, though one reduces after each operation and the other hashes secrets larger than the field (`FoldMeetsLoop`). Comparisons: `GreaterEqThanIsRange` and `GnarkRange` give the ages for which the bits of each circuit fit, `AgeInField` how a negative difference lies in the field, and `OnlyTheYearsDecide` that nothing else can leave an honest witness unsatisfied |
| `FieldProofs` | lemmas only | A fold over a finite set does not depend on the order in which `CHOOSE` takes its members, so products and sums can be split and reindexed. Modulo a prime no product of nonzero factors is zero, multiplication by `d` permutes the nonzero elements, and so the power to `PRIME - 2` is the reciprocal (`ReciprocalInverts`, Fermat's little theorem). The value of a sum, product, multiple or slice of polynomials is that of its parts; a polynomial less its value at z is x - z times what `Opened` yields, and one with several roots is the product of these times another (`Factors`) |
| `IssuerKeyProofs` | of the sharing: `SharesAreKept`, `AnyKSharesRecover`, `RepeatsCountForNothing`, `FewerSharesTellNothing`; of the key's life: `TypeCorrect`, `RestartKeepsKey`, `NoKeyLost`, `PromiseHolds` | Sharing: `Kept`: shares are the values of a polynomial `split_secret` may draw, and what was rebuilt came from K of them. The rest is arithmetic on the lemmas of `FieldProofs`. The power that the code raises to is the reciprocal of a nonzero denominator, and of zero it is zero: with a repeated index the summands of both positions vanish (`RepeatsCountForNothing`). The weights of the interpolation are shown to reproduce constants and then, by Horner's rule one coefficient at a time, every polynomial below degree K (`InterpolationIsExact`); the code's interpolation over positions is that one as long as the indices differ. A polynomial through n points is lifted to n + 1 (`PolynomialThroughPoints`): with the byte at 0 and K - 1 shares, one exists for every byte. Life: `InUse`: a running backend's key is what the next start looks up first; `FormerAtHand`: the same of a stopped one that no operator touched, which is `KeySurvivesRestart` one step ahead. `SealedForKept`: whatever is sealed, in a widget, the store or an order, is sealed for a key in a file, in use, or thrown away by an operator; no step of the code removes one from these (`StepKept`), and what is sealed comes from what was sealed before or from the key in use (`StepSealings`). `PromiseIsKept` needs that the shares dealt are of the key in use (`SharesFit`), that what was sealed in this run is sealed for it (`FreshFits`), and that the promised blob is the stored one (`PromisedFits`) |
| `PlonkVerifierProofs` | `DeliveryInvariant`, `LagrangeInterpolates`, `AcceptanceIsSound`, `TruthIsAccepted`, `ChangesAreRefused` | `DeliveryInv`: what is verified is the prover's proof, or that with one point or public input replaced, or something that is not well-formed (`Delivered`), and the verdict is the contract's on it; the properties, which speak of single verdicts, are not inductive without it. TLC has checked it on the run's instance. The rest is about the contract's arithmetic. Square and multiply is the power; the backward walk over prefix products inverts each factor, so `Lagrange` is the basis polynomial and its value the product of the definition (`LagrangeIsBasis`, `BasisIsProduct`). The pairing check is a congruence, `Residual`: a sum over the parts of a proof of a weight times the part. For the prover's proof the openings cancel their polynomials' values at tau, and what remains is the identity at zeta less the quotient times zeta^N - 1 (`ProvedResidual`). For a true statement the identity vanishes in each row: the gates because they hold, the copies because the accumulator's step is the quotient of the two products, and in the last row because the products of all rows are permutations of each other, so that the accumulator closes (`Closes`, `WholeVanishes`); a polynomial that vanishes on the domain is divided by x^N - 1 without a remainder, and the residual is 0 (`TrueResidual`). A replaced part changes the residual by its weight times the difference (`PointBinds`, `PublicBinds`), and under the named conditions no weight is zero, but perhaps the grand product's |
| `DeploymentProofs` | `DeploymentTypes`, `RecordIsTrue`, `NothingLost`, `RecordNeverShrinks` | What is left of a script is `Plain` or `Recording`. Plain: it writes no record and makes nothing but with AlgoKit's bare create, which the chain notes. Recording: its last step writes the record, each contract the write takes from the run is created exactly once before it or has been made already, and the asset is read just before the write if it is read at all. Every script is of one of the two kinds (`DeployingScripts`, `OtherScripts`, `PerContractIsPlain`) and stays so step by step (`PlainTail`, `RecordingTail`). `RecordingOK` says that what a recording script has made is owed to its write and to nothing else, `LateOK` that no transaction of a dead script can still give an asset to a manager that is in the record or will be, `ChainOK` that the ids in the scripts' source are applications of those contracts, which no step changes. `RecordOK`, that the record is true and its ids are not owed to anybody, is then kept by every write. A script may die at every step (`DyingKeepsIInv`), and what it sent may come true at any time (`LateCommitKeepsIInv`) |

Only model-checked:

- liveness: `ListCatchesUp` and `EveryRunEnds`, which are beyond the prover.
  Every other property of a passing run is a theorem.

## 7. Not modelled

The circuit build and dump tools, which only read and write files; of the
generated clients everything but the factory and its `deploy`; the template
contract beyond being deployed; the dashboard's login and its views of
constants; Groth16 and elliptic curves from the inside; the parsing of Aadhaar
XML, beyond the age it yields; wire formats, except box names and spellings of
nullifiers and numbers; balances and fees, except that an application is funded
or not; endpoints that only read and whose answers no part uses: `GET /health`,
`/contracts`, `/verify/{wallet}`, `/custodian/{num}/share`. `Deployment` has one chain,
one working directory and one record: the scripts take the server from the
environment, some write a path relative to the current directory, and the ids in
their source are testnet's, so what the record says of another chain or
directory is not covered. A torn record is an outcome of a script that dies, but
`RecordStaysComplete` compares records that can be read, and `NoneMadeInVain`
excuses what a script that died had made. The blocked event
loop while a handler waits is stated as a hazard and has no property: the wait is bounded by
its loop, and nothing else the backend does is due at a time.

## 8. What is left

Done in this order: the contracts, the court order service with its promise
and proofs, the backend over the chain, Shamir, circuit and pipeline, widget;
then the deployment scripts, the verifier contract, the issuer's key and the
spellings, the dashboard, and the proofs about keys, backend and dashboard;
then the proofs about the joint contracts, the widget, the pipeline, the
deployment and the sharing of the key; last the proofs about the verifier
contract, for which its polynomials became a module of their own and the
blinding a parameter. Worth adding:

1. The registration path end to end: a widget over `KYCBackend` in place of
   the answers it draws now.
2. Two dashboards at once over one service, in place of `Others`.
