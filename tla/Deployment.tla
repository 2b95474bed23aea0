------------------------------ MODULE Deployment ------------------------------
(***************************************************************************)
(* The deployment scripts: a dozen ways to put the contracts on a chain    *)
(* and to note them in deployed_contracts.json.                            *)
(*                                                                         *)
(* A script is a sequence of steps, one definition per script, and one     *)
(* family of actions runs the steps.  A run may die at every point.  What  *)
(* it has sent stays with the node and may be confirmed later, what it has *)
(* made stays on the chain, what it has written stays on the disk, and the *)
(* next script starts from there.                                          *)
(***************************************************************************)
EXTENDS Naturals, Sequences, FiniteSets

CONSTANTS
  Folders,   \* the contracts `python -m smart_contracts` walks through
  MaxRuns,   \* bound of the model: scripts started
  MaxTotal   \* bound of the model: nullifiers in a registry during a test

ASSUME BoundsAssumption == MaxRuns \in Nat /\ MaxTotal \in Nat

VARIABLES
  apps,       \* the chain: its applications, the index is the app id
  late,       \* transactions whose script has died: still with a node
  artifacts,  \* per contract: what smart_contracts/artifacts/<name> holds
  nested,     \* what deploy_credential_manager.py compiles into
  cased,      \* whether the file system tells upper from lower case
  proof,      \* whether the proof of the on-chain test verifies, for an adult
  record,     \* deployed_contracts.json
  run,        \* the script that is running
  runs,       \* scripts started so far
  explained   \* history: applications written to the record once, or left
              \* behind by a run that died

disk == <<artifacts, nested, cased, proof>>
vars == <<apps, late, disk, record, run, runs, explained>>

NR == "nullifier_registry"
ROOTS == "smt_registry"
BOX == "kyc_box_storage"
CM == "credential_manager"
HELLO == "hello_world"
VERIFIER == "kyc_verifier"

Recorded == {NR, ROOTS, BOX, CM}
Contracts == Recorded \cup {HELLO, VERIFIER}

ASSUME FoldersAssumption == Folders \subseteq Contracts

\* The ids that scripts and backend have in their source.
HardCoded == [c \in Recorded |-> CASE c = NR -> 1 [] c = ROOTS -> 2 [] c = BOX -> 3 [] c = CM -> 4]

\* An application; its asset is named by the application that made it.
App(c, noted) == [contract |-> c, noted |-> noted, funded |-> FALSE, asa |-> 0,
                  total |-> 0, known |-> FALSE]

NoApp == [id |-> 0, address |-> FALSE, asa |-> 0]
NoRecord == [file |-> "none", of |-> [c \in Recorded |-> NoApp]]

NoTx == [do |-> "none", c |-> NR, app |-> 0, noted |-> FALSE, no |-> 0, state |-> "none"]
Nothing == [c \in Contracts |-> 0]
Idle == [script |-> "none", rest |-> <<>>, todo |-> {}, made |-> Nothing,
         asa |-> 0, before |-> 0, tx |-> NoTx]

\* The repository as it stands: the four recorded applications live, the old
\* credential manager among the artifacts and the current one nested.
Init ==
  /\ apps = << App(NR, FALSE), App(ROOTS, FALSE), App(BOX, FALSE),
               [App(CM, FALSE) EXCEPT !.asa = 4, !.funded = TRUE] >>
  /\ late = {}
  /\ artifacts = [c \in Contracts |-> IF c = CM THEN "old" ELSE "current"]
  /\ nested = "current"
  /\ cased \in BOOLEAN
  /\ proof \in BOOLEAN
  /\ record = [file |-> "good",
               of |-> [c \in Recorded |-> [id |-> HardCoded[c], address |-> TRUE,
                                           asa |-> apps[HardCoded[c]].asa]]]
  /\ run = Idle
  /\ runs = 0
  /\ explained = DOMAIN apps

-----------------------------------------------------------------------------
(* The steps scripts are made of. *)

\* Read the program of c, from one of the places scripts look in, and create
\* an application with it.
Create(c, from, call) == [do |-> "create", c |-> c, from |-> from, call |-> call]
Fund(c) == [do |-> "fund", c |-> c]
CopyNested(mkdir) == [do |-> "copy", mkdir |-> mkdir]
ReadAsset == [do |-> "read_asset"]
\* Write the record anew, with hard-coded ids for some contracts.
Overwrite(fixed) == [do |-> "overwrite", fixed |-> fixed]
\* Read the record, replace the credential manager and write it back.
Merge(required) == [do |-> "merge", required |-> required]

-----------------------------------------------------------------------------
\* Mutated forms of definitions below: the bugs the properties must catch.
deploy_remaining_Copied == << CopyNested(FALSE), Create(CM, "titled", "abi"), Fund(CM),
                              Create(BOX, "titled", "abi"), Fund(BOX),
                              Overwrite({NR, ROOTS, BOX}) >>
Overwritten_Swapped(fixed) ==
  [c \in Recorded |->
     IF c \in fixed THEN [NoApp EXCEPT !.id = HardCoded[IF c = NR THEN ROOTS ELSE c]]
     ELSE [id |-> run.made[c], address |-> TRUE, asa |-> IF c = CM THEN run.asa ELSE 0]]
Merged_Alone == [c \in Recorded |-> IF c = CM THEN [id |-> run.made[c], address |-> TRUE,
                                                   asa |-> run.asa]
                                             ELSE NoApp]
GivesUpOn_Never(t) == FALSE

-----------------------------------------------------------------------------
(* The scripts, one definition each. *)

deploy_contract(c) == << Create(c, "titled", "abi"), Fund(c) >>

deploy_simple == deploy_contract(NR) \o deploy_contract(ROOTS) \o deploy_contract(BOX)
                 \o deploy_contract(CM) \o << Overwrite({}) >>

\* The script has its own copy of deploy_contract.
deploy_remaining_contract(c) == << Create(c, "titled", "abi"), Fund(c) >>

deploy_remaining == deploy_remaining_contract(BOX) \o << CopyNested(FALSE) >>
                    \o deploy_remaining_contract(CM) \o << Overwrite({NR, ROOTS}) >>

\* create_app passes the selector of create()void to every contract.
create_app(c) == << Create(c, "top", "plain"), Fund(c) >>

deploy_testnet == create_app(NR) \o create_app(ROOTS) \o create_app(BOX) \o create_app(CM)
                  \o << Overwrite({}) >>

\* Never funds an application.
deploy_contracts == << Create(NR, "top", "abi"), Create(ROOTS, "top", "abi"),
                       Create(BOX, "top", "abi"), Create(CM, "nested_or_top", "abi"),
                       Overwrite({}) >>

final_deploy == << CopyNested(TRUE), Create(CM, "top", "abi"), ReadAsset,
                   Overwrite({NR, ROOTS, BOX}) >>

deploy_final_vibekit == << Create(CM, "nested_or_top", "abi"), ReadAsset,
                           Overwrite({NR, ROOTS, BOX}) >>

\* The program it sends is the TEAL text of the specification's source.
deploy_credential_manager_atomic == << Create(CM, "top", "source"), ReadAsset, Merge(TRUE) >>

rewrite_and_compile_contract == << [do |-> "compile_nested"] >>

deploy_credential_manager ==
  rewrite_and_compile_contract
  \o << Create(CM, "nested", "plain"), Fund(CM), [do |-> "init", c |-> CM], ReadAsset,
        Merge(FALSE) >>

\* AlgoKit's deploy: look for an application it has made, else make one with
\* a bare call.  Its caller funds what is new.
AlgoKitDeploy(c, from) == << [do |-> "lookup", c |-> c], Create(c, from, "bare") >>

deploy_cm_algokit == AlgoKitDeploy(CM, "nested_or_top")
                     \o << Fund(CM), ReadAsset, Overwrite({NR, ROOTS, BOX}) >>

\* The factory in each generated client: its name and its deploy.
NullifierRegistryFactory == [name |-> "NullifierRegistryFactory", deploy |-> AlgoKitDeploy(NR, "top")]
SmtRegistryFactory == [name |-> "SmtRegistryFactory", deploy |-> AlgoKitDeploy(ROOTS, "top")]
KycBoxStorageFactory == [name |-> "KycBoxStorageFactory", deploy |-> AlgoKitDeploy(BOX, "top")]
CredentialManagerFactory == [name |-> "CredentialManagerFactory", deploy |-> AlgoKitDeploy(CM, "top")]
HelloWorldFactory == [name |-> "HelloWorldFactory", deploy |-> AlgoKitDeploy(HELLO, "top")]

\* The settings of a contract import its factory under a name of their own.
ImportFactory(c, name, factory) == [do |-> "import", c |-> c, found |-> name = factory.name]
Deploys(c, name, factory) == << ImportFactory(c, name, factory) >> \o factory.deploy \o << Fund(c) >>

nullifier_registry_deploy == Deploys(NR, "NullifierRegistryFactory", NullifierRegistryFactory)
smt_registry_deploy == Deploys(ROOTS, "SMTRegistryFactory", SmtRegistryFactory)
kyc_box_storage_deploy == Deploys(BOX, "KYCBoxStorageFactory", KycBoxStorageFactory)
credential_manager_deploy == Deploys(CM, "CredentialManagerFactory", CredentialManagerFactory)
hello_world_deploy == Deploys(HELLO, "HelloWorldFactory", HelloWorldFactory)
                      \o << [do |-> "hello", c |-> HELLO] >>

\* Contracts without settings are not deployed.
import_deploy_if_exists(c) ==
  CASE c = NR -> nullifier_registry_deploy
    [] c = ROOTS -> smt_registry_deploy
    [] c = BOX -> kyc_box_storage_deploy
    [] c = CM -> credential_manager_deploy
    [] c = HELLO -> hello_world_deploy
    [] OTHER -> <<>>

build(c) == << [do |-> "clear", c |-> c], [do |-> "compile", c |-> c] >>

\* What `python -m smart_contracts <action>` does to one contract.
PerContract(action, c) ==
  CASE action = "build" -> build(c)
    [] action = "deploy" -> << [do |-> "spec", c |-> c] >> \o import_deploy_if_exists(c)
    [] action = "all" -> build(c) \o import_deploy_if_exists(c)

ForEach(action) == << [do |-> "each", action |-> action] >>

force_build == << [do |-> "remove", c |-> CM] >> \o ForEach("build")

\* The on-chain test: a proof is checked, its nullifier registered, the
\* registry's count compared.
register_nullifier_onchain ==
  << [do |-> "read_record"], Fund(NR), [do |-> "register", c |-> NR], [do |-> "count"] >>

onchain_zktest == << [do |-> "verify_proof"] >> \o register_nullifier_onchain

Program == [deploy_simple |-> deploy_simple, deploy_remaining |-> deploy_remaining,
            deploy_testnet |-> deploy_testnet, deploy_contracts |-> deploy_contracts,
            final_deploy |-> final_deploy, deploy_final_vibekit |-> deploy_final_vibekit,
            deploy_credential_manager |-> deploy_credential_manager,
            deploy_credential_manager_atomic |-> deploy_credential_manager_atomic,
            deploy_cm_algokit |-> deploy_cm_algokit, onchain_zktest |-> onchain_zktest,
            force_build |-> force_build, build |-> ForEach("build"),
            deploy |-> ForEach("deploy"), all |-> ForEach("all")]

\* The part of the tree `python -m smart_contracts` was asked for: one
\* contract, or all of them.
Named(s) == IF s \in {"build", "deploy", "all"} THEN {{c} : c \in Contracts} \cup {Folders}
            ELSE IF s = "force_build" THEN {Folders}
            ELSE {{}}

-----------------------------------------------------------------------------
(* Reading files and asking the node. *)

Step == Head(run.rest)
Ready(kinds) == run.rest # <<>> /\ run.tx = NoTx /\ Step.do \in kinds

\* What lies where a step looks for its program.
Place(s) ==
  IF s.from = "nested" \/ (s.from = "nested_or_top" /\ nested # "gone") THEN nested
  ELSE artifacts[s.c]

\* str.title() makes SmtRegistry and KycBoxStorage of names whose files are
\* SMTRegistry and KYCBoxStorage.
Readable(s) ==
  /\ Place(s) \in {"old", "current"}
  /\ s.from = "titled" /\ cased => s.c \notin {ROOTS, BOX}

\* A step that raises because of what it finds, or does not find, on the disk.
Blocked(s) ==
  CASE s.do = "create" -> ~Readable(s)
    [] s.do = "copy" -> s.mkdir /\ nested # "gone" /\ artifacts[CM] = "file"
    [] s.do = "merge" -> record.file = "torn" \/ (s.required /\ record.file = "none")
    [] s.do = "spec" -> s.c = VERIFIER \/ artifacts[s.c] \notin {"old", "current"}
    [] s.do = "import" -> ~s.found \/ artifacts[s.c] \notin {"old", "current"}
    [] s.do \in {"clear", "remove"} -> artifacts[s.c] = "file"
    [] s.do = "read_record" -> record.file # "good" \/ ~record.of[NR].address
    [] OTHER -> FALSE

\* The old credential manager makes its asset within create, which a new and
\* so unfunded application cannot pay for.  Contracts insist on their ABI
\* create, and SMTRegistry's takes a root; only the template has a bare one.
NodeTakes(s) ==
  CASE s.do = "create" -> /\ s.call \in {"abi", "plain"} => s.c # CM \/ Place(s) # "old"
                          /\ s.call = "plain" => s.c # ROOTS
                          /\ s.call = "bare" => s.c = HELLO
                          /\ s.call # "source"
    [] s.do = "init" -> apps[run.made[s.c]].funded /\ apps[run.made[s.c]].asa = 0
    [] s.do = "register" -> ~apps[run.made[s.c]].known
    [] OTHER -> TRUE

After(t) ==
  CASE t.do = "create" -> Append(apps, App(t.c, t.noted))
    [] t.do = "fund" -> [apps EXCEPT ![t.app].funded = TRUE]
    [] t.do = "init" -> [apps EXCEPT ![t.app].asa = t.app]
    [] t.do = "register" -> [apps EXCEPT ![t.app].known = TRUE, ![t.app].total = @ + 1]
    [] OTHER -> apps

StillValid(t) == t.do = "register" => ~apps[t.app].known

-----------------------------------------------------------------------------
(* Starting and ending. *)

Start(s) ==
  /\ run = Idle /\ runs < MaxRuns
  /\ \E todo \in Named(s) :
       run' = [Idle EXCEPT !.script = s, !.rest = Program[s], !.todo = todo]
  /\ runs' = runs + 1
  /\ UNCHANGED <<apps, late, disk, record, explained>>

\* A script dies with an exception or an exit: what it has made stays made.
Dies ==
  /\ run' = Idle
  /\ late' = late \cup {t \in {run.tx} : t.state = "pending"}
  /\ explained' = explained \cup {run.made[c] : c \in Contracts}
                            \cup (IF run.tx.state = "confirmed" THEN {run.tx.app} ELSE {})

Finish ==
  /\ run # Idle /\ run.rest = <<>>
  /\ run' = Idle
  /\ UNCHANGED <<apps, late, disk, record, runs, explained>>

\* The node cannot be reached, the account is empty, somebody stops it.
Crash ==
  /\ run # Idle
  /\ Dies
  /\ UNCHANGED <<apps, disk, record, runs>>

-----------------------------------------------------------------------------
(* Transactions. *)

Send ==
  /\ Ready({"create", "fund", "init", "register", "hello"}) /\ ~Blocked(Step)
  /\ NodeTakes(Step)
  /\ run' = [run EXCEPT !.tx =
               [do |-> Step.do, c |-> Step.c, app |-> run.made[Step.c], no |-> runs,
                noted |-> Step.do = "create" /\ Step.call = "bare", state |-> "pending"]]
  /\ UNCHANGED <<apps, late, disk, record, runs, explained>>

Refused ==
  /\ Ready({"create", "fund", "init", "register", "hello"}) /\ ~Blocked(Step)
  /\ ~NodeTakes(Step)
  /\ Dies
  /\ UNCHANGED <<apps, disk, record, runs>>

Commit ==
  /\ run.tx.state = "pending" /\ StillValid(run.tx)
  /\ apps' = After(run.tx)
  /\ run' = [run EXCEPT !.tx.state = "confirmed",
                        !.tx.app = IF run.tx.do = "create" THEN Len(apps') ELSE @]
  /\ UNCHANGED <<late, disk, record, runs, explained>>

LateCommit(t) ==
  /\ t \in late /\ StillValid(t)
  /\ apps' = After(t)
  /\ late' = late \ {t}
  /\ explained' = explained \cup (DOMAIN apps' \ DOMAIN apps)
  /\ UNCHANGED <<disk, record, run, runs>>

LateDrop(t) ==
  /\ t \in late
  /\ late' = late \ {t}
  /\ UNCHANGED <<apps, disk, record, run, runs, explained>>

wait_for_confirmation ==
  /\ run.tx.state = "confirmed"
  /\ run' = [run EXCEPT !.tx = NoTx, !.rest = Tail(@),
                        !.made = IF run.tx.do = "create" THEN [@ EXCEPT ![run.tx.c] = run.tx.app]
                                 ELSE @]
  /\ UNCHANGED <<apps, late, disk, record, runs, explained>>

\* The transaction may be in the very last round, which nobody looks at.
GivesUpOn(t) == t.state # "none"

TimeoutError ==
  /\ GivesUpOn(run.tx)
  /\ Dies
  /\ UNCHANGED <<apps, disk, record, runs>>

\* AlgoKit's deploy leaves an application it finds alone, and the caller does
\* not fund it.
Lookup ==
  /\ Ready({"lookup"})
  /\ LET found == {a \in DOMAIN apps : apps[a].noted /\ apps[a].contract = Step.c} IN
       \/ found = {} /\ run' = [run EXCEPT !.rest = Tail(@)]
       \/ \E a \in found : run' = [run EXCEPT !.made[Step.c] = a, !.rest = SubSeq(@, 4, Len(@))]
  /\ UNCHANGED <<apps, late, disk, record, runs, explained>>

-----------------------------------------------------------------------------
(* Files. *)

Goes(r) == run' = [r EXCEPT !.rest = Tail(@)]

Raises ==
  /\ run.rest # <<>> /\ run.tx = NoTx
  /\ Blocked(Step)
  /\ Dies
  /\ UNCHANGED <<apps, disk, record, runs>>

\* shutil.copy into a directory that is not there makes a file of its name.
Copied(mkdir) ==
  CASE nested = "current" -> IF mkdir \/ artifacts[CM] \in {"empty", "old", "current"}
                             THEN "current" ELSE "file"
    [] nested = "empty" /\ mkdir /\ artifacts[CM] = "gone" -> "empty"
    [] OTHER -> artifacts[CM]

Copy ==
  /\ Ready({"copy"}) /\ ~Blocked(Step)
  /\ artifacts' = [artifacts EXCEPT ![CM] = Copied(Step.mkdir)]
  /\ Goes(run)
  /\ UNCHANGED <<apps, late, nested, cased, proof, record, runs, explained>>

\* The directory is made first; a compiler that fails leaves it as it was.
CompileNested ==
  /\ Ready({"compile_nested"})
  /\ \/ nested' = "current" /\ Goes(run) /\ UNCHANGED <<late, explained>>
     \/ nested' = (IF nested = "gone" THEN "empty" ELSE nested) /\ Dies
  /\ UNCHANGED <<apps, artifacts, cased, proof, record, runs>>

\* A directory is cleared before the compiler runs.
Clear ==
  /\ Ready({"clear", "remove"}) /\ ~Blocked(Step)
  /\ artifacts' = [artifacts EXCEPT ![Step.c] = IF Step.do = "clear" THEN "empty" ELSE "gone"]
  /\ Goes(run)
  /\ UNCHANGED <<apps, late, nested, cased, proof, record, runs, explained>>

Compile ==
  /\ Ready({"compile"})
  /\ \/ artifacts' = [artifacts EXCEPT ![Step.c] = "current"] /\ Goes(run)
        /\ UNCHANGED <<late, explained>>
     \/ Dies /\ UNCHANGED artifacts
  /\ UNCHANGED <<apps, nested, cased, proof, record, runs>>

\* Path.iterdir yields the contracts in any order.
NextContract ==
  /\ Ready({"each"})
  /\ \/ run.todo = {} /\ Goes(run)
     \/ \E c \in run.todo :
          run' = [run EXCEPT !.todo = @ \ {c}, !.rest = PerContract(Step.action, c) \o @]
  /\ UNCHANGED <<apps, late, disk, record, runs, explained>>

\* A specification that is there, a factory of the name that is imported.
CheckFiles ==
  /\ Ready({"spec", "import"}) /\ ~Blocked(Step)
  /\ Goes(run)
  /\ UNCHANGED <<apps, late, disk, record, runs, explained>>

ReadsAsset ==
  /\ Ready({"read_asset"})
  /\ Goes([run EXCEPT !.asa = apps[run.made[CM]].asa])
  /\ UNCHANGED <<apps, late, disk, record, runs, explained>>

-----------------------------------------------------------------------------
(* The record. *)

Overwritten(fixed) ==
  [c \in Recorded |->
     IF c \in fixed THEN [NoApp EXCEPT !.id = HardCoded[c]]
     ELSE [id |-> run.made[c], address |-> TRUE, asa |-> IF c = CM THEN run.asa ELSE 0]]

Merged == [record.of EXCEPT ![CM] = [id |-> run.made[CM], address |-> TRUE, asa |-> run.asa]]

Write ==
  /\ Ready({"overwrite", "merge"}) /\ ~Blocked(Step)
  /\ record' = [file |-> "good",
                of |-> IF Step.do = "merge" THEN Merged ELSE Overwritten(Step.fixed)]
  /\ explained' = explained \cup {record'.of[c].id : c \in Recorded}
  /\ Goes(run)
  /\ UNCHANGED <<apps, late, disk, runs>>

\* write_text empties the file before it writes.
WriteTorn ==
  /\ Ready({"overwrite", "merge"}) /\ ~Blocked(Step)
  /\ record' = [NoRecord EXCEPT !.file = "torn"]
  /\ Dies
  /\ UNCHANGED <<apps, disk, runs>>

-----------------------------------------------------------------------------
(* The on-chain test, with the issuer's other business going on. *)

verify_proof_offchain ==
  /\ Ready({"verify_proof"})
  /\ IF proof THEN Goes(run) /\ UNCHANGED <<late, explained>> ELSE Dies
  /\ UNCHANGED <<apps, disk, record, runs>>

ReadRecord ==
  /\ Ready({"read_record"}) /\ ~Blocked(Step)
  /\ Goes([run EXCEPT !.made[NR] = record.of[NR].id, !.before = apps[record.of[NR].id].total])
  /\ UNCHANGED <<apps, late, disk, record, runs, explained>>

CompareCount ==
  /\ Ready({"count"})
  /\ IF apps[run.made[NR]].total = run.before + 1
     THEN Goes(run) /\ UNCHANGED <<late, explained>>
     ELSE Dies
  /\ UNCHANGED <<apps, disk, record, runs>>

\* The backend registers and revokes in the same registry.
OthersWrite ==
  /\ run.script = "onchain_zktest" /\ run.made[NR] # 0
  /\ LET a == run.made[NR] IN
       \/ apps[a].total < MaxTotal /\ apps' = [apps EXCEPT ![a].total = @ + 1]
       \/ apps[a].total > (IF apps[a].known THEN 1 ELSE 0) /\ apps' = [apps EXCEPT ![a].total = @ - 1]
       \/ apps[a].known /\ apps' = [apps EXCEPT ![a].total = @ - 1, ![a].known = FALSE]
  /\ UNCHANGED <<late, disk, record, run, runs, explained>>

-----------------------------------------------------------------------------
RunStep ==
  \/ Finish \/ Send \/ Refused \/ wait_for_confirmation \/ TimeoutError
  \/ Lookup \/ Raises \/ Copy \/ CompileNested \/ Clear \/ Compile \/ NextContract
  \/ CheckFiles \/ ReadsAsset \/ Write \/ verify_proof_offchain \/ ReadRecord \/ CompareCount

Next ==
  \/ \E s \in DOMAIN Program : Start(s)
  \/ RunStep
  \/ Crash \/ WriteTorn \/ Commit \/ OthersWrite
  \/ \E t \in late : LateCommit(t) \/ LateDrop(t)

Spec == Init /\ [][Next]_vars

\* A script that is running is run; nothing is assumed of the chain.
FairSpec == Spec /\ WF_vars(RunStep)

-----------------------------------------------------------------------------
(* Properties. *)

\* Every id in the record is an application of that very contract, and the
\* asset beside the credential manager is the one that very manager made,
\* whatever scripts wrote the record, died on the way or found it torn.
RecordNamesApps ==
  record.file = "good" =>
    \A c \in Recorded : record.of[c].id # 0 =>
       /\ record.of[c].id \in DOMAIN apps
       /\ apps[record.of[c].id].contract = c
       /\ c = CM => record.of[c].asa = apps[record.of[c].id].asa

\* Every application a script has made was written to the record at some time,
\* is in the hands of the running script, or was made by a script that died;
\* only what AlgoKit deploys is noted on the chain instead.
NoneMadeInVain ==
  \A a \in DOMAIN apps :
    \/ a \in explained
    \/ a \in {run.made[c] : c \in Contracts}
    \/ run.tx.state = "confirmed" /\ run.tx.app = a
    \/ apps[a].noted

\* Once the four contracts are in the record they stay there, though scripts
\* for one contract write it too.
RecordStaysComplete ==
  [][record.file = "good" /\ record'.file = "good" =>
       \A c \in Recorded : record.of[c].id # 0 => record'.of[c].id # 0]_vars

\* A script ends, one way or another, even if the chain never answers.
EveryRunEnds == run # Idle ~> run = Idle
=============================================================================
