-------------------------------- MODULE Widget --------------------------------
(***************************************************************************)
(* The KYC widget in the browser: its five steps, the parses and the proof *)
(* runs that are in flight behind them, and the backend's answers.         *)
(*                                                                         *)
(* The page never cancels an await: a parse or a run that began in one     *)
(* step calls the root component's setters in whatever step it finds it.   *)
(***************************************************************************)
EXTENDS Naturals, Sequences, SequencesExt, FiniteSets, FrontendConstants

CONSTANTS
  Files,       \* Aadhaar files the user may choose
  AdultFiles,  \* those whose year of birth is 18 or more years ago
  Wallets,     \* wallet addresses
  MaxSelects,  \* bound of the model: files chosen
  MaxSecrets   \* bound of the model: wallet secrets drawn

ASSUME WidgetAssumption ==
  /\ AdultFiles \subseteq Files
  /\ MaxSelects \in Nat /\ MaxSecrets \in Nat
  /\ None \notin Files
  /\ None \notin [wallet : Wallets, secret : Nat]
  /\ None \notin [nullifier : Files \X Nat, demo : BOOLEAN]

VARIABLES
  step, aadhaar, walletData, result,  \* the root component's state
  started, error,   \* the state of the mounted ProofStage
  parsing,          \* parseAadhaarXML calls that have not settled
  selects,          \* files chosen so far
  drawn,            \* secrets drawn so far; genSecret never repeats one
  runs,             \* every call of run, in the order they began
  registered,       \* the registry: <<nullifier, wallet>>
  confirmed         \* history: the file on screen at the last Confirm

shown == <<step, aadhaar, walletData, result, started, error>>
widget == <<shown, parsing, selects, drawn, runs, registered, confirmed>>

\* A nullifier is taken as the pair it is a hash of.
Nullifier(r) == <<r.file, r.secret>>

-----------------------------------------------------------------------------
\* Mutated forms of definitions below: the bugs the properties must catch.
ParsedInto_Stay(s) == IF s = "upload" THEN "parse" ELSE s
AfterReset_Parse == "parse"
ResultOf_Unmarked(r) == [nullifier |-> Nullifier(r), demo |-> FALSE]
proceed_Kept(w) ==
  /\ step = "secret"
  /\ walletData # None \/ drawn < MaxSecrets
  /\ drawn' = IF walletData = None THEN drawn + 1 ELSE drawn
  /\ walletData' = [wallet |-> w, secret |-> drawn']
  /\ step' = "prove"
  /\ started' = FALSE /\ error' = FALSE
  /\ UNCHANGED <<aadhaar, result, parsing, selects, runs, registered, confirmed>>

-----------------------------------------------------------------------------
\* The step a parse leads to, whatever step it finds.
ParsedInto(s) == "parse"

\* Confirm is disabled for a minor.
Confirmable(f) == f \in AdultFiles

\* The step that reset returns to.
AfterReset == "upload"

\* The ProofStage that began the run is still mounted: every mount has a
\* secret of its own, and setError after an unmount does nothing.
Attached(r) ==
  /\ step = "prove"
  /\ walletData # None
  /\ walletData.secret = r.secret

\* What SuccessStage is given.
ResultOf(r) == [nullifier |-> Nullifier(r), demo |-> r.reply = "demo"]

ProofStageGone == started' = FALSE /\ error' = FALSE

WidgetInit ==
  /\ step = "upload" /\ aadhaar = None /\ walletData = None /\ result = None
  /\ started = FALSE /\ error = FALSE
  /\ parsing = {} /\ selects = 0 /\ drawn = 0
  /\ runs = <<>>
  /\ registered = {}
  /\ confirmed = None

-----------------------------------------------------------------------------
(* Upload: Continue may be pressed again while a file is being parsed. *)

SelectFile(f) ==
  /\ step = "upload"
  /\ selects < MaxSelects
  /\ selects' = selects + 1
  /\ parsing' = parsing \cup {<<f, selects'>>}
  /\ UNCHANGED <<shown, drawn, runs, registered, confirmed>>

ParseDone(p) ==
  /\ p \in parsing
  /\ parsing' = parsing \ {p}
  /\ aadhaar' = p[1]
  /\ step' = ParsedInto(step)
  /\ ProofStageGone
  /\ UNCHANGED <<walletData, result, selects, drawn, runs, registered, confirmed>>

ParseFails(p) ==
  /\ p \in parsing
  /\ parsing' = parsing \ {p}
  /\ UNCHANGED <<shown, selects, drawn, runs, registered, confirmed>>

-----------------------------------------------------------------------------
(* The steps the user takes. *)

Confirm ==
  /\ step = "parse"
  /\ Confirmable(aadhaar)
  /\ step' = "secret"
  /\ confirmed' = aadhaar
  /\ UNCHANGED <<aadhaar, walletData, result, started, error, parsing, selects, drawn,
                 runs, registered>>

Back ==
  /\ \/ step = "parse" /\ step' = "upload"
     \/ step = "secret" /\ step' = "parse"
  /\ UNCHANGED <<aadhaar, walletData, result, started, error, parsing, selects, drawn,
                 runs, registered, confirmed>>

\* The secret was drawn when WalletStage was mounted, or at Regenerate; the
\* field is read-only, so it is never one the user saved earlier.
proceed(w) ==
  /\ step = "secret"
  /\ drawn < MaxSecrets
  /\ drawn' = drawn + 1
  /\ walletData' = [wallet |-> w, secret |-> drawn']
  /\ step' = "prove"
  /\ ProofStageGone
  /\ UNCHANGED <<aadhaar, result, parsing, selects, runs, registered, confirmed>>

reset ==
  /\ step = "done"
  /\ step' = AfterReset
  /\ aadhaar' = None /\ walletData' = None /\ result' = None
  /\ UNCHANGED <<started, error, parsing, selects, drawn, runs, registered, confirmed>>

\* The page is reloaded: its promises are gone, a request that was sent is not.
ReloadPage ==
  /\ step' = "upload"
  /\ aadhaar' = None /\ walletData' = None /\ result' = None
  /\ ProofStageGone
  /\ parsing' = {}
  /\ confirmed' = None
  /\ runs' = [i \in DOMAIN runs |->
       [runs[i] EXCEPT !.pc = IF @ \in {"sent", "orphan"} THEN "orphan" ELSE "over"]]
  /\ UNCHANGED <<selects, drawn, registered>>

-----------------------------------------------------------------------------
(* Proof runs. *)

\* The button is there until the stage has been started, and so is Retry.
run ==
  /\ step = "prove" /\ aadhaar # None /\ walletData # None
  /\ ~started
  /\ started' = TRUE
  /\ error' = FALSE
  /\ runs' = Append(runs, [file |-> aadhaar, wallet |-> walletData.wallet,
                           secret |-> walletData.secret, mock |-> FALSE,
                           reply |-> "none", pc |-> "proving"])
  /\ UNCHANGED <<step, aadhaar, walletData, result, parsing, selects, drawn, registered,
                 confirmed>>

\* The proof, or a mock of one if snarkjs fails; then the request goes out.
Submit(i) ==
  /\ runs[i].pc = "proving"
  /\ \E mock \in BOOLEAN :
       runs' = [runs EXCEPT ![i].pc = "sent", ![i].mock = mock]
  /\ UNCHANGED <<shown, parsing, selects, drawn, registered, confirmed>>

\* The backend accepts real proofs only.  Its 400s mention snarkjs when the
\* proof fails and when the snarkjs CLI is missing; any other refusal is an
\* error, and so is an answer that came too late for a transaction that went in.
Register(i) ==
  /\ runs[i].pc \in {"sent", "orphan"}
  /\ \E reply \in {"ok", "demo", "error"} :
       /\ \/ /\ reply # "demo"
             /\ ~runs[i].mock
             /\ \A r \in registered : r[1] # Nullifier(runs[i])
             /\ registered' = registered \cup {<<Nullifier(runs[i]), runs[i].wallet>>}
          \/ reply # "ok" /\ UNCHANGED registered
       /\ runs' = [runs EXCEPT
            ![i].pc = IF @ = "sent" THEN "answered" ELSE "over", ![i].reply = reply]
  /\ UNCHANGED <<shown, parsing, selects, drawn, confirmed>>

Succeeds(i) ==
  /\ runs[i].pc = "answered" /\ runs[i].reply \in {"ok", "demo"}
  /\ runs' = [runs EXCEPT ![i].pc = "over"]
  /\ result' = ResultOf(runs[i])
  /\ step' = "done"
  /\ ProofStageGone
  /\ UNCHANGED <<aadhaar, walletData, parsing, selects, drawn, registered, confirmed>>

\* An exception anywhere in run: the hash, the fetch, or a refusal.
Fails(i) ==
  /\ \/ runs[i].pc \in {"proving", "sent"}
     \/ runs[i].pc = "answered" /\ runs[i].reply = "error"
  /\ runs' = [runs EXCEPT ![i].pc = IF @ = "sent" THEN "orphan" ELSE "over"]
  /\ error' = (error \/ Attached(runs[i]))
  /\ UNCHANGED <<step, aadhaar, walletData, result, started, parsing, selects, drawn,
                 registered, confirmed>>

Proceeds(i) == Submit(i) \/ Register(i) \/ Succeeds(i) \/ Fails(i)

WidgetNext ==
  \/ \E f \in Files : SelectFile(f)
  \/ \E p \in parsing : ParseDone(p) \/ ParseFails(p)
  \/ Confirm \/ Back \/ reset \/ ReloadPage \/ run
  \/ \E w \in Wallets : proceed(w)
  \/ \E i \in DOMAIN runs : Proceeds(i)

WidgetSpec == WidgetInit /\ [][WidgetNext]_widget

-----------------------------------------------------------------------------
(* Properties. *)

\* Whatever a late parse or a late run does to the step, the state that the
\* step's component is drawn from is there: the card is never blank.
NeverBlank ==
  /\ step = "parse" => aadhaar # None
  /\ step = "prove" => aadhaar # None /\ walletData # None
  /\ step = "done" => result # None

\* Beyond the identity step the widget works with the very identity that the
\* user saw and confirmed there, of an adult, even if a second file was still
\* being parsed: no proof is ever run about another.
WhatWasConfirmed ==
  /\ step \in {"secret", "prove"} => aadhaar = confirmed /\ confirmed \in AdultFiles
  /\ \A i \in DOMAIN runs : runs[i].file \in AdultFiles

\* A result that is not marked as a demo names a nullifier in the registry.
ResultIsRegistered ==
  result # None /\ ~result.demo => \E r \in registered : r[1] = result.nullifier

\* A nullifier goes to the backend from one run at most.  A late parse may take
\* the stage away from a run that goes on, and the user may come back to the
\* step before that run has ended; the stage may fail, or succeed and be left:
\* no way leads to a second run with the same secret.
OneRunPerSecret == \A i, j \in DOMAIN runs : runs[i].secret = runs[j].secret => i = j

=============================================================================
