-------------------------- MODULE DeploymentProofs --------------------------
(***************************************************************************)
(* Proofs about the deployment scripts, for any number of runs that die    *)
(* anywhere, over any folders.                                             *)
(*                                                                         *)
(* What is left of a script is one of two kinds of sequences.  It may be   *)
(* plain: it writes no record and makes no application but with AlgoKit's  *)
(* bare create.  Or its last step writes the record, and every contract    *)
(* this step takes from the run is created exactly once before it or has   *)
(* been made already.                                                      *)
(***************************************************************************)
EXTENDS Deployment, Integers, SequenceTheorems, TLAPS

Places == {"titled", "top", "nested", "nested_or_top"}
Calls == {"abi", "plain", "source", "bare"}
Actions == {"build", "deploy", "all"}

\* The steps of all scripts.
Steps ==
  [do : {"create"}, c : Contracts, from : Places, call : Calls]
  \cup [do : {"fund", "init", "register", "hello", "lookup", "spec", "clear", "compile", "remove"},
        c : Contracts]
  \cup [do : {"import"}, c : Contracts, found : BOOLEAN]
  \cup [do : {"copy"}, mkdir : BOOLEAN]
  \cup [do : {"overwrite"}, fixed : SUBSET {NR, ROOTS, BOX}]
  \cup [do : {"merge"}, required : BOOLEAN]
  \cup [do : {"each"}, action : Actions]
  \cup [do : {"read_asset", "compile_nested", "verify_proof", "read_record", "count"}]

IsWrite(s) == s.do \in {"overwrite", "merge"}

\* The contracts whose applications a write takes from the run.
Covers(w) == IF w.do = "merge" THEN {CM} ELSE Recorded \ w.fixed

IsCreate(s, c) == s.do = "create" /\ s.c = c
Creates(r, c) == \E i \in 1 .. Len(r) : IsCreate(r[i], c)

\* The asset is read before the write.
WillRead(r) == Len(r) > 1 /\ r[Len(r) - 1].do = "read_asset"

PlainStep(s) == /\ ~IsWrite(s) /\ s.do \notin {"init", "read_asset"}
                /\ s.do = "create" => s.call = "bare"
Plain(r) == \A i \in 1 .. Len(r) : PlainStep(r[i])

Deploying(s, w) ==
  /\ s.do \in {"create", "fund", "copy", "lookup", "init", "read_asset", "compile_nested"}
  /\ s.do = "create" => s.c \in Covers(w)
  /\ s.do = "lookup" => s.c \in Recorded
  /\ s.do = "init" => s.c = CM

Recording(r) ==
  /\ Len(r) > 0 /\ IsWrite(r[Len(r)])
  /\ \A i \in 1 .. Len(r) - 1 : Deploying(r[i], r[Len(r)])
  /\ \A i, j \in 1 .. Len(r) : \A c \in Contracts : IsCreate(r[i], c) /\ IsCreate(r[j], c) => i = j
  /\ \A i \in 1 .. Len(r) : r[i].do = "read_asset" => i = Len(r) - 1
  /\ \A i \in 1 .. Len(r) : r[i].do = "init" => WillRead(r)

-----------------------------------------------------------------------------
(* The inductive invariant. *)

AppRecord == [contract : Contracts, noted : BOOLEAN, funded : BOOLEAN, asa : Nat,
              total : Int, known : BOOLEAN]
TxRecord == [do : {"none", "create", "fund", "init", "register", "hello"}, c : Contracts, app : Nat,
             noted : BOOLEAN, no : Nat, state : {"none", "pending", "confirmed"}]
RunRecord == [script : DOMAIN Program \cup {"none"}, rest : Seq(Steps), 
              todo : SUBSET Contracts, made : [Contracts -> Nat],
              asa : Nat, before : Int, tx : TxRecord]
RecordFile == [file : {"good", "torn"},
               of : [Recorded -> [id : Nat, address : BOOLEAN, asa : Nat]]]

TypeOK ==
  /\ apps \in Seq(AppRecord)
  /\ late \subseteq TxRecord
  /\ record \in RecordFile
  /\ run \in RunRecord
  /\ runs \in Nat
  /\ explained \subseteq 0 .. Len(apps)

\* An application the running script has made and nobody else knows of yet.
Confirmed(a) == run.tx.state = "confirmed" /\ run.tx.do = "create" /\ run.tx.app = a

ChainOK ==
  /\ \A c \in Recorded : HardCoded[c] \in 1 .. Len(apps) /\ apps[HardCoded[c]].contract = c
  /\ \A a \in 1 .. Len(apps) : apps[a].noted => apps[a].contract = HELLO

\* A transaction is the step the script is at.
TxOK ==
  /\ run.tx.state = "none" => run.tx = NoTx
  /\ run.tx.state # "none" =>
       /\ run.rest # <<>> /\ run.tx.do = Step.do /\ run.tx.c = Step.c /\ run.tx.do # "none"
       /\ run.tx.noted <=> Step.do = "create" /\ Step.call = "bare"
       /\ run.tx.noted => run.tx.c = HELLO
       /\ run.tx.do # "create" => run.tx.app = run.made[run.tx.c]
  /\ \A a \in Nat : Confirmed(a) =>
       /\ a \in 1 .. Len(apps) /\ a \notin explained
       /\ apps[a].contract = run.tx.c /\ apps[a].noted = run.tx.noted /\ apps[a].asa = 0

\* What dead scripts have sent cannot touch an asset somebody still asks for.
LateOK ==
  \A t \in late :
    /\ t.noted => t.c = HELLO
    /\ t.do = "init" => /\ t.app \in explained
                        /\ record.file = "good" => t.app # record.of[CM].id

MadeOK ==
  \A c \in Contracts : run.made[c] # 0 =>
     run.made[c] \in 1 .. Len(apps) /\ apps[run.made[c]].contract = c

\* A plain rest owes nothing.
PlainOK ==
  Plain(run.rest) =>
    \A c \in Contracts : run.made[c] # 0 => run.made[c] \in explained \/ apps[run.made[c]].noted

\* Before a write everything made is owed to it; and the asset is known, or
\* will be read, or there is none yet.
RecordingOK ==
  Recording(run.rest) =>
    /\ \A c \in Contracts :
         /\ run.made[c] # 0 <=> c \in Covers(run.rest[Len(run.rest)]) /\ ~Creates(run.rest, c)
         /\ run.made[c] # 0 => run.made[c] \notin explained
    /\ Creates(run.rest, CM) => run.asa = 0
    /\ ~WillRead(run.rest) /\ run.made[CM] # 0 => run.asa = apps[run.made[CM]].asa

RecordOK ==
  record.file = "good" =>
    \A c \in Recorded :
      /\ record.of[c].id \in 1 .. Len(apps) /\ record.of[c].id \in explained
      /\ apps[record.of[c].id].contract = c
      /\ c = CM => record.of[c].asa = apps[record.of[c].id].asa

IInv ==
  /\ TypeOK /\ ChainOK /\ TxOK /\ LateOK /\ MadeOK
  /\ Plain(run.rest) \/ Recording(run.rest)
  /\ PlainOK /\ RecordingOK /\ RecordOK
  /\ NoneMadeInVain

-----------------------------------------------------------------------------
(* What is left of a script, one step later. *)

LEMMA StepTypes ==
  ASSUME NEW s \in Steps
  PROVE  /\ s.do \in {"create", "fund", "init", "register", "hello", "lookup", "spec", "clear",
                      "compile", "remove", "import"} => s.c \in Contracts
         /\ s.do = "overwrite" => s.fixed \subseteq {NR, ROOTS, BOX}
         /\ s.do = "each" => s.action \in Actions
BY DEF Steps

LEMMA TailFacts ==
  ASSUME NEW r \in Seq(Steps), r # <<>>
  PROVE  /\ Len(r) \in Nat /\ Len(r) >= 1
         /\ Head(r) = r[1] /\ Head(r) \in Steps
         /\ Tail(r) \in Seq(Steps) /\ Len(Tail(r)) = Len(r) - 1
         /\ \A i \in 1 .. Len(r) - 1 : Tail(r)[i] = r[i + 1]
BY HeadTailProperties

LEMMA PlainTail ==
  ASSUME NEW r \in Seq(Steps), r # <<>>, Plain(r)
  PROVE  Plain(Tail(r)) /\ PlainStep(Head(r))
BY TailFacts DEF Plain

LEMMA PlainConcat ==
  ASSUME NEW r \in Seq(Steps), NEW q \in Seq(Steps), Plain(r), Plain(q)
  PROVE  r \o q \in Seq(Steps) /\ Plain(r \o q)
<1>1. /\ r \o q \in Seq(Steps) /\ Len(r \o q) = Len(r) + Len(q) /\ Len(r) \in Nat /\ Len(q) \in Nat
      /\ \A i \in 1 .. Len(r) + Len(q) : (r \o q)[i] = IF i <= Len(r) THEN r[i] ELSE q[i - Len(r)]
  BY ConcatProperties
<1>2. ASSUME NEW i \in 1 .. Len(r \o q) PROVE PlainStep((r \o q)[i])
  <2>1. CASE i <= Len(r)
    BY <1>1, <2>1 DEF Plain
  <2>2. CASE i > Len(r)
    BY <1>1, <2>2 DEF Plain
  <2>3. QED
    BY <1>1, <2>1, <2>2
<1>3. QED
  BY <1>1, <1>2 DEF Plain

LEMMA RecordingTail ==
  ASSUME NEW r \in Seq(Steps), r # <<>>, Recording(r), ~IsWrite(Head(r))
  PROVE  /\ Recording(Tail(r))
         /\ Tail(r)[Len(Tail(r))] = r[Len(r)]
         /\ Deploying(Head(r), r[Len(r)])
         /\ \A c \in Contracts : Creates(Tail(r), c) <=> Creates(r, c) /\ ~IsCreate(Head(r), c)
         /\ Head(r).do # "read_asset" => (WillRead(Tail(r)) <=> WillRead(r))
         /\ Head(r).do = "read_asset" => ~WillRead(Tail(r)) /\ ~Creates(r, CM)
         /\ Head(r).do = "init" => WillRead(r)
<1> DEFINE n == Len(r)
           q == Tail(r)
<1>1. n \in Nat /\ n >= 1 /\ Head(r) = r[1] /\ Len(q) = n - 1 /\ \A i \in 1 .. n - 1 : q[i] = r[i + 1]
  BY TailFacts
<1> HIDE DEF n, q
<1>2. n > 1
  <2>1. IsWrite(r[n]) /\ ~IsWrite(r[1])
    BY <1>1 DEF Recording, n
  <2>2. n # 1
    BY <2>1
  <2>3. QED
    BY <1>1, <2>2
<1>3. q[n - 1] = r[n] /\ IsWrite(q[n - 1])
  BY <1>1, <1>2 DEF Recording, n
<1>4. Deploying(r[1], r[n])
  BY <1>1, <1>2 DEF Recording, n
<1>5. Recording(q)
  <2>1. \A i \in 1 .. n - 2 : Deploying(q[i], q[n - 1])
    BY <1>1, <1>2, <1>3 DEF Recording, n
  <2>2. ASSUME NEW i \in 1 .. n - 1, NEW j \in 1 .. n - 1, NEW c \in Contracts,
               IsCreate(q[i], c), IsCreate(q[j], c)
        PROVE  i = j
    <3>1. i + 1 \in 1 .. n /\ j + 1 \in 1 .. n /\ IsCreate(r[i + 1], c) /\ IsCreate(r[j + 1], c)
      BY <1>1, <2>2
    <3>2. i + 1 = j + 1
      BY <3>1 DEF Recording, n
    <3>3. QED
      BY <3>2
  <2>3. ASSUME NEW i \in 1 .. n - 1, q[i].do = "read_asset"
        PROVE  i = n - 2
    <3>1. i + 1 \in 1 .. n /\ r[i + 1].do = "read_asset"
      BY <1>1, <2>3
    <3>2. i + 1 = n - 1
      BY <3>1 DEF Recording, n
    <3>3. QED
      BY <1>1, <3>2
  <2>4. ASSUME NEW i \in 1 .. n - 1, q[i].do = "init"
        PROVE  n - 1 > 1 /\ q[n - 2].do = "read_asset"
    <3>1. i + 1 \in 1 .. n /\ r[i + 1].do = "init"
      BY <1>1, <2>4
    <3>2. r[n - 1].do = "read_asset"
      BY <3>1 DEF Recording, WillRead, n
    <3>3. i + 1 # n - 1 /\ i + 1 # n
      BY <1>3, <3>1, <3>2 DEF IsWrite
    <3>4. n - 2 \in 1 .. n - 1
      BY <1>1, <3>1, <3>3
    <3>5. QED
      BY <1>1, <3>2, <3>4
  <2>5. QED
    BY <1>1, <1>2, <1>3, <2>1, <2>2, <2>3, <2>4 DEF Recording, WillRead
<1>6. ASSUME NEW c \in Contracts
      PROVE  Creates(q, c) <=> Creates(r, c) /\ ~IsCreate(r[1], c)
  <2>1. ASSUME Creates(q, c) PROVE Creates(r, c) /\ ~IsCreate(r[1], c)
    <3>1. PICK i \in 1 .. n - 1 : IsCreate(q[i], c)
      BY <1>1, <2>1 DEF Creates
    <3>2. i + 1 \in 1 .. n /\ IsCreate(r[i + 1], c)
      BY <1>1, <3>1
    <3>3. i + 1 # 1 /\ 1 \in 1 .. n
      BY <1>1, <3>1
    <3>4. ~IsCreate(r[1], c)
      BY <3>2, <3>3 DEF Recording, n
    <3>5. QED
      BY <3>2, <3>4 DEF Creates, n
  <2>2. ASSUME Creates(r, c), ~IsCreate(r[1], c) PROVE Creates(q, c)
    <3>1. PICK i \in 1 .. n : IsCreate(r[i], c)
      BY <2>2 DEF Creates, n
    <3>2. i # 1
      BY <2>2, <3>1
    <3>3. i - 1 \in 1 .. n - 1 /\ q[i - 1] = r[i]
      BY <1>1, <3>2
    <3>4. QED
      BY <1>1, <3>1, <3>3 DEF Creates
  <2>3. QED
    BY <2>1, <2>2
<1>7. r[1].do # "read_asset" => (WillRead(q) <=> WillRead(r))
  <2>1. n = 2 => ~WillRead(q) /\ (WillRead(r) => r[1].do = "read_asset")
    BY <1>1 DEF WillRead, n
  <2>2. n > 2 => q[n - 2] = r[n - 1]
    BY <1>1
  <2>3. QED
    BY <1>1, <1>2, <2>1, <2>2 DEF WillRead, n
<1>8. ASSUME r[1].do = "read_asset" PROVE ~WillRead(q) /\ ~Creates(r, CM)
  <2>1. 1 \in 1 .. n
    BY <1>1
  <2>2. n = 2
    BY <1>1, <1>8, <2>1 DEF Recording, n
  <2>3. ~WillRead(q)
    BY <1>1, <2>2 DEF WillRead
  <2>4. ~IsCreate(r[1], CM) /\ ~IsCreate(r[2], CM)
    BY <1>8, <2>2 DEF IsCreate, Recording, IsWrite, n
  <2>5. \A i \in 1 .. n : i = 1 \/ i = 2
    BY <2>2
  <2>6. QED
    BY <2>3, <2>4, <2>5 DEF Creates, n
<1>9. r[1].do = "init" => WillRead(r)
  BY <1>1 DEF Recording, n
<1>10. QED
  BY <1>1, <1>3, <1>4, <1>5, <1>6, <1>7, <1>8, <1>9 DEF n, q

LEMMA WriteIsLast ==
  ASSUME NEW r \in Seq(Steps), r # <<>>, Recording(r), IsWrite(Head(r))
  PROVE  /\ Len(r) = 1 /\ Tail(r) \in Seq(Steps) /\ Plain(Tail(r)) /\ Head(r) = r[Len(r)]
         /\ \A c \in Contracts : ~Creates(r, c)
         /\ ~WillRead(r)
<1>1. Len(r) \in Nat /\ Len(r) >= 1 /\ Head(r) = r[1] /\ Tail(r) \in Seq(Steps) /\ Len(Tail(r)) = Len(r) - 1
  BY TailFacts
<1>2. Len(r) = 1
  <2>1. SUFFICES ASSUME Len(r) > 1 PROVE FALSE
    BY <1>1
  <2>2. \A i \in 1 .. Len(r) - 1 : Deploying(r[i], r[Len(r)])
    BY DEF Recording
  <2>3. QED
    BY <1>1, <2>1, <2>2 DEF Deploying, IsWrite
<1>3. \A i \in 1 .. Len(r) : i = 1
  BY <1>2
<1>4. \A c \in Contracts : ~IsCreate(r[1], c)
  BY <1>1 DEF IsCreate, IsWrite
<1>5. Plain(Tail(r))
  BY <1>1, <1>2 DEF Plain
<1>6. QED
  BY <1>1, <1>2, <1>3, <1>4, <1>5 DEF Creates, WillRead

LEMMA NotBoth == ASSUME NEW r \in Seq(Steps) PROVE ~(Plain(r) /\ Recording(r))
<1>1. Len(r) \in Nat
  OBVIOUS
<1>2. QED
  BY <1>1 DEF Plain, Recording, PlainStep


-----------------------------------------------------------------------------
(* Every script is of one of the two kinds. *)

LEMMA Joined ==
  ASSUME NEW S, NEW s \in Seq(S), NEW t \in Seq(S), NEW u \in Seq(S), Len(u) = Len(s) + Len(t),
         \A i \in 1 .. Len(s) : u[i] = s[i], \A i \in 1 .. Len(t) : u[Len(s) + i] = t[i]
  PROVE  s \o t = u
<1>1. /\ s \o t \in Seq(S) /\ Len(s \o t) = Len(s) + Len(t) /\ Len(s) \in Nat /\ Len(t) \in Nat
      /\ \A i \in 1 .. Len(s) + Len(t) : (s \o t)[i] = IF i <= Len(s) THEN s[i] ELSE t[i - Len(s)]
  BY ConcatProperties
<1>2. ASSUME NEW i \in 1 .. Len(u) PROVE u[i] = (s \o t)[i]
  <2>1. CASE i <= Len(s)
    BY <1>1, <2>1
  <2>2. CASE i > Len(s)
    <3>1. i - Len(s) \in 1 .. Len(t) /\ Len(s) + (i - Len(s)) = i
      BY <1>1, <2>2
    <3>2. u[i] = t[i - Len(s)]
      BY <3>1
    <3>3. QED
      BY <1>1, <2>2, <3>2
  <2>3. QED
    BY <1>1, <2>1, <2>2
<1>3. QED
  BY <1>1, <1>2, SeqEqual

LEMMA Join22 ==
  ASSUME NEW a, NEW b, NEW c, NEW d
  PROVE  <<a, b>> \o <<c, d>> = <<a, b, c, d>>
<1> DEFINE S == {a, b, c, d}
           s == <<a, b>>
           t == <<c, d>>
           u == <<a, b, c, d>>
<1>1. s \in Seq(S) /\ t \in Seq(S) /\ u \in Seq(S) /\ Len(u) = Len(s) + Len(t)
  OBVIOUS
<1>2. \A i \in 1 .. Len(s) : u[i] = s[i]
  OBVIOUS
<1>3. \A i \in 1 .. Len(t) : u[Len(s) + i] = t[i]
  OBVIOUS
<1> HIDE DEF s, t, u
<1>4. s \o t = u
  BY <1>1, <1>2, <1>3, Joined, Zenon
<1>5. QED
  BY <1>4 DEF s, t, u

LEMMA Join42 ==
  ASSUME NEW a, NEW b, NEW c, NEW d, NEW e, NEW f
  PROVE  <<a, b, c, d>> \o <<e, f>> = <<a, b, c, d, e, f>>
<1> DEFINE S == {a, b, c, d, e, f}
           s == <<a, b, c, d>>
           t == <<e, f>>
           u == <<a, b, c, d, e, f>>
<1>1. s \in Seq(S) /\ t \in Seq(S) /\ u \in Seq(S) /\ Len(u) = Len(s) + Len(t)
  OBVIOUS
<1>2. \A i \in 1 .. Len(s) : u[i] = s[i]
  OBVIOUS
<1>3. \A i \in 1 .. Len(t) : u[Len(s) + i] = t[i]
  OBVIOUS
<1> HIDE DEF s, t, u
<1>4. s \o t = u
  BY <1>1, <1>2, <1>3, Joined, Zenon
<1>5. QED
  BY <1>4 DEF s, t, u

LEMMA Join62 ==
  ASSUME NEW a, NEW b, NEW c, NEW d, NEW e, NEW f, NEW g, NEW h
  PROVE  <<a, b, c, d, e, f>> \o <<g, h>> = <<a, b, c, d, e, f, g, h>>
<1> DEFINE S == {a, b, c, d, e, f, g, h}
           s == <<a, b, c, d, e, f>>
           t == <<g, h>>
           u == <<a, b, c, d, e, f, g, h>>
<1>1. s \in Seq(S) /\ t \in Seq(S) /\ u \in Seq(S) /\ Len(u) = Len(s) + Len(t)
  OBVIOUS
<1>2. \A i \in 1 .. Len(s) : u[i] = s[i]
  OBVIOUS
<1>3. \A i \in 1 .. Len(t) : u[Len(s) + i] = t[i]
  OBVIOUS
<1> HIDE DEF s, t, u
<1>4. s \o t = u
  BY <1>1, <1>2, <1>3, Joined, Zenon
<1>5. QED
  BY <1>4 DEF s, t, u

LEMMA Join81 ==
  ASSUME NEW a, NEW b, NEW c, NEW d, NEW e, NEW f, NEW g, NEW h, NEW i
  PROVE  <<a, b, c, d, e, f, g, h>> \o <<i>> = <<a, b, c, d, e, f, g, h, i>>
<1> DEFINE S == {a, b, c, d, e, f, g, h, i}
           s == <<a, b, c, d, e, f, g, h>>
           t == <<i>>
           u == <<a, b, c, d, e, f, g, h, i>>
<1>1. s \in Seq(S) /\ t \in Seq(S) /\ u \in Seq(S) /\ Len(u) = Len(s) + Len(t)
  OBVIOUS
<1>2. \A j \in 1 .. Len(s) : u[j] = s[j]
  OBVIOUS
<1>3. \A j \in 1 .. Len(t) : u[Len(s) + j] = t[j]
  OBVIOUS
<1> HIDE DEF s, t, u
<1>4. s \o t = u
  BY <1>1, <1>2, <1>3, Joined, Zenon
<1>5. QED
  BY <1>4 DEF s, t, u

LEMMA Join21 ==
  ASSUME NEW a, NEW b, NEW c
  PROVE  <<a, b>> \o <<c>> = <<a, b, c>>
<1> DEFINE S == {a, b, c}
           s == <<a, b>>
           t == <<c>>
           u == <<a, b, c>>
<1>1. s \in Seq(S) /\ t \in Seq(S) /\ u \in Seq(S) /\ Len(u) = Len(s) + Len(t)
  OBVIOUS
<1>2. \A i \in 1 .. Len(s) : u[i] = s[i]
  OBVIOUS
<1>3. \A i \in 1 .. Len(t) : u[Len(s) + i] = t[i]
  OBVIOUS
<1> HIDE DEF s, t, u
<1>4. s \o t = u
  BY <1>1, <1>2, <1>3, Joined, Zenon
<1>5. QED
  BY <1>4 DEF s, t, u

LEMMA Join32 ==
  ASSUME NEW a, NEW b, NEW c, NEW d, NEW e
  PROVE  <<a, b, c>> \o <<d, e>> = <<a, b, c, d, e>>
<1> DEFINE S == {a, b, c, d, e}
           s == <<a, b, c>>
           t == <<d, e>>
           u == <<a, b, c, d, e>>
<1>1. s \in Seq(S) /\ t \in Seq(S) /\ u \in Seq(S) /\ Len(u) = Len(s) + Len(t)
  OBVIOUS
<1>2. \A i \in 1 .. Len(s) : u[i] = s[i]
  OBVIOUS
<1>3. \A i \in 1 .. Len(t) : u[Len(s) + i] = t[i]
  OBVIOUS
<1> HIDE DEF s, t, u
<1>4. s \o t = u
  BY <1>1, <1>2, <1>3, Joined, Zenon
<1>5. QED
  BY <1>4 DEF s, t, u

LEMMA Join51 ==
  ASSUME NEW a, NEW b, NEW c, NEW d, NEW e, NEW f
  PROVE  <<a, b, c, d, e>> \o <<f>> = <<a, b, c, d, e, f>>
<1> DEFINE S == {a, b, c, d, e, f}
           s == <<a, b, c, d, e>>
           t == <<f>>
           u == <<a, b, c, d, e, f>>
<1>1. s \in Seq(S) /\ t \in Seq(S) /\ u \in Seq(S) /\ Len(u) = Len(s) + Len(t)
  OBVIOUS
<1>2. \A i \in 1 .. Len(s) : u[i] = s[i]
  OBVIOUS
<1>3. \A i \in 1 .. Len(t) : u[Len(s) + i] = t[i]
  OBVIOUS
<1> HIDE DEF s, t, u
<1>4. s \o t = u
  BY <1>1, <1>2, <1>3, Joined, Zenon
<1>5. QED
  BY <1>4 DEF s, t, u

LEMMA Join23 ==
  ASSUME NEW a, NEW b, NEW c, NEW d, NEW e
  PROVE  <<a, b>> \o <<c, d, e>> = <<a, b, c, d, e>>
<1> DEFINE S == {a, b, c, d, e}
           s == <<a, b>>
           t == <<c, d, e>>
           u == <<a, b, c, d, e>>
<1>1. s \in Seq(S) /\ t \in Seq(S) /\ u \in Seq(S) /\ Len(u) = Len(s) + Len(t)
  OBVIOUS
<1>2. \A i \in 1 .. Len(s) : u[i] = s[i]
  OBVIOUS
<1>3. \A i \in 1 .. Len(t) : u[Len(s) + i] = t[i]
  OBVIOUS
<1> HIDE DEF s, t, u
<1>4. s \o t = u
  BY <1>1, <1>2, <1>3, Joined, Zenon
<1>5. QED
  BY <1>4 DEF s, t, u

LEMMA Join15 ==
  ASSUME NEW a, NEW b, NEW c, NEW d, NEW e, NEW f
  PROVE  <<a>> \o <<b, c, d, e, f>> = <<a, b, c, d, e, f>>
<1> DEFINE S == {a, b, c, d, e, f}
           s == <<a>>
           t == <<b, c, d, e, f>>
           u == <<a, b, c, d, e, f>>
<1>1. s \in Seq(S) /\ t \in Seq(S) /\ u \in Seq(S) /\ Len(u) = Len(s) + Len(t)
  OBVIOUS
<1>2. \A i \in 1 .. Len(s) : u[i] = s[i]
  OBVIOUS
<1>3. \A i \in 1 .. Len(t) : u[Len(s) + i] = t[i]
  OBVIOUS
<1> HIDE DEF s, t, u
<1>4. s \o t = u
  BY <1>1, <1>2, <1>3, Joined, Zenon
<1>5. QED
  BY <1>4 DEF s, t, u


\* A script that starts owes what its write covers.
Owes(r) == /\ r \in Seq(Steps) /\ Recording(r)
           /\ \A c \in Contracts : c \in Covers(r[Len(r)]) <=> Creates(r, c)


LEMMA StepsOfScripts ==
  /\ \A c \in Contracts, from \in Places, call \in Calls : Create(c, from, call) \in Steps
  /\ \A c \in Contracts : Fund(c) \in Steps
  /\ \A k \in {"init", "register", "hello", "lookup", "spec", "clear", "compile", "remove"} :
       \A c \in Contracts : [do |-> k, c |-> c] \in Steps
  /\ \A k \in {"compile_nested", "verify_proof", "read_record", "count"} : [do |-> k] \in Steps
  /\ ReadAsset \in Steps
  /\ \A b \in BOOLEAN : CopyNested(b) \in Steps /\ Merge(b) \in Steps
  /\ \A f \in SUBSET {NR, ROOTS, BOX} : Overwrite(f) \in Steps
  /\ \A a \in Actions : [do |-> "each", action |-> a] \in Steps
BY DEF Steps, Create, Fund, ReadAsset, CopyNested, Merge, Overwrite

LEMMA Names ==
  /\ Contracts = {NR, ROOTS, BOX, CM, HELLO, VERIFIER} /\ Recorded = {NR, ROOTS, BOX, CM}
  /\ NR # ROOTS /\ NR # BOX /\ NR # CM /\ NR # HELLO /\ NR # VERIFIER
  /\ ROOTS # BOX /\ ROOTS # CM /\ ROOTS # HELLO /\ ROOTS # VERIFIER
  /\ BOX # CM /\ BOX # HELLO /\ BOX # VERIFIER /\ CM # HELLO /\ CM # VERIFIER /\ HELLO # VERIFIER
BY DEF Contracts, Recorded, NR, ROOTS, BOX, CM, HELLO, VERIFIER

LEMMA FourThenWrite ==
  ASSUME NEW from \in Places, NEW call \in Calls
  PROVE  Owes(<< Create(NR, from, call), Fund(NR), Create(ROOTS, from, call), Fund(ROOTS),
                 Create(BOX, from, call), Fund(BOX), Create(CM, from, call), Fund(CM),
                 Overwrite({}) >>)
<1> DEFINE r == << Create(NR, from, call), Fund(NR), Create(ROOTS, from, call), Fund(ROOTS),
                   Create(BOX, from, call), Fund(BOX), Create(CM, from, call), Fund(CM),
                   Overwrite({}) >>
<1>1. r \in Seq(Steps)
  BY StepsOfScripts, Names
<1>2. /\ Len(r) = 9 /\ r[9] = [do |-> "overwrite", fixed |-> {}]
      /\ r[1].do = "create" /\ r[1].c = NR /\ r[2].do = "fund"
      /\ r[3].do = "create" /\ r[3].c = ROOTS /\ r[4].do = "fund"
      /\ r[5].do = "create" /\ r[5].c = BOX /\ r[6].do = "fund"
      /\ r[7].do = "create" /\ r[7].c = CM /\ r[8].do = "fund"
  BY DEF Create, Fund, Overwrite
<1> HIDE DEF r
<1>3. Covers(r[9]) = Recorded
  BY <1>2 DEF Covers
<1>4. \A c \in Contracts : c \in Recorded <=> Creates(r, c)
  BY <1>2, Names DEF Creates, IsCreate
<1>5. \A i, j \in 1 .. 9 : \A c \in Contracts : IsCreate(r[i], c) /\ IsCreate(r[j], c) => i = j
  BY <1>2, Names DEF IsCreate
<1>6. \A i \in 1 .. 8 : Deploying(r[i], r[9])
  BY <1>2, <1>3, Names DEF Deploying
<1>7. IsWrite(r[9]) /\ \A i \in 1 .. 9 : r[i].do \notin {"read_asset", "init"}
  BY <1>2 DEF IsWrite
<1>8. QED
  BY <1>1, <1>2, <1>3, <1>4, <1>5, <1>6, <1>7 DEF Owes, Recording, r

LEMMA AllThenWrite ==
  ASSUME NEW from \in Places, NEW call \in Calls, NEW other \in Places
  PROVE  Owes(<< Create(NR, from, call), Create(ROOTS, from, call), Create(BOX, from, call),
                 Create(CM, other, call), Overwrite({}) >>)
<1> DEFINE r == << Create(NR, from, call), Create(ROOTS, from, call),
                   Create(BOX, from, call), Create(CM, other, call), Overwrite({}) >>
<1>1. r \in Seq(Steps)
  BY StepsOfScripts, Names
<1>2. /\ Len(r) = 5 /\ r[5] = Overwrite({})
      /\ r[1].do = "create" /\ r[1].c = NR
      /\ r[2].do = "create" /\ r[2].c = ROOTS
      /\ r[3].do = "create" /\ r[3].c = BOX
      /\ r[4].do = "create" /\ r[4].c = CM
  BY DEF Create, Fund, CopyNested, ReadAsset
<1> HIDE DEF r
<1>3. Covers(r[5]) = Recorded /\ IsWrite(r[5])
  BY <1>2, Names DEF Covers, IsWrite, Overwrite, Merge
<1>4. \A c \in Contracts : c \in Recorded <=> Creates(r, c)
  BY <1>2, <1>3, Names DEF Creates, IsCreate, IsWrite
<1>5. \A i, j \in 1 .. 5 : \A c \in Contracts : IsCreate(r[i], c) /\ IsCreate(r[j], c) => i = j
  BY <1>2, <1>3, Names DEF IsCreate, IsWrite
<1>6. \A i \in 1 .. 4 : Deploying(r[i], r[5])
  BY <1>2, <1>3, Names DEF Deploying
<1>7. \A i \in 1 .. 5 : r[i].do \notin {"read_asset", "init"}
  BY <1>2, <1>3 DEF IsWrite
<1>8. QED
  BY <1>1, <1>2, <1>3, <1>4, <1>5, <1>6, <1>7 DEF Owes, Recording, r

LEMMA TwoThenWrite ==
  ASSUME NEW w \in Steps, IsWrite(w), Covers(w) = {BOX, CM},
         NEW copy \in Steps, copy.do = "copy", NEW from \in Places, NEW call \in Calls
  PROVE  Owes(<< Create(BOX, from, call), Fund(BOX), copy, Create(CM, from, call), Fund(CM),
                 w >>)
<1> DEFINE r == << Create(BOX, from, call), Fund(BOX), copy, Create(CM, from, call),
                   Fund(CM), w >>
<1>1. r \in Seq(Steps)
  BY StepsOfScripts, Names
<1>2. /\ Len(r) = 6 /\ r[6] = w
      /\ r[1].do = "create" /\ r[1].c = BOX
      /\ r[2].do = "fund"
      /\ r[3].do = "copy"
      /\ r[4].do = "create" /\ r[4].c = CM
      /\ r[5].do = "fund"
  BY DEF Create, Fund, CopyNested, ReadAsset
<1> HIDE DEF r
<1>3. Covers(r[6]) = {BOX, CM} /\ IsWrite(r[6])
  BY <1>2, Names DEF Covers, IsWrite, Overwrite, Merge
<1>4. \A c \in Contracts : c \in {BOX, CM} <=> Creates(r, c)
  BY <1>2, <1>3, Names DEF Creates, IsCreate, IsWrite
<1>5. \A i, j \in 1 .. 6 : \A c \in Contracts : IsCreate(r[i], c) /\ IsCreate(r[j], c) => i = j
  BY <1>2, <1>3, Names DEF IsCreate, IsWrite
<1>6. \A i \in 1 .. 5 : Deploying(r[i], r[6])
  BY <1>2, <1>3, Names DEF Deploying
<1>7. \A i \in 1 .. 6 : r[i].do \notin {"read_asset", "init"}
  BY <1>2, <1>3 DEF IsWrite
<1>8. QED
  BY <1>1, <1>2, <1>3, <1>4, <1>5, <1>6, <1>7 DEF Owes, Recording, r

LEMMA CopiedThenWrite ==
  ASSUME NEW w \in Steps, IsWrite(w), Covers(w) = {CM},
         NEW copy \in Steps, copy.do = "copy", NEW from \in Places, NEW call \in Calls
  PROVE  Owes(<< copy, Create(CM, from, call), ReadAsset, w >>)
<1> DEFINE r == << copy, Create(CM, from, call), ReadAsset, w >>
<1>1. r \in Seq(Steps)
  BY StepsOfScripts, Names
<1>2. /\ Len(r) = 4 /\ r[4] = w
      /\ r[1].do = "copy"
      /\ r[2].do = "create" /\ r[2].c = CM
      /\ r[3].do = "read_asset"
  BY DEF Create, Fund, CopyNested, ReadAsset
<1> HIDE DEF r
<1>3. Covers(r[4]) = {CM} /\ IsWrite(r[4])
  BY <1>2, Names DEF Covers, IsWrite, Overwrite, Merge
<1>4. \A c \in Contracts : c \in {CM} <=> Creates(r, c)
  BY <1>2, <1>3, Names DEF Creates, IsCreate, IsWrite
<1>5. \A i, j \in 1 .. 4 : \A c \in Contracts : IsCreate(r[i], c) /\ IsCreate(r[j], c) => i = j
  BY <1>2, <1>3, Names DEF IsCreate, IsWrite
<1>6. \A i \in 1 .. 3 : Deploying(r[i], r[4])
  BY <1>2, <1>3, Names DEF Deploying
<1>7. WillRead(r) /\ \A i \in 1 .. 4 : r[i].do = "read_asset" => i = 3
  BY <1>2, <1>3 DEF WillRead, IsWrite
<1>8. QED
  BY <1>1, <1>2, <1>3, <1>4, <1>5, <1>6, <1>7 DEF Owes, Recording, r

LEMMA MadeThenWrite ==
  ASSUME NEW w \in Steps, IsWrite(w), Covers(w) = {CM},
         NEW from \in Places, NEW call \in Calls
  PROVE  Owes(<< Create(CM, from, call), ReadAsset, w >>)
<1> DEFINE r == << Create(CM, from, call), ReadAsset, w >>
<1>1. r \in Seq(Steps)
  BY StepsOfScripts, Names
<1>2. /\ Len(r) = 3 /\ r[3] = w
      /\ r[1].do = "create" /\ r[1].c = CM
      /\ r[2].do = "read_asset"
  BY DEF Create, Fund, CopyNested, ReadAsset
<1> HIDE DEF r
<1>3. Covers(r[3]) = {CM} /\ IsWrite(r[3])
  BY <1>2, Names DEF Covers, IsWrite, Overwrite, Merge
<1>4. \A c \in Contracts : c \in {CM} <=> Creates(r, c)
  BY <1>2, <1>3, Names DEF Creates, IsCreate, IsWrite
<1>5. \A i, j \in 1 .. 3 : \A c \in Contracts : IsCreate(r[i], c) /\ IsCreate(r[j], c) => i = j
  BY <1>2, <1>3, Names DEF IsCreate, IsWrite
<1>6. \A i \in 1 .. 2 : Deploying(r[i], r[3])
  BY <1>2, <1>3, Names DEF Deploying
<1>7. WillRead(r) /\ \A i \in 1 .. 3 : r[i].do = "read_asset" => i = 2
  BY <1>2, <1>3 DEF WillRead, IsWrite
<1>8. QED
  BY <1>1, <1>2, <1>3, <1>4, <1>5, <1>6, <1>7 DEF Owes, Recording, r

LEMMA InitialisedThenWrite ==
  ASSUME NEW w \in Steps, IsWrite(w), Covers(w) = {CM},
         NEW from \in Places, NEW call \in Calls
  PROVE  Owes(<< [do |-> "compile_nested"], Create(CM, from, call), Fund(CM),
                 [do |-> "init", c |-> CM], ReadAsset, w >>)
<1> DEFINE r == << [do |-> "compile_nested"], Create(CM, from, call), Fund(CM),
                   [do |-> "init", c |-> CM], ReadAsset, w >>
<1>1. r \in Seq(Steps)
  BY StepsOfScripts, Names
<1>2. /\ Len(r) = 6 /\ r[6] = w
      /\ r[1].do = "compile_nested"
      /\ r[2].do = "create" /\ r[2].c = CM
      /\ r[3].do = "fund"
      /\ r[4].do = "init" /\ r[4].c = CM
      /\ r[5].do = "read_asset"
  BY DEF Create, Fund, CopyNested, ReadAsset
<1> HIDE DEF r
<1>3. Covers(r[6]) = {CM} /\ IsWrite(r[6])
  BY <1>2, Names DEF Covers, IsWrite, Overwrite, Merge
<1>4. \A c \in Contracts : c \in {CM} <=> Creates(r, c)
  BY <1>2, <1>3, Names DEF Creates, IsCreate, IsWrite
<1>5. \A i, j \in 1 .. 6 : \A c \in Contracts : IsCreate(r[i], c) /\ IsCreate(r[j], c) => i = j
  BY <1>2, <1>3, Names DEF IsCreate, IsWrite
<1>6. \A i \in 1 .. 5 : Deploying(r[i], r[6])
  BY <1>2, <1>3, Names DEF Deploying
<1>7. WillRead(r) /\ \A i \in 1 .. 6 : r[i].do = "read_asset" => i = 5
  BY <1>2, <1>3 DEF WillRead, IsWrite
<1>8. QED
  BY <1>1, <1>2, <1>3, <1>4, <1>5, <1>6, <1>7 DEF Owes, Recording, r

LEMMA LookedUpThenWrite ==
  ASSUME NEW w \in Steps, IsWrite(w), Covers(w) = {CM},
         NEW from \in Places, NEW call \in Calls
  PROVE  Owes(<< [do |-> "lookup", c |-> CM], Create(CM, from, call), Fund(CM), ReadAsset,
                 w >>)
<1> DEFINE r == << [do |-> "lookup", c |-> CM], Create(CM, from, call), Fund(CM), ReadAsset,
                   w >>
<1>1. r \in Seq(Steps)
  BY StepsOfScripts, Names
<1>2. /\ Len(r) = 5 /\ r[5] = w
      /\ r[1].do = "lookup" /\ r[1].c = CM
      /\ r[2].do = "create" /\ r[2].c = CM
      /\ r[3].do = "fund"
      /\ r[4].do = "read_asset"
  BY DEF Create, Fund, CopyNested, ReadAsset
<1> HIDE DEF r
<1>3. Covers(r[5]) = {CM} /\ IsWrite(r[5])
  BY <1>2, Names DEF Covers, IsWrite, Overwrite, Merge
<1>4. \A c \in Contracts : c \in {CM} <=> Creates(r, c)
  BY <1>2, <1>3, Names DEF Creates, IsCreate, IsWrite
<1>5. \A i, j \in 1 .. 5 : \A c \in Contracts : IsCreate(r[i], c) /\ IsCreate(r[j], c) => i = j
  BY <1>2, <1>3, Names DEF IsCreate, IsWrite
<1>6. \A i \in 1 .. 4 : Deploying(r[i], r[5])
  BY <1>2, <1>3, Names DEF Deploying
<1>7. WillRead(r) /\ \A i \in 1 .. 5 : r[i].do = "read_asset" => i = 4
  BY <1>2, <1>3 DEF WillRead, IsWrite
<1>8. QED
  BY <1>1, <1>2, <1>3, <1>4, <1>5, <1>6, <1>7 DEF Owes, Recording, r


LEMMA WritesForOne ==
  /\ \A b \in BOOLEAN : Merge(b) \in Steps /\ IsWrite(Merge(b)) /\ Covers(Merge(b)) = {CM}
  /\ LET w == Overwrite({NR, ROOTS, BOX}) IN w \in Steps /\ IsWrite(w) /\ Covers(w) = {CM}
BY StepsOfScripts, Names DEF IsWrite, Covers, Overwrite, Merge

LEMMA FourPairs ==
  ASSUME NEW a, NEW b, NEW c, NEW d, NEW e, NEW f,
         NEW g, NEW h, NEW i
  PROVE  <<a, b>> \o <<c, d>> \o <<e, f>> \o <<g, h>> \o <<i>> = <<a, b, c, d, e, f, g, h, i>>
<1>1. <<a, b>> \o <<c, d>> = <<a, b, c, d>>
  BY Join22
<1>2. <<a, b, c, d>> \o <<e, f>> = <<a, b, c, d, e, f>>
  BY Join42
<1>3. <<a, b, c, d, e, f>> \o <<g, h>> = <<a, b, c, d, e, f, g, h>>
  BY Join62
<1>4. <<a, b, c, d, e, f, g, h>> \o <<i>> = <<a, b, c, d, e, f, g, h, i>>
  BY Join81
<1>5. QED
  BY <1>1, <1>2, <1>3, <1>4

LEMMA TwoPairs ==
  ASSUME NEW a, NEW b, NEW c, NEW d, NEW e, NEW f
  PROVE  <<a, b>> \o <<c>> \o <<d, e>> \o <<f>> = <<a, b, c, d, e, f>>
<1>1. <<a, b>> \o <<c>> = <<a, b, c>>
  BY Join21
<1>2. <<a, b, c>> \o <<d, e>> = <<a, b, c, d, e>>
  BY Join32
<1>3. <<a, b, c, d, e>> \o <<f>> = <<a, b, c, d, e, f>>
  BY Join51
<1>4. QED
  BY <1>1, <1>2, <1>3

LEMMA RemainingSteps ==
  deploy_remaining = << Create(BOX, "titled", "abi"), Fund(BOX), CopyNested(FALSE),
                        Create(CM, "titled", "abi"), Fund(CM), Overwrite({NR, ROOTS}) >>
<1> DEFINE a == Create(BOX, "titled", "abi")
           b == Fund(BOX)
           c == CopyNested(FALSE)
           d == Create(CM, "titled", "abi")
           e == Fund(CM)
           f == Overwrite({NR, ROOTS})
<1>1. deploy_remaining = <<a, b>> \o <<c>> \o <<d, e>> \o <<f>>
  BY Zenon DEF deploy_remaining, deploy_remaining_contract
<1> HIDE DEF a, b, c, d, e, f
<1>2. deploy_remaining = <<a, b, c, d, e, f>>
  BY <1>1, TwoPairs
<1>3. QED
  BY <1>2 DEF a, b, c, d, e, f

LEMMA DeployingScripts ==
  /\ Owes(deploy_simple) /\ Owes(deploy_remaining) /\ Owes(deploy_testnet) /\ Owes(deploy_contracts)
  /\ Owes(final_deploy) /\ Owes(deploy_final_vibekit) /\ Owes(deploy_credential_manager)
  /\ Owes(deploy_credential_manager_atomic) /\ Owes(deploy_cm_algokit)
<1> USE Names DEF Places, Calls
<1>1. /\ CopyNested(FALSE) \in Steps /\ CopyNested(TRUE) \in Steps
      /\ CopyNested(FALSE).do = "copy" /\ CopyNested(TRUE).do = "copy"
  <2>1. FALSE \in BOOLEAN /\ TRUE \in BOOLEAN
    OBVIOUS
  <2>2. CopyNested(FALSE) \in Steps /\ CopyNested(TRUE) \in Steps
    BY <2>1, StepsOfScripts, Zenon
  <2>3. QED
    BY <2>2 DEF CopyNested
<1>2. Merge(TRUE) \in Steps /\ Merge(FALSE) \in Steps /\ IsWrite(Merge(TRUE)) /\ IsWrite(Merge(FALSE))
      /\ Covers(Merge(TRUE)) = {CM} /\ Covers(Merge(FALSE)) = {CM}
  <2>1. FALSE \in BOOLEAN /\ TRUE \in BOOLEAN
    OBVIOUS
  <2>2. QED
    BY <2>1, WritesForOne, Zenon
<1>3. \A c \in Contracts, from \in Places, call \in Calls : Create(c, from, call) \in Steps
  BY StepsOfScripts
<1>4. /\ \A c \in Contracts : Fund(c) \in Steps
      /\ \A f \in SUBSET {NR, ROOTS, BOX} : Overwrite(f) \in Steps
      /\ [do |-> "lookup", c |-> CM] \in Steps /\ [do |-> "init", c |-> CM] \in Steps
      /\ [do |-> "compile_nested"] \in Steps /\ ReadAsset \in Steps
  BY StepsOfScripts
<1>5. ASSUME NEW from \in Places, NEW call \in Calls
      PROVE  Owes(<<Create(NR, from, call), Fund(NR)>> \o <<Create(ROOTS, from, call), Fund(ROOTS)>>
                  \o <<Create(BOX, from, call), Fund(BOX)>> \o <<Create(CM, from, call), Fund(CM)>>
                  \o <<Overwrite({})>>)
  <2>1. <<Create(NR, from, call), Fund(NR)>> \o <<Create(ROOTS, from, call), Fund(ROOTS)>>
        \o <<Create(BOX, from, call), Fund(BOX)>> \o <<Create(CM, from, call), Fund(CM)>>
        \o <<Overwrite({})>>
          = << Create(NR, from, call), Fund(NR), Create(ROOTS, from, call), Fund(ROOTS),
               Create(BOX, from, call), Fund(BOX), Create(CM, from, call), Fund(CM), Overwrite({}) >>
    BY FourPairs
  <2>2. QED
    BY <2>1, FourThenWrite, Zenon
<1>6. Owes(deploy_simple)
  BY <1>5 DEF deploy_simple, deploy_contract
<1>7. Owes(deploy_testnet)
  BY <1>5 DEF deploy_testnet, create_app
<1>8. Owes(deploy_remaining)
  <2>1. /\ Create(BOX, "titled", "abi") \in Steps /\ Create(CM, "titled", "abi") \in Steps
        /\ Fund(BOX) \in Steps /\ Fund(CM) \in Steps /\ Overwrite({NR, ROOTS}) \in Steps
    BY <1>3, <1>4
  <2>2. IsWrite(Overwrite({NR, ROOTS})) /\ Covers(Overwrite({NR, ROOTS})) = {BOX, CM}
    BY DEF IsWrite, Covers, Overwrite
  <2>3. "titled" \in Places /\ "abi" \in Calls
    OBVIOUS
  <2>4. QED
    BY <1>1, <2>1, <2>2, <2>3, RemainingSteps, TwoThenWrite, Zenon
<1>9. Owes(deploy_contracts)
  BY AllThenWrite DEF deploy_contracts
<1>10. Owes(final_deploy)
  BY <1>1, CopiedThenWrite, WritesForOne DEF final_deploy
<1>11. Owes(deploy_final_vibekit)
  BY MadeThenWrite, WritesForOne DEF deploy_final_vibekit
<1>12. Owes(deploy_credential_manager_atomic)
  BY <1>2, MadeThenWrite DEF deploy_credential_manager_atomic
<1>13. Owes(deploy_credential_manager)
  <2>1. Create(CM, "nested", "plain") \in Steps /\ Fund(CM) \in Steps
    BY <1>3, <1>4
  <2>2. deploy_credential_manager = << [do |-> "compile_nested"], Create(CM, "nested", "plain"),
                                       Fund(CM), [do |-> "init", c |-> CM], ReadAsset, Merge(FALSE) >>
    <3>1. << [do |-> "compile_nested"] >> \o << Create(CM, "nested", "plain"), Fund(CM),
              [do |-> "init", c |-> CM], ReadAsset, Merge(FALSE) >>
            = << [do |-> "compile_nested"], Create(CM, "nested", "plain"), Fund(CM),
                 [do |-> "init", c |-> CM], ReadAsset, Merge(FALSE) >>
      BY Join15, Zenon
    <3>2. QED
      BY <3>1, Zenon DEF deploy_credential_manager, rewrite_and_compile_contract
  <2>3. QED
    BY <1>2, <2>2, InitialisedThenWrite
<1>14. Owes(deploy_cm_algokit)
  <2>1. /\ Create(CM, "nested_or_top", "bare") \in Steps /\ Fund(CM) \in Steps
        /\ Overwrite({NR, ROOTS, BOX}) \in Steps
    BY <1>3, <1>4
  <2>2. deploy_cm_algokit = << [do |-> "lookup", c |-> CM], Create(CM, "nested_or_top", "bare"),
                               Fund(CM), ReadAsset, Overwrite({NR, ROOTS, BOX}) >>
    <3>1. << [do |-> "lookup", c |-> CM], Create(CM, "nested_or_top", "bare") >>
          \o << Fund(CM), ReadAsset, Overwrite({NR, ROOTS, BOX}) >>
            = << [do |-> "lookup", c |-> CM], Create(CM, "nested_or_top", "bare"),
                 Fund(CM), ReadAsset, Overwrite({NR, ROOTS, BOX}) >>
      BY Join23, Zenon
    <3>2. QED
      BY <3>1, Zenon DEF deploy_cm_algokit, AlgoKitDeploy
  <2>3. QED
    BY <2>2, WritesForOne, LookedUpThenWrite
<1>15. QED
  BY <1>6, <1>7, <1>8, <1>9, <1>10, <1>11, <1>12, <1>13, <1>14

IsPlain(r) == r \in Seq(Steps) /\ Plain(r)

LEMMA PlainTuples ==
  /\ IsPlain(<<>>)
  /\ \A x \in Steps : PlainStep(x) => IsPlain(<<x>>)
  /\ \A x, y \in Steps : PlainStep(x) /\ PlainStep(y) => IsPlain(<<x, y>>)
<1>1. IsPlain(<<>>)
  BY DEF IsPlain, Plain
<1>2. ASSUME NEW x \in Steps, PlainStep(x) PROVE IsPlain(<<x>>)
  <2>1. \A i \in 1 .. Len(<<x>>) : <<x>>[i] = x
    OBVIOUS
  <2>2. QED
    BY <1>2, <2>1 DEF IsPlain, Plain
<1>3. ASSUME NEW x \in Steps, NEW y \in Steps, PlainStep(x), PlainStep(y) PROVE IsPlain(<<x, y>>)
  <2>1. \A i \in 1 .. Len(<<x, y>>) : <<x, y>>[i] = x \/ <<x, y>>[i] = y
    OBVIOUS
  <2>2. QED
    BY <1>3, <2>1 DEF IsPlain, Plain
<1>4. QED
  BY <1>1, <1>2, <1>3

LEMMA PlainJoin == ASSUME NEW r, NEW q, IsPlain(r), IsPlain(q) PROVE IsPlain(r \o q)
BY PlainConcat DEF IsPlain

LEMMA PlainSteps ==
  /\ \A c \in Contracts : Create(c, "top", "bare") \in Steps /\ PlainStep(Create(c, "top", "bare"))
  /\ \A c \in Contracts : Fund(c) \in Steps /\ PlainStep(Fund(c))
  /\ \A k \in {"register", "hello", "lookup", "spec", "clear", "compile", "remove"} :
       \A c \in Contracts : [do |-> k, c |-> c] \in Steps /\ PlainStep([do |-> k, c |-> c])
  /\ \A k \in {"verify_proof", "read_record", "count"} : [do |-> k] \in Steps /\ PlainStep([do |-> k])
  /\ \A a \in Actions : [do |-> "each", action |-> a] \in Steps /\ PlainStep([do |-> "each", action |-> a])
BY StepsOfScripts DEF Places, Calls, PlainStep, IsWrite, Create, Fund

LEMMA ImportIsPlain ==
  ASSUME NEW c \in Contracts, NEW b \in BOOLEAN
  PROVE  LET s == [do |-> "import", c |-> c, found |-> b] IN s \in Steps /\ PlainStep(s)
<1> DEFINE s == [do |-> "import", c |-> c, found |-> b]
<1>1. s \in Steps
  BY Zenon DEF Steps
<1>2. s.do = "import"
  OBVIOUS
<1>3. QED
  BY <1>1, <1>2 DEF PlainStep, IsWrite

LEMMA FactoryIsPlain ==
  ASSUME NEW c \in Contracts, NEW n, NEW f, f.deploy = AlgoKitDeploy(c, "top")
  PROVE  IsPlain(Deploys(c, n, f))
<1>1. IsPlain(AlgoKitDeploy(c, "top"))
  BY PlainSteps, PlainTuples DEF AlgoKitDeploy
<1>2. IsPlain(<< ImportFactory(c, n, f) >>)
  <2>1. (n = f.name) \in BOOLEAN
    OBVIOUS
  <2>2. ImportFactory(c, n, f) \in Steps /\ PlainStep(ImportFactory(c, n, f))
    BY <2>1, ImportIsPlain, Zenon DEF ImportFactory
  <2>3. QED
    BY <2>2, PlainTuples, Zenon
<1>3. IsPlain(<< Fund(c) >>)
  BY PlainSteps, PlainTuples
<1>4. QED
  BY <1>1, <1>2, <1>3, PlainJoin, Zenon DEF Deploys

LEMMA DeployIsPlain == ASSUME NEW c \in Contracts PROVE IsPlain(import_deploy_if_exists(c))
<1>1. IsPlain(nullifier_registry_deploy)
  BY FactoryIsPlain, Names DEF nullifier_registry_deploy, NullifierRegistryFactory
<1>2. IsPlain(smt_registry_deploy)
  BY FactoryIsPlain, Names DEF smt_registry_deploy, SmtRegistryFactory
<1>3. IsPlain(kyc_box_storage_deploy)
  BY FactoryIsPlain, Names DEF kyc_box_storage_deploy, KycBoxStorageFactory
<1>4. IsPlain(credential_manager_deploy)
  BY FactoryIsPlain, Names DEF credential_manager_deploy, CredentialManagerFactory
<1>5. IsPlain(hello_world_deploy)
  <2>1. IsPlain(Deploys(HELLO, "HelloWorldFactory", HelloWorldFactory))
    BY FactoryIsPlain, Names DEF HelloWorldFactory
  <2>2. IsPlain(<< [do |-> "hello", c |-> HELLO] >>)
    BY PlainSteps, PlainTuples, Names
  <2>3. QED
    BY <2>1, <2>2, PlainJoin DEF hello_world_deploy
<1>6. QED
  BY <1>1, <1>2, <1>3, <1>4, <1>5, PlainTuples, Names DEF import_deploy_if_exists

LEMMA PerContractIsPlain ==
  ASSUME NEW a \in Actions, NEW c \in Contracts
  PROVE  IsPlain(PerContract(a, c))
<1>1. IsPlain(build(c))
  BY PlainSteps, PlainTuples DEF build
<1>2. IsPlain(<< [do |-> "spec", c |-> c] >>)
  BY PlainSteps, PlainTuples
<1>3. IsPlain(<< [do |-> "spec", c |-> c] >> \o import_deploy_if_exists(c))
  BY <1>2, DeployIsPlain, PlainJoin
<1>4. IsPlain(build(c) \o import_deploy_if_exists(c))
  BY <1>1, DeployIsPlain, PlainJoin
<1>5. QED
  BY <1>1, <1>3, <1>4 DEF PerContract, Actions

LEMMA OtherScripts ==
  IsPlain(onchain_zktest) /\ IsPlain(force_build) /\ \A a \in Actions : IsPlain(ForEach(a))
<1>1. \A a \in Actions : IsPlain(ForEach(a))
  BY PlainSteps, PlainTuples DEF ForEach
<1>2. IsPlain(force_build)
  <2>1. IsPlain(<< [do |-> "remove", c |-> CM] >>)
    BY PlainSteps, PlainTuples, Names
  <2>2. QED
    BY <1>1, <2>1, PlainJoin DEF force_build, Actions
<1>3. IsPlain(onchain_zktest)
  <2>1. IsPlain(<< [do |-> "verify_proof"] >>)
    BY PlainSteps, PlainTuples
  <2>2. IsPlain(register_nullifier_onchain)
    <3> DEFINE a == [do |-> "read_record"]
               b == Fund(NR)
               c == [do |-> "register", c |-> NR]
               d == [do |-> "count"]
    <3>1. a \in Steps /\ PlainStep(a) /\ b \in Steps /\ PlainStep(b)
      BY PlainSteps, Names
    <3>2. c \in Steps /\ PlainStep(c) /\ d \in Steps /\ PlainStep(d)
      BY PlainSteps, Names
    <3>3. register_nullifier_onchain = <<a, b, c, d>>
      BY DEF register_nullifier_onchain
    <3> HIDE DEF a, b, c, d
    <3>4. IsPlain(<<a, b>>) /\ IsPlain(<<c, d>>)
      BY <3>1, <3>2, PlainTuples
    <3>5. <<a, b>> \o <<c, d>> = <<a, b, c, d>>
      BY Join22
    <3>6. QED
      BY <3>3, <3>4, <3>5, PlainJoin
  <2>3. QED
    BY <2>1, <2>2, PlainJoin DEF onchain_zktest
<1>4. QED
  BY <1>1, <1>2, <1>3

\* A script starts as one or the other.
LEMMA ScriptsAreKnown ==
  ASSUME NEW s \in DOMAIN Program
  PROVE  IsPlain(Program[s]) \/ Owes(Program[s])
<1>1. s \in {"deploy_simple", "deploy_remaining", "deploy_testnet", "deploy_contracts", "final_deploy",
             "deploy_final_vibekit", "deploy_credential_manager", "deploy_credential_manager_atomic",
             "deploy_cm_algokit", "onchain_zktest", "force_build", "build", "deploy", "all"}
  BY DEF Program
<1>2. /\ Program["deploy_simple"] = deploy_simple /\ Program["deploy_remaining"] = deploy_remaining
      /\ Program["deploy_testnet"] = deploy_testnet /\ Program["deploy_contracts"] = deploy_contracts
      /\ Program["final_deploy"] = final_deploy
      /\ Program["deploy_final_vibekit"] = deploy_final_vibekit
      /\ Program["deploy_credential_manager"] = deploy_credential_manager
      /\ Program["deploy_credential_manager_atomic"] = deploy_credential_manager_atomic
      /\ Program["deploy_cm_algokit"] = deploy_cm_algokit
  BY DEF Program
<1>3. /\ Program["onchain_zktest"] = onchain_zktest /\ Program["force_build"] = force_build
      /\ Program["build"] = ForEach("build") /\ Program["deploy"] = ForEach("deploy")
      /\ Program["all"] = ForEach("all")
  BY DEF Program
<1>4. /\ IsPlain(ForEach("build")) /\ IsPlain(ForEach("deploy")) /\ IsPlain(ForEach("all"))
      /\ IsPlain(onchain_zktest) /\ IsPlain(force_build)
  BY OtherScripts DEF Actions
<1>5. CASE s \in {"onchain_zktest", "force_build", "build", "deploy", "all"}
  BY <1>3, <1>4, <1>5
<1>6. CASE s \notin {"onchain_zktest", "force_build", "build", "deploy", "all"}
  BY <1>1, <1>2, <1>6, DeployingScripts, Zenon
<1>7. QED
  BY <1>5, <1>6

-----------------------------------------------------------------------------
(* The invariant, step by step. *)

LEMMA NoTxFacts == NoTx \in TxRecord /\ NoTx.state = "none"
BY Names DEF NoTx, TxRecord

LEMMA IdleFacts ==
  /\ Idle \in RunRecord /\ Idle.rest = <<>> /\ Idle.tx = NoTx
  /\ \A c \in Contracts : Idle.made[c] = 0
<1>1. Nothing \in [Contracts -> Nat] /\ \A c \in Contracts : Nothing[c] = 0
  BY DEF Nothing
<1>2. <<>> \in Seq(Steps) /\ 0 \in Nat /\ 0 \in Int
  OBVIOUS
<1>3. /\ Idle.rest = <<>> /\ Idle.tx = NoTx /\ Idle.made = Nothing
      /\ Idle \in RunRecord
  BY <1>1, <1>2, NoTxFacts DEF Idle, RunRecord
<1>4. QED
  BY <1>1, <1>3

LEMMA EmptyIsPlain == Plain(<<>>) /\ ~Recording(<<>>)
BY DEF Plain, Recording

\* Between two scripts nothing is owed.
LEMMA IdleIsFine ==
  ASSUME run' = Idle
  PROVE  TxOK' /\ MadeOK' /\ Plain(run'.rest) /\ PlainOK' /\ RecordingOK'
<1>1. run'.tx = NoTx /\ run'.tx.state = "none" /\ run'.rest = <<>> /\ \A c \in Contracts : run'.made[c] = 0
  BY IdleFacts, NoTxFacts
<1>2. TxOK'
  BY <1>1 DEF TxOK, Confirmed
<1>3. MadeOK' /\ PlainOK'
  BY <1>1 DEF MadeOK, PlainOK
<1>4. Plain(run'.rest) /\ RecordingOK'
  BY <1>1, EmptyIsPlain DEF RecordingOK
<1>5. QED
  BY <1>2, <1>3, <1>4

LEMMA AppsAre ==
  ASSUME NEW c \in Contracts, NEW noted \in BOOLEAN, NEW funded \in BOOLEAN, NEW asa \in Nat,
         NEW total \in Int, NEW known \in BOOLEAN
  PROVE  [contract |-> c, noted |-> noted, funded |-> funded, asa |-> asa, total |-> total,
          known |-> known] \in AppRecord
BY Zenon DEF AppRecord

LEMMA AppFacts ==
  ASSUME NEW c \in Contracts, NEW b \in BOOLEAN
  PROVE  /\ App(c, b) \in AppRecord /\ App(c, b).contract = c /\ App(c, b).asa = 0
         /\ App(c, b).noted = b
<1>1. FALSE \in BOOLEAN /\ 0 \in Nat /\ 0 \in Int
  OBVIOUS
<1>2. App(c, b) \in AppRecord
  BY <1>1, Zenon DEF App, AppRecord
<1>3. App(c, b).contract = c /\ App(c, b).asa = 0
  BY DEF App
<1>4. App(c, b).noted = b
  BY Zenon DEF App
<1>5. QED
  BY <1>2, <1>3, <1>4

LEMMA InitEstablishesIInv == Init => IInv
<1>1. SUFFICES ASSUME Init PROVE IInv
  OBVIOUS
<1>2. /\ Len(apps) = 4 /\ run = Idle /\ late = {} /\ runs = 0 /\ explained = DOMAIN apps
      /\ apps[1] = App(NR, FALSE) /\ apps[2] = App(ROOTS, FALSE) /\ apps[3] = App(BOX, FALSE)
      /\ apps[4] = [App(CM, FALSE) EXCEPT !.asa = 4, !.funded = TRUE]
  BY <1>1 DEF Init
<1>3. \A a \in {1, 2, 3} : apps[a] \in AppRecord /\ ~apps[a].noted
  <2>1. FALSE \in BOOLEAN
    OBVIOUS
  <2>2. \A c \in Contracts : App(c, FALSE) \in AppRecord /\ App(c, FALSE).noted = FALSE
    BY <2>1, AppFacts, Zenon
  <2>3. \A c \in Contracts : App(c, FALSE) \in AppRecord /\ ~App(c, FALSE).noted
    BY <2>2
  <2>4. QED
    BY <1>2, <2>3, Names
<1>4. apps[4] \in AppRecord /\ ~apps[4].noted
  <2>1. apps[4] = [contract |-> CM, noted |-> FALSE, funded |-> TRUE, asa |-> 4, total |-> 0, known |-> FALSE]
    BY <1>2 DEF App
  <2>2. ~apps[4].noted
    BY <2>1
  <2>3. TRUE \in BOOLEAN /\ FALSE \in BOOLEAN /\ 4 \in Nat /\ 0 \in Int /\ CM \in Contracts
    BY Names
  <2>4. apps[4] \in AppRecord
    BY <2>1, <2>3, AppsAre
  <2>5. QED
    BY <2>2, <2>4
<1>5. apps \in Seq(AppRecord) /\ DOMAIN apps = 1 .. 4
  <2>1. apps = << apps[1], apps[2], apps[3], apps[4] >>
    BY <1>1 DEF Init
  <2>2. /\ apps[1] \in AppRecord /\ apps[2] \in AppRecord /\ apps[3] \in AppRecord /\ apps[4] \in AppRecord
    BY <1>3, <1>4
  <2>3. << apps[1], apps[2], apps[3], apps[4] >> \in Seq(AppRecord)
    BY <2>2
  <2>4. apps \in Seq(AppRecord)
    BY <2>1, <2>3, Zenon
  <2>5. QED
    BY <1>2, <2>4
<1>6. /\ apps[1].contract = NR /\ apps[2].contract = ROOTS /\ apps[3].contract = BOX /\ apps[4].contract = CM
  BY <1>2 DEF App
<1>7. \A a \in 1 .. 4 : a \in {1, 2, 3} \/ a = 4
  OBVIOUS
<1>8. HardCoded[NR] = 1 /\ HardCoded[ROOTS] = 2 /\ HardCoded[BOX] = 3 /\ HardCoded[CM] = 4
  BY Names DEF HardCoded
<1>9. \A c \in Recorded : record.of[c].id = HardCoded[c] /\ record.of[c].asa = apps[HardCoded[c]].asa
  BY <1>1 DEF Init
<1>10. \A c \in Recorded : HardCoded[c] \in 1 .. 4 /\ apps[HardCoded[c]].contract = c
  BY <1>6, <1>8, Names
<1>11. record \in RecordFile
  <2>1. \A c \in Recorded : HardCoded[c] \in Nat /\ apps[HardCoded[c]].asa \in Nat
    BY <1>3, <1>4, <1>7, <1>10 DEF AppRecord
  <2>2. [c \in Recorded |-> [id |-> HardCoded[c], address |-> TRUE, asa |-> apps[HardCoded[c]].asa]]
          \in [Recorded -> [id : Nat, address : BOOLEAN, asa : Nat]]
    BY <2>1
  <2>3. QED
    BY <1>1, <2>2 DEF Init, RecordFile
<1>12. TypeOK
  BY <1>2, <1>5, <1>11, IdleFacts DEF TypeOK
<1>13. ChainOK
  BY <1>2, <1>3, <1>4, <1>7, <1>10 DEF ChainOK
<1>14. LateOK
  BY <1>2 DEF LateOK
<1>15. RecordOK
  BY <1>2, <1>5, <1>9, <1>10 DEF RecordOK
<1>16. NoneMadeInVain
  BY <1>2 DEF NoneMadeInVain
<1>17. TxOK /\ MadeOK /\ Plain(run.rest) /\ PlainOK /\ RecordingOK
  <2>1. run.tx = NoTx /\ run.tx.state = "none" /\ run.rest = <<>> /\ \A c \in Contracts : run.made[c] = 0
    BY <1>2, IdleFacts, NoTxFacts
  <2>2. TxOK
    BY <2>1 DEF TxOK, Confirmed
  <2>3. MadeOK /\ PlainOK
    BY <2>1 DEF MadeOK, PlainOK
  <2>4. QED
    BY <2>1, <2>2, <2>3, EmptyIsPlain DEF RecordingOK
<1>18. QED
  BY <1>12, <1>13, <1>14, <1>15, <1>16, <1>17 DEF IInv

LEMMA DyingKeepsIInv ==
  ASSUME IInv, Dies, apps' = apps, runs' = runs,
         record' = record \/ record' = [NoRecord EXCEPT !.file = "torn"]
  PROVE  IInv'
<1>1. /\ run' = Idle
      /\ late' = late \cup {t \in {run.tx} : t.state = "pending"}
      /\ explained' = explained \cup {run.made[c] : c \in Contracts}
                                \cup (IF run.tx.state = "confirmed" THEN {run.tx.app} ELSE {})
  BY DEF Dies
<1>2. /\ run \in RunRecord /\ run.tx \in TxRecord /\ run.rest \in Seq(Steps)
      /\ run.made \in [Contracts -> Nat] /\ run.tx.app \in Nat /\ run.tx.c \in Contracts
  BY DEF IInv, TypeOK, RunRecord, TxRecord
<1>3. Len(apps) \in Nat
  BY DEF IInv, TypeOK
<1>4. \A c \in Contracts : run.made[c] \in 0 .. Len(apps)
  BY <1>2, <1>3 DEF IInv, MadeOK
<1>5. run.tx.state # "none" /\ run.tx.do # "create" => run.tx.app = run.made[run.tx.c]
  BY DEF IInv, TxOK
<1>6. run.tx.state = "confirmed" => run.tx.app \in 0 .. Len(apps)
  <2>1. run.tx.state = "confirmed" /\ run.tx.do = "create" => run.tx.app \in 1 .. Len(apps)
    BY <1>2 DEF IInv, TxOK, Confirmed
  <2>2. QED
    BY <1>2, <1>3, <1>4, <1>5, <2>1
<1>7. explained' \subseteq 0 .. Len(apps) /\ explained \subseteq explained'
  BY <1>1, <1>4, <1>6 DEF IInv, TypeOK
<1>8. record' \in RecordFile /\ (record'.file = "good" => record' = record)
  <2>1. CASE record' = record
    BY <2>1 DEF IInv, TypeOK
  <2>2. CASE record' = [NoRecord EXCEPT !.file = "torn"]
    BY <2>2 DEF NoRecord, NoApp, RecordFile
  <2>3. QED
    BY <2>1, <2>2
<1>9. TypeOK'
  BY <1>1, <1>2, <1>7, <1>8, IdleFacts DEF IInv, TypeOK
<1>10. ChainOK' /\ RecordOK'
  BY <1>7, <1>8 DEF IInv, ChainOK, RecordOK
<1>11. LateOK'
  <2>1. SUFFICES ASSUME NEW t \in late'
                 PROVE  /\ t.noted => t.c = HELLO
                        /\ t.do = "init" => /\ t.app \in explained'
                                            /\ record'.file = "good" => t.app # record'.of[CM].id
    BY DEF LateOK
  <2>2. CASE t \in late
    BY <1>7, <1>8, <2>2 DEF IInv, LateOK
  <2>3. CASE t = run.tx /\ t.state = "pending"
    <3>1. t.noted => t.c = HELLO
      BY <2>3 DEF IInv, TxOK
    <3>2. ASSUME t.do = "init" PROVE t.app \in explained' /\ (record'.file = "good" => t.app # record'.of[CM].id)
      <4>1. run.rest # <<>> /\ Step.do = "init" /\ run.tx.c = Step.c /\ t.app = run.made[run.tx.c]
        BY <1>5, <2>3, <3>2 DEF IInv, TxOK
      <4>2. Recording(run.rest)
        BY <1>2, <4>1, PlainTail DEF IInv, PlainStep, Step
      <4>3. Step.c = CM
        BY <1>2, <4>1, <4>2, RecordingTail DEF Step, IsWrite, Deploying
      <4>4. t.app = run.made[CM] /\ CM \in Contracts
        BY <4>1, <4>3, Names
      <4>5. t.app # 0 => t.app \notin explained
        BY <4>2, <4>4 DEF IInv, RecordingOK
      <4>6. record.file = "good" => record.of[CM].id \in explained /\ record.of[CM].id # 0
        BY Names DEF IInv, RecordOK
      <4>7. QED
        BY <1>1, <1>8, <4>4, <4>5, <4>6
    <3>3. QED
      BY <3>1, <3>2
  <2>4. QED
    BY <1>1, <2>1, <2>2, <2>3
<1>12. NoneMadeInVain'
  BY <1>1, <1>7 DEF IInv, NoneMadeInVain
<1>13. QED
  BY <1>1, <1>9, <1>10, <1>11, <1>12, IdleIsFine DEF IInv

LEMMA FinishKeepsIInv == ASSUME IInv, Finish PROVE IInv'
<1>1. run' = Idle /\ apps' = apps /\ late' = late /\ record' = record /\ runs' = runs /\ explained' = explained
  BY DEF Finish
<1>2. TypeOK' /\ ChainOK' /\ RecordOK'
  BY <1>1, IdleFacts DEF IInv, TypeOK, ChainOK, RecordOK
<1>3. LateOK'
  BY <1>1 DEF IInv, LateOK
<1>4. run.rest = <<>> /\ Plain(run.rest) /\ run.tx.state = "none"
  BY EmptyIsPlain DEF Finish, IInv, TxOK
<1>5. \A c \in Contracts : run.made[c] # 0 => run.made[c] \in explained \/ apps[run.made[c]].noted
  BY <1>4 DEF IInv, PlainOK
<1>6. NoneMadeInVain'
  <2>1. SUFFICES ASSUME NEW a \in DOMAIN apps PROVE a \in explained \/ apps[a].noted
    BY <1>1 DEF NoneMadeInVain
  <2>2. a # 0
    BY DEF IInv, TypeOK
  <2>3. a \in explained \/ apps[a].noted \/ \E c \in Contracts : a = run.made[c]
    BY <1>4 DEF IInv, NoneMadeInVain
  <2>4. QED
    BY <1>5, <2>2, <2>3
<1>7. QED
  BY <1>1, <1>2, <1>3, <1>6, IdleIsFine DEF IInv

LEMMA StartKeepsIInv ==
  ASSUME IInv, NEW s \in DOMAIN Program, Start(s)
  PROVE  IInv'
<1>1. PICK todo \in Named(s) : run' = [Idle EXCEPT !.script = s, !.rest = Program[s], !.todo = todo]
  BY DEF Start
<1>2. /\ run = Idle /\ runs' = runs + 1 /\ apps' = apps /\ late' = late /\ record' = record
      /\ explained' = explained
  BY DEF Start
<1>3. todo \subseteq Contracts
  BY FoldersAssumption DEF Named
<1>4. Program[s] \in Seq(Steps)
  BY ScriptsAreKnown DEF IsPlain, Owes
<1>5. /\ run' \in RunRecord /\ run'.rest = Program[s] /\ run'.tx = NoTx /\ run'.asa = 0
      /\ \A c \in Contracts : run'.made[c] = 0
  <2>1. run'.rest = Program[s] /\ run'.tx = Idle.tx /\ run'.asa = 0 /\ run'.made = Idle.made
    BY <1>1 DEF Idle
  <2>2. run' \in RunRecord
    BY <1>1, <1>3, <1>4, IdleFacts DEF RunRecord
  <2>3. QED
    BY <2>1, <2>2, IdleFacts
<1>6. TypeOK' /\ ChainOK' /\ RecordOK' /\ LateOK'
  BY <1>2, <1>5 DEF IInv, TypeOK, ChainOK, RecordOK, LateOK
<1>7. TxOK' /\ MadeOK' /\ PlainOK'
  BY <1>5, NoTxFacts DEF TxOK, Confirmed, MadeOK, PlainOK
<1>8. (Plain(run'.rest) \/ Recording(run'.rest)) /\ RecordingOK'
  <2>1. CASE IsPlain(Program[s])
    BY <1>5, <2>1, NotBoth DEF IsPlain, RecordingOK
  <2>2. CASE Owes(Program[s])
    BY <1>5, <2>2, Names DEF Owes, RecordingOK
  <2>3. QED
    BY <2>1, <2>2, ScriptsAreKnown
<1>9. NoneMadeInVain'
  <2>1. SUFFICES ASSUME NEW a \in DOMAIN apps PROVE a \in explained \/ apps[a].noted
    BY <1>2 DEF NoneMadeInVain
  <2>2. a # 0
    BY DEF IInv, TypeOK
  <2>3. a \in explained \/ apps[a].noted \/ \E c \in Contracts : a = run.made[c]
    BY <1>2, IdleFacts, NoTxFacts DEF IInv, NoneMadeInVain
  <2>4. QED
    BY <1>2, <2>2, <2>3, IdleFacts
<1>10. QED
  BY <1>6, <1>7, <1>8, <1>9 DEF IInv

\* A step that is over and has made nothing.
LEMMA PassingKeepsIInv ==
  ASSUME IInv, run.rest # <<>>, Step.do \notin {"create", "overwrite", "merge", "read_asset"},
         run' \in RunRecord, run'.rest = Tail(run.rest), run'.tx = NoTx,
         run'.made = run.made, run'.asa = run.asa,
         UNCHANGED <<apps, late, record, runs, explained>>
  PROVE  IInv'
<1> DEFINE r == run.rest
<1>1. r \in Seq(Steps) /\ r # <<>> /\ ~IsWrite(Head(r)) /\ Head(r).do # "create" /\ Head(r).do # "read_asset"
  BY DEF IInv, TypeOK, RunRecord, Step, IsWrite
<1>2. TypeOK' /\ ChainOK' /\ RecordOK' /\ LateOK' /\ MadeOK'
  BY DEF IInv, TypeOK, ChainOK, RecordOK, LateOK, MadeOK
<1>3. TxOK'
  BY NoTxFacts DEF TxOK, Confirmed
<1>4. ASSUME Plain(r)
      PROVE  (Plain(run'.rest) \/ Recording(run'.rest)) /\ PlainOK' /\ RecordingOK'
  <2>1. Plain(Tail(r)) /\ ~Recording(Tail(r))
    BY <1>1, <1>4, PlainTail, TailFacts, NotBoth
  <2>2. QED
    BY <1>4, <2>1 DEF IInv, PlainOK, RecordingOK
<1>5. ASSUME Recording(r)
      PROVE  (Plain(run'.rest) \/ Recording(run'.rest)) /\ PlainOK' /\ RecordingOK'
  <2>1. /\ Recording(Tail(r)) /\ ~Plain(Tail(r)) /\ Tail(r)[Len(Tail(r))] = r[Len(r)]
        /\ WillRead(Tail(r)) <=> WillRead(r)
    BY <1>1, <1>5, RecordingTail, TailFacts, NotBoth
  <2>2. \A c \in Contracts : Creates(Tail(r), c) <=> Creates(r, c)
    BY <1>1, <1>5, RecordingTail DEF IsCreate
  <2>3. QED
    BY <1>5, <2>1, <2>2, Names DEF IInv, PlainOK, RecordingOK
<1>6. NoneMadeInVain'
  <2>1. run.tx.state = "confirmed" => run.tx.app = run.made[run.tx.c] /\ run.tx.c \in Contracts
    BY <1>1 DEF IInv, TypeOK, RunRecord, TxRecord, TxOK, Step
  <2>2. QED
    BY <2>1 DEF IInv, NoneMadeInVain
<1>7. (Plain(run'.rest) \/ Recording(run'.rest)) /\ PlainOK' /\ RecordingOK'
  BY <1>4, <1>5 DEF IInv
<1>8. QED
  BY <1>2, <1>3, <1>6, <1>7 DEF IInv

-----------------------------------------------------------------------------
(* The chain. *)

\* Of what is on the chain stays all but an asset's name, and that at most for x.
Stays(as, x) ==
  \A a \in 1 .. Len(apps) :
    as[a].contract = apps[a].contract /\ as[a].noted = apps[a].noted /\ (a # x => as[a].asa = apps[a].asa)

LEMMA ChangeOne ==
  ASSUME NEW s \in Seq(AppRecord), NEW a, NEW v, a \in 1 .. Len(s) => v \in AppRecord
  PROVE  /\ [s EXCEPT ![a] = v] \in Seq(AppRecord) /\ Len([s EXCEPT ![a] = v]) = Len(s)
         /\ \A b \in 1 .. Len(s) : [s EXCEPT ![a] = v][b] = IF b = a THEN v ELSE s[b]
<1> DEFINE q == [s EXCEPT ![a] = v]
<1>1. Len(s) \in Nat /\ DOMAIN s = 1 .. Len(s) /\ \A b \in 1 .. Len(s) : s[b] \in AppRecord
  OBVIOUS
<1>2. DOMAIN q = 1 .. Len(s) /\ \A b \in 1 .. Len(s) : q[b] = IF b = a THEN v ELSE s[b]
  BY <1>1
<1>3. q \in [1 .. Len(s) -> AppRecord]
  BY <1>1, <1>2
<1>4. q \in Seq(AppRecord) /\ Len(q) = Len(s)
  BY <1>1, <1>3
<1>5. QED
  BY <1>2, <1>4

\* A record of an application with another asset, or with the asset it had.
Keeps(v, r) == v \in AppRecord /\ v.contract = r.contract /\ v.noted = r.noted
KeepsAll(v, r) == Keeps(v, r) /\ v.asa = r.asa

LEMMA FundedKeeps == ASSUME NEW r \in AppRecord PROVE KeepsAll([r EXCEPT !.funded = TRUE], r)
BY DEF AppRecord, Keeps, KeepsAll

LEMMA NamedKeeps == ASSUME NEW r \in AppRecord, NEW n \in Nat PROVE Keeps([r EXCEPT !.asa = n], r)
BY DEF AppRecord, Keeps

LEMMA KnownKeeps ==
  ASSUME NEW r \in AppRecord, NEW b \in BOOLEAN
  PROVE  KeepsAll([r EXCEPT !.known = b], r) /\ [r EXCEPT !.known = b].total = r.total
BY DEF AppRecord, Keeps, KeepsAll

LEMMA CountedKeeps ==
  ASSUME NEW r \in AppRecord, NEW m \in Int
  PROVE  KeepsAll([r EXCEPT !.total = m], r) /\ [r EXCEPT !.total = m].known = r.known
BY DEF AppRecord, Keeps, KeepsAll

LEMMA OneAppChanges ==
  ASSUME apps \in Seq(AppRecord), NEW a, NEW v, NEW x,
         a \in 1 .. Len(apps) => Keeps(v, apps[a]) /\ (a # x => v.asa = apps[a].asa)
  PROVE  /\ [apps EXCEPT ![a] = v] \in Seq(AppRecord) /\ Len([apps EXCEPT ![a] = v]) = Len(apps)
         /\ Stays([apps EXCEPT ![a] = v], x)
<1> DEFINE as == [apps EXCEPT ![a] = v]
<1>1. /\ as \in Seq(AppRecord) /\ Len(as) = Len(apps)
      /\ \A b \in 1 .. Len(apps) : as[b] = IF b = a THEN v ELSE apps[b]
  BY ChangeOne DEF Keeps
<1> HIDE DEF as
<1>2. Stays(as, x)
  BY <1>1 DEF Stays, Keeps
<1>3. QED
  BY <1>1, <1>2 DEF as

LEMMA AfterFacts ==
  ASSUME TypeOK, NEW t \in TxRecord
  PROVE  /\ After(t) \in Seq(AppRecord)
         /\ t.do = "create" => After(t) = Append(apps, App(t.c, t.noted))
         /\ Len(After(t)) = IF t.do = "create" THEN Len(apps) + 1 ELSE Len(apps)
         /\ Stays(After(t), IF t.do = "init" THEN t.app ELSE 0)
<1>1. /\ t.app \in Nat /\ t.c \in Contracts /\ t.noted \in BOOLEAN
      /\ t.do \in {"none", "create", "fund", "init", "register", "hello"}
  BY DEF TxRecord
<1>2. apps \in Seq(AppRecord) /\ Len(apps) \in Nat /\ \A a \in 1 .. Len(apps) : apps[a] \in AppRecord /\ a # 0
  BY DEF TypeOK
<1>3. CASE t.do = "create"
  <2>1. App(t.c, t.noted) \in AppRecord
    BY <1>1, AppFacts
  <2>2. After(t) = Append(apps, App(t.c, t.noted))
    BY <1>3 DEF After
  <2>3. QED
    BY <1>2, <1>3, <2>1, <2>2, AppendProperties DEF Stays
<1>4. CASE t.do = "fund"
  <2> DEFINE v == [apps[t.app] EXCEPT !.funded = TRUE]
  <2>1. t.app \in 1 .. Len(apps) => KeepsAll(v, apps[t.app])
    BY <1>2, FundedKeeps, Zenon
  <2>2. After(t) = [apps EXCEPT ![t.app] = v]
    BY <1>4 DEF After
  <2> HIDE DEF v
  <2>3. t.app \in 1 .. Len(apps) => Keeps(v, apps[t.app]) /\ (t.app # 0 => v.asa = apps[t.app].asa)
    BY <2>1 DEF KeepsAll
  <2>4. /\ [apps EXCEPT ![t.app] = v] \in Seq(AppRecord) /\ Len([apps EXCEPT ![t.app] = v]) = Len(apps)
        /\ Stays([apps EXCEPT ![t.app] = v], 0)
    BY <1>2, <2>3, OneAppChanges, Zenon
  <2>5. QED
    BY <1>4, <2>2, <2>4
<1>5. CASE t.do = "init"
  <2> DEFINE v == [apps[t.app] EXCEPT !.asa = t.app]
  <2>1. t.app \in 1 .. Len(apps) => Keeps(v, apps[t.app])
    BY <1>1, <1>2, NamedKeeps, Zenon
  <2>2. After(t) = [apps EXCEPT ![t.app] = v]
    BY <1>5 DEF After
  <2> HIDE DEF v
  <2>3. t.app \in 1 .. Len(apps) => Keeps(v, apps[t.app]) /\ (t.app # t.app => v.asa = apps[t.app].asa)
    BY <2>1
  <2>4. /\ [apps EXCEPT ![t.app] = v] \in Seq(AppRecord) /\ Len([apps EXCEPT ![t.app] = v]) = Len(apps)
        /\ Stays([apps EXCEPT ![t.app] = v], t.app)
    BY <1>2, <2>3, OneAppChanges, Zenon
  <2>5. QED
    BY <1>5, <2>2, <2>4
<1>6. CASE t.do = "register"
  <2> DEFINE u == [apps[t.app] EXCEPT !.known = TRUE]
             v == [u EXCEPT !.total = u.total + 1]
  <2>1. ASSUME t.app \in 1 .. Len(apps) PROVE KeepsAll(v, apps[t.app])
    <3>1. apps[t.app] \in AppRecord /\ TRUE \in BOOLEAN
      BY <1>2, <2>1
    <3>2. KeepsAll(u, apps[t.app])
      BY <3>1, KnownKeeps, Zenon
    <3> HIDE DEF u
    <3>3. u \in AppRecord /\ u.total + 1 \in Int
      BY <3>2 DEF KeepsAll, Keeps, AppRecord
    <3>4. KeepsAll(v, u)
      BY <3>3, CountedKeeps, Zenon
    <3> HIDE DEF v
    <3>5. QED
      BY <3>2, <3>4 DEF KeepsAll, Keeps
  <2>2. After(t) = [apps EXCEPT ![t.app] = v]
    BY <1>6 DEF After
  <2> HIDE DEF v
  <2>3. t.app \in 1 .. Len(apps) => Keeps(v, apps[t.app]) /\ (t.app # 0 => v.asa = apps[t.app].asa)
    BY <2>1 DEF KeepsAll
  <2>4. /\ [apps EXCEPT ![t.app] = v] \in Seq(AppRecord) /\ Len([apps EXCEPT ![t.app] = v]) = Len(apps)
        /\ Stays([apps EXCEPT ![t.app] = v], 0)
    BY <1>2, <2>3, OneAppChanges, Zenon
  <2>5. QED
    BY <1>6, <2>2, <2>4
<1>7. CASE t.do \in {"none", "hello"}
  BY <1>2, <1>7 DEF After, Stays
<1>8. QED
  BY <1>1, <1>3, <1>4, <1>5, <1>6, <1>7

\* What the chain may do without harm: one more application, that is AlgoKit's
\* only if it is the template, and another name for the asset of x.
ChainMoves(x) ==
  /\ apps' \in Seq(AppRecord) /\ Stays(apps', x)
  /\ \/ Len(apps') = Len(apps)
     \/ /\ Len(apps') = Len(apps) + 1
        /\ apps'[Len(apps')].noted => apps'[Len(apps')].contract = HELLO

LEMMA MovesKeepRecord ==
  ASSUME IInv, NEW x \in Nat, ChainMoves(x), record.file = "good" => x # record.of[CM].id,
         record' = record, run'.made = run.made, explained \subseteq explained'
  PROVE  ChainOK' /\ RecordOK' /\ MadeOK'
<1>1. /\ Len(apps) \in Nat /\ Len(apps') \in Nat /\ Len(apps') >= Len(apps)
      /\ \A a \in 1 .. Len(apps) : apps'[a].contract = apps[a].contract /\ apps'[a].noted = apps[a].noted
      /\ \A a \in 1 .. Len(apps) : a # x => apps'[a].asa = apps[a].asa
  BY DEF IInv, TypeOK, ChainMoves, Stays
<1>2. ChainOK'
  <2>1. ASSUME NEW c \in Recorded PROVE HardCoded[c] \in 1 .. Len(apps') /\ apps'[HardCoded[c]].contract = c
    BY <1>1 DEF IInv, ChainOK
  <2>2. ASSUME NEW a \in 1 .. Len(apps'), apps'[a].noted PROVE apps'[a].contract = HELLO
    <3>1. CASE a \in 1 .. Len(apps)
      BY <1>1, <2>2, <3>1 DEF IInv, ChainOK
    <3>2. CASE a \notin 1 .. Len(apps)
      <4>1. a = Len(apps')
        BY <1>1, <3>2 DEF ChainMoves
      <4>2. Len(apps') # Len(apps)
        BY <3>2
      <4>3. QED
        BY <2>2, <4>1, <4>2 DEF ChainMoves
    <3>3. QED
      BY <3>1, <3>2
  <2>3. QED
    BY <2>1, <2>2 DEF ChainOK
<1>3. RecordOK'
  BY <1>1 DEF IInv, RecordOK
<1>4. MadeOK'
  BY <1>1 DEF IInv, MadeOK
<1>5. QED
  BY <1>2, <1>3, <1>4

LEMMA MovesKeepPlan ==
  ASSUME IInv, NEW x \in Nat, ChainMoves(x),
         run'.made = run.made, run'.rest = run.rest, run'.asa = run.asa,
         explained \subseteq explained', \A a \in explained' : a \in explained \/ a > Len(apps),
         Recording(run.rest) /\ ~WillRead(run.rest) /\ run.made[CM] # 0 => x # run.made[CM]
  PROVE  (Plain(run'.rest) \/ Recording(run'.rest)) /\ PlainOK' /\ RecordingOK'
<1>1. /\ Len(apps) \in Nat
      /\ \A a \in 1 .. Len(apps) : apps'[a].noted = apps[a].noted
      /\ \A a \in 1 .. Len(apps) : a # x => apps'[a].asa = apps[a].asa
  BY DEF IInv, TypeOK, ChainMoves, Stays
<1>2. \A c \in Contracts : run.made[c] # 0 => run.made[c] \in 1 .. Len(apps)
  BY DEF IInv, MadeOK
<1>3. PlainOK'
  BY <1>1, <1>2 DEF IInv, PlainOK
<1>4. RecordingOK'
  <2>1. SUFFICES ASSUME Recording(run.rest) PROVE RecordingOK'
    BY DEF RecordingOK
  <2>2. ASSUME NEW c \in Contracts
        PROVE  /\ run.made[c] # 0 <=> c \in Covers(run.rest[Len(run.rest)]) /\ ~Creates(run.rest, c)
               /\ run.made[c] # 0 => run.made[c] \notin explained'
    BY <1>1, <1>2, <2>1 DEF IInv, RecordingOK
  <2>3. Creates(run.rest, CM) => run.asa = 0
    BY <2>1 DEF IInv, RecordingOK
  <2>4. ~WillRead(run.rest) /\ run.made[CM] # 0 => run.asa = apps'[run.made[CM]].asa
    BY <1>1, <1>2, <2>1, Names DEF IInv, RecordingOK
  <2>5. QED
    BY <2>2, <2>3, <2>4 DEF RecordingOK
<1>5. QED
  BY <1>3, <1>4 DEF IInv

LEMMA OthersKeepIInv == ASSUME IInv, OthersWrite PROVE IInv'
<1> DEFINE a == run.made[NR]
<1>1. /\ a \in 1 .. Len(apps) /\ apps[a] \in AppRecord /\ apps \in Seq(AppRecord)
      /\ UNCHANGED <<late, record, run, runs, explained>>
  BY Names DEF OthersWrite, IInv, MadeOK, TypeOK
<1> DEFINE more == [apps[a] EXCEPT !.total = @ + 1]
           less == [apps[a] EXCEPT !.total = @ - 1]
           gone == [less EXCEPT !.known = FALSE]
<1>2. \/ apps' = [apps EXCEPT ![a] = more]
      \/ apps' = [apps EXCEPT ![a] = less]
      \/ apps' = [apps EXCEPT ![a] = gone]
  BY DEF OthersWrite
<1>3. KeepsAll(more, apps[a]) /\ KeepsAll(less, apps[a])
  <2>1. apps[a].total + 1 \in Int /\ apps[a].total - 1 \in Int
    BY <1>1 DEF AppRecord
  <2>2. QED
    BY <1>1, <2>1, CountedKeeps, Zenon
<1> HIDE DEF less, more
<1>4. KeepsAll(gone, apps[a])
  <2>1. less \in AppRecord /\ FALSE \in BOOLEAN
    BY <1>3 DEF KeepsAll, Keeps
  <2>2. KeepsAll(gone, less)
    BY <2>1, KnownKeeps, Zenon
  <2> HIDE DEF gone
  <2>3. QED
    BY <1>3, <2>2 DEF KeepsAll, Keeps
<1> HIDE DEF gone, a
<1>5. PICK v : KeepsAll(v, apps[a]) /\ apps' = [apps EXCEPT ![a] = v]
  BY <1>2, <1>3, <1>4, Zenon
<1>6. ChainMoves(0) /\ Len(apps') = Len(apps)
  <2>1. a \in 1 .. Len(apps) => Keeps(v, apps[a]) /\ (a # 0 => v.asa = apps[a].asa)
    BY <1>5 DEF KeepsAll
  <2>2. QED
    BY <1>1, <1>5, <2>1, OneAppChanges DEF ChainMoves
<1>7. ChainOK' /\ RecordOK' /\ MadeOK'
  <2>1. ASSUME record.file = "good" PROVE 0 # record.of[CM].id
    <3>1. CM \in Recorded
      BY Names
    <3>2. record.of[CM].id \in 1 .. Len(apps)
      BY <2>1, <3>1 DEF IInv, RecordOK
    <3>3. QED
      BY <3>2
  <2>2. 0 \in Nat /\ record' = record /\ run'.made = run.made /\ explained \subseteq explained'
    BY <1>1
  <2>3. QED
    BY <1>6, <2>1, <2>2, MovesKeepRecord
<1>8. (Plain(run'.rest) \/ Recording(run'.rest)) /\ PlainOK' /\ RecordingOK'
  BY <1>1, <1>6, MovesKeepPlan
<1>9. TypeOK' /\ LateOK'
  BY <1>1, <1>6 DEF IInv, TypeOK, LateOK, ChainMoves
<1>10. TxOK'
  BY <1>1, <1>6 DEF IInv, TypeOK, TxOK, Confirmed, Step, ChainMoves, Stays
<1>11. NoneMadeInVain'
  <2>1. DOMAIN apps' = 1 .. Len(apps) /\ DOMAIN apps = 1 .. Len(apps)
    BY <1>1, <1>6 DEF ChainMoves
  <2>2. QED
    BY <1>1, <1>6, <2>1 DEF IInv, NoneMadeInVain, ChainMoves, Stays
<1>12. QED
  BY <1>7, <1>8, <1>9, <1>10, <1>11 DEF IInv

LEMMA LateDropKeepsIInv == ASSUME IInv, NEW t \in late, LateDrop(t) PROVE IInv'
<1>1. late' \subseteq late /\ UNCHANGED <<apps, record, run, runs, explained>>
  BY DEF LateDrop
<1>2. TypeOK' /\ LateOK'
  BY <1>1 DEF IInv, TypeOK, LateOK
<1>3. ChainOK' /\ TxOK' /\ MadeOK' /\ PlainOK' /\ RecordingOK' /\ RecordOK' /\ NoneMadeInVain'
  BY <1>1 DEF IInv, ChainOK, TxOK, Confirmed, Step, MadeOK, PlainOK, RecordingOK, RecordOK, NoneMadeInVain
<1>4. QED
  BY <1>1, <1>2, <1>3 DEF IInv

\* What a transaction does to the chain is harmless if it names no asset but x.
LEMMA CommitsMove ==
  ASSUME IInv, NEW t \in TxRecord, apps' = After(t), t.noted => t.c = HELLO
  PROVE  /\ ChainMoves(IF t.do = "init" THEN t.app ELSE 0)
         /\ Len(apps') = IF t.do = "create" THEN Len(apps) + 1 ELSE Len(apps)
         /\ t.do = "create" => /\ apps'[Len(apps')].contract = t.c /\ apps'[Len(apps')].asa = 0
                               /\ apps'[Len(apps')].noted = t.noted
<1>1. TypeOK /\ t.c \in Contracts /\ t.noted \in BOOLEAN
  BY DEF IInv, TxRecord
<1>2. /\ apps' \in Seq(AppRecord)
      /\ t.do = "create" => apps' = Append(apps, App(t.c, t.noted))
      /\ Len(apps') = IF t.do = "create" THEN Len(apps) + 1 ELSE Len(apps)
      /\ Stays(apps', IF t.do = "init" THEN t.app ELSE 0)
  BY <1>1, AfterFacts
<1>3. t.do = "create" => apps'[Len(apps')] = App(t.c, t.noted)
  <2>1. apps \in Seq(AppRecord) /\ App(t.c, t.noted) \in AppRecord
    BY <1>1, AppFacts DEF TypeOK
  <2>2. QED
    BY <1>2, <2>1, AppendProperties
<1>4. App(t.c, t.noted).contract = t.c /\ App(t.c, t.noted).asa = 0 /\ App(t.c, t.noted).noted = t.noted
  BY <1>1, AppFacts, Zenon
<1>5. t.do = "create" => /\ apps'[Len(apps')].contract = t.c /\ apps'[Len(apps')].asa = 0
                         /\ apps'[Len(apps')].noted = t.noted
  BY <1>3, <1>4, Zenon
<1>6. QED
  BY <1>2, <1>5 DEF ChainMoves

LEMMA LateCommitKeepsIInv == ASSUME IInv, NEW t \in late, LateCommit(t) PROVE IInv'
<1> DEFINE x == IF t.do = "init" THEN t.app ELSE 0
<1>1. /\ apps' = After(t) /\ late' = late \ {t} /\ explained' = explained \cup (DOMAIN apps' \ DOMAIN apps)
      /\ UNCHANGED <<record, run, runs>>
  BY DEF LateCommit
<1>2. t \in TxRecord /\ (t.noted => t.c = HELLO) /\ t.app \in Nat
  BY DEF IInv, TypeOK, LateOK, TxRecord
<1>3. ChainMoves(x) /\ (Len(apps') = Len(apps) \/ Len(apps') = Len(apps) + 1)
  BY <1>1, <1>2, CommitsMove DEF ChainMoves
<1>4. /\ x \in Nat /\ (record.file = "good" => x # record.of[CM].id) /\ (x # 0 => x \in explained)
  BY <1>2, Names DEF IInv, LateOK, RecordOK
<1> HIDE DEF x
<1>5. /\ Len(apps) \in Nat /\ DOMAIN apps = 1 .. Len(apps) /\ DOMAIN apps' = 1 .. Len(apps')
      /\ explained \subseteq 0 .. Len(apps) /\ Len(apps') \in Nat /\ Len(apps') >= Len(apps)
  BY <1>3 DEF IInv, TypeOK, ChainMoves
<1>6. /\ explained \subseteq explained' /\ explained' \subseteq 0 .. Len(apps')
      /\ \A a \in explained' : a \in explained \/ a > Len(apps)
  <2>1. explained' = explained \cup ((1 .. Len(apps')) \ (1 .. Len(apps)))
    BY <1>1, <1>5
  <2>2. 0 .. Len(apps) \subseteq 0 .. Len(apps')
    BY <1>5
  <2>3. \A a \in (1 .. Len(apps')) \ (1 .. Len(apps)) : a \in 0 .. Len(apps') /\ a > Len(apps)
    BY <1>5
  <2>4. QED
    BY <1>5, <2>1, <2>2, <2>3
<1>7. ChainOK' /\ RecordOK' /\ MadeOK'
  BY <1>1, <1>3, <1>4, <1>6, MovesKeepRecord
<1>8. (Plain(run'.rest) \/ Recording(run'.rest)) /\ PlainOK' /\ RecordingOK'
  <2>1. Recording(run.rest) /\ run.made[CM] # 0 => run.made[CM] \notin explained
    BY Names DEF IInv, RecordingOK
  <2>2. QED
    BY <1>1, <1>3, <1>4, <1>6, <2>1, MovesKeepPlan
<1>9. TypeOK'
  BY <1>1, <1>3, <1>6 DEF IInv, TypeOK, ChainMoves
<1>10. LateOK'
  BY <1>1, <1>6 DEF IInv, LateOK
<1>11. TxOK'
  <2>1. ASSUME NEW a \in Nat, Confirmed(a)
        PROVE  /\ a \in 1 .. Len(apps') /\ a \notin explained'
               /\ apps'[a].contract = run.tx.c /\ apps'[a].noted = run.tx.noted /\ apps'[a].asa = 0
    <3>1. /\ a \in 1 .. Len(apps) /\ a \notin explained
          /\ apps[a].contract = run.tx.c /\ apps[a].noted = run.tx.noted /\ apps[a].asa = 0
      BY <2>1 DEF IInv, TxOK
    <3>2. a # x /\ a \notin explained' /\ a \in 1 .. Len(apps')
      <4>1. a # 0 /\ ~(a > Len(apps)) /\ a \in 1 .. Len(apps')
        BY <1>5, <3>1
      <4>2. QED
        BY <1>4, <1>6, <3>1, <4>1
    <3>3. QED
      BY <3>1, <3>2, <1>3 DEF ChainMoves, Stays
  <2>2. QED
    BY <1>1, <2>1 DEF IInv, TxOK, Confirmed, Step
<1>12. NoneMadeInVain'
  <2>1. SUFFICES ASSUME NEW a \in 1 .. Len(apps')
                 PROVE  \/ a \in explained' \/ a \in {run.made[c] : c \in Contracts}
                        \/ run.tx.state = "confirmed" /\ run.tx.app = a
                        \/ apps'[a].noted
    BY <1>1, <1>5 DEF NoneMadeInVain
  <2>2. CASE a \in 1 .. Len(apps)
    BY <1>3, <1>5, <1>6, <2>2 DEF IInv, NoneMadeInVain, ChainMoves, Stays
  <2>3. CASE a \notin 1 .. Len(apps)
    BY <1>1, <1>5, <2>3
  <2>4. QED
    BY <2>2, <2>3
<1>13. QED
  BY <1>7, <1>8, <1>9, <1>10, <1>11, <1>12 DEF IInv

LEMMA CommitKeepsIInv == ASSUME IInv, Commit PROVE IInv'
<1> DEFINE t == run.tx
           x == IF t.do = "init" THEN t.app ELSE 0
<1>1. /\ t.state = "pending" /\ apps' = After(t)
      /\ UNCHANGED <<late, record, runs, explained>>
  BY DEF Commit
<1>2. run \in RunRecord /\ t \in TxRecord /\ t.app \in Nat /\ t.c \in Contracts
  BY DEF IInv, TypeOK, RunRecord, TxRecord
<1>3. /\ run.rest # <<>> /\ t.do = Step.do /\ t.c = Step.c /\ t.do # "none"
      /\ t.noted => t.c = HELLO
      /\ t.do # "create" => t.app = run.made[t.c]
  BY <1>1 DEF IInv, TxOK
<1>4. /\ ChainMoves(x)
      /\ Len(apps') = IF t.do = "create" THEN Len(apps) + 1 ELSE Len(apps)
      /\ t.do = "create" => /\ apps'[Len(apps')].contract = t.c /\ apps'[Len(apps')].asa = 0
                            /\ apps'[Len(apps')].noted = t.noted
  BY <1>1, <1>2, <1>3, CommitsMove
<1>5. /\ Len(apps) \in Nat /\ explained \subseteq 0 .. Len(apps) /\ Len(apps') \in Nat
      /\ DOMAIN apps' = 1 .. Len(apps') /\ DOMAIN apps = 1 .. Len(apps)
  BY <1>4 DEF IInv, TypeOK, ChainMoves
<1>6. /\ run' \in RunRecord
      /\ run'.rest = run.rest /\ run'.made = run.made /\ run'.asa = run.asa
      /\ run'.tx \in TxRecord /\ run'.tx.state = "confirmed" /\ run'.tx.do = t.do /\ run'.tx.c = t.c
      /\ run'.tx.app = IF t.do = "create" THEN Len(apps') ELSE t.app
      /\ run'.tx.noted = t.noted
  <2> DEFINE app == IF t.do = "create" THEN Len(apps') ELSE t.app
             q == [[t EXCEPT !.state = "confirmed"] EXCEPT !.app = app]
  <2>1. app \in Nat
    BY <1>2, <1>5
  <2>2. run' = [run EXCEPT !.tx = q]
    BY <1>2 DEF Commit, RunRecord
  <2> HIDE DEF app
  <2>3. /\ q \in TxRecord /\ q.state = "confirmed" /\ q.do = t.do /\ q.c = t.c /\ q.app = app
        /\ q.noted = t.noted
    BY <1>2, <2>1 DEF TxRecord
  <2> HIDE DEF q
  <2>4. /\ run' \in RunRecord /\ run'.tx = q
        /\ run'.rest = run.rest /\ run'.made = run.made /\ run'.asa = run.asa
    BY <1>2, <2>2, <2>3 DEF RunRecord
  <2>5. QED
    BY <2>3, <2>4 DEF app
<1>7. t.do = "init" => Recording(run.rest) /\ WillRead(run.rest) /\ t.app = run.made[CM]
  <2>1. SUFFICES ASSUME t.do = "init" PROVE Recording(run.rest) /\ WillRead(run.rest) /\ t.app = run.made[CM]
    OBVIOUS
  <2>2. run.rest \in Seq(Steps) /\ Head(run.rest).do = "init"
    BY <1>2, <1>3, <2>1 DEF RunRecord, Step
  <2>3. Recording(run.rest)
    BY <1>3, <2>2, PlainTail DEF IInv, PlainStep
  <2>4. Head(run.rest).c = CM /\ WillRead(run.rest)
    BY <1>3, <2>2, <2>3, RecordingTail DEF IsWrite, Deploying
  <2>5. QED
    BY <1>3, <2>1, <2>3, <2>4 DEF Step
<1>8. x \in Nat /\ (record.file = "good" => x # record.of[CM].id)
  <2>1. Recording(run.rest) /\ run.made[CM] # 0 => run.made[CM] \notin explained
    BY Names DEF IInv, RecordingOK
  <2>2. record.file = "good" => record.of[CM].id \in explained /\ record.of[CM].id # 0
    BY Names DEF IInv, RecordOK
  <2>3. QED
    BY <1>2, <1>7, <2>1, <2>2
<1> HIDE DEF x
<1>9. ChainOK' /\ RecordOK' /\ MadeOK'
  BY <1>1, <1>4, <1>6, <1>8, MovesKeepRecord
<1>10. (Plain(run'.rest) \/ Recording(run'.rest)) /\ PlainOK' /\ RecordingOK'
  <2>1. Recording(run.rest) /\ ~WillRead(run.rest) /\ run.made[CM] # 0 => x # run.made[CM]
    BY <1>7 DEF x
  <2>2. QED
    BY <1>1, <1>4, <1>6, <1>8, <2>1, MovesKeepPlan
<1>11. TypeOK'
  <2>1. explained' \subseteq 0 .. Len(apps')
    BY <1>1, <1>4, <1>5
  <2>2. QED
    BY <1>1, <1>4, <1>6, <2>1 DEF IInv, TypeOK, ChainMoves
<1>12. LateOK'
  BY <1>1 DEF IInv, LateOK
<1>13. TxOK'
  <2>1. ASSUME NEW a \in Nat, Confirmed(a)'
        PROVE  /\ a \in 1 .. Len(apps') /\ a \notin explained'
               /\ apps'[a].contract = run'.tx.c /\ apps'[a].noted = run'.tx.noted /\ apps'[a].asa = 0
    <3>1. t.do = "create" /\ a = Len(apps')
      BY <1>6, <2>1 DEF Confirmed
    <3>2. a \in 1 .. Len(apps') /\ a \notin explained'
      BY <1>1, <1>4, <1>5, <3>1
    <3>3. apps'[a].contract = run'.tx.c /\ apps'[a].asa = 0
      BY <1>4, <1>6, <3>1
    <3>4. apps'[a].noted = run'.tx.noted
      BY <1>4, <1>6, <3>1, Zenon
    <3>5. QED
      BY <3>2, <3>3, <3>4
  <2>2. t.noted <=> Step.do = "create" /\ Step.call = "bare"
    BY <1>1 DEF IInv, TxOK
  <2>3. /\ run'.tx.noted <=> Step'.do = "create" /\ Step'.call = "bare"
        /\ run'.tx.noted => run'.tx.c = HELLO
    BY <1>3, <1>6, <2>2 DEF Step
  <2>4. QED
    BY <1>3, <1>6, <2>1, <2>3 DEF TxOK, Step
<1>14. NoneMadeInVain'
  <2>1. SUFFICES ASSUME NEW a \in 1 .. Len(apps')
                 PROVE  \/ a \in explained \/ a \in {run.made[c] : c \in Contracts}
                        \/ run'.tx.state = "confirmed" /\ run'.tx.app = a
                        \/ apps'[a].noted
    BY <1>1, <1>5, <1>6 DEF NoneMadeInVain
  <2>2. CASE a \in 1 .. Len(apps)
    <3>1. a \in explained \/ a \in {run.made[c] : c \in Contracts} \/ apps[a].noted
      BY <1>1, <1>5, <2>2 DEF IInv, NoneMadeInVain
    <3>2. apps'[a].noted = apps[a].noted
      BY <1>4, <2>2 DEF ChainMoves, Stays
    <3>3. QED
      BY <3>1, <3>2
  <2>3. CASE a \notin 1 .. Len(apps)
    <3>1. Len(apps') = IF t.do = "create" THEN Len(apps) + 1 ELSE Len(apps)
      BY <1>4
    <3>2. t.do = "create"
      BY <2>3, <3>1
    <3>3. a = Len(apps')
      BY <1>5, <2>3, <3>1, <3>2
    <3>4. QED
      BY <1>6, <3>2, <3>3
  <2>4. QED
    BY <2>2, <2>3
<1>15. QED
  BY <1>9, <1>10, <1>11, <1>12, <1>13, <1>14 DEF IInv

-----------------------------------------------------------------------------
(* The steps of a running script. *)

LEMMA RunFacts ==
  ASSUME IInv
  PROVE  /\ run \in RunRecord /\ run.tx \in TxRecord /\ run.rest \in Seq(Steps)
         /\ run.made \in [Contracts -> Nat] /\ run.asa \in Nat
         /\ run.rest # <<>> => Step \in Steps /\ Step = Head(run.rest)
BY HeadTailProperties DEF IInv, TypeOK, RunRecord, Step

LEMMA SendKeepsIInv == ASSUME IInv, Send PROVE IInv'
<1> DEFINE bare == Step.do = "create" /\ Step.call = "bare"
<1>1. /\ run.rest # <<>> /\ Step.do \in {"create", "fund", "init", "register", "hello"} /\ NodeTakes(Step)
      /\ run.tx = NoTx
      /\ UNCHANGED <<apps, late, record, runs, explained>>
  BY DEF Send, Ready
<1>2. run' = [run EXCEPT !.tx = [do |-> Step.do, c |-> Step.c, app |-> run.made[Step.c], no |-> runs,
                                 noted |-> bare, state |-> "pending"]]
  BY Zenon DEF Send
<1>3. Step.c \in Contracts /\ bare \in BOOLEAN
  BY <1>1, RunFacts, StepTypes
<1>4. bare => Step.c = HELLO
  BY <1>1 DEF NodeTakes
<1>5. bare <=> Step.do = "create" /\ Step.call = "bare"
  OBVIOUS
<1> HIDE DEF bare
<1> DEFINE t == [do |-> Step.do, c |-> Step.c, app |-> run.made[Step.c], no |-> runs,
                 noted |-> bare, state |-> "pending"]
<1>6. t \in TxRecord
  <2>1. /\ run.made[Step.c] \in Nat /\ runs \in Nat
        /\ Step.do \in {"none", "create", "fund", "init", "register", "hello"}
        /\ "pending" \in {"none", "pending", "confirmed"}
    BY <1>1, <1>3, RunFacts DEF IInv, TypeOK
  <2>2. QED
    BY <1>3, <2>1, Zenon DEF TxRecord
<1>7. t.do = Step.do /\ t.c = Step.c /\ t.app = run.made[Step.c] /\ t.state = "pending"
  OBVIOUS
<1>8. t.noted = bare
  BY Zenon
<1> HIDE DEF t
<1>9. /\ run' \in RunRecord /\ run'.tx = t
      /\ run'.rest = run.rest /\ run'.made = run.made /\ run'.asa = run.asa
  <2>1. run' = [run EXCEPT !.tx = t]
    BY <1>2, Zenon DEF t
  <2>2. QED
    BY <1>6, <2>1, RunFacts DEF RunRecord
<1>10. TypeOK' /\ ChainOK' /\ LateOK' /\ RecordOK' /\ MadeOK'
  BY <1>1, <1>9 DEF IInv, TypeOK, ChainOK, LateOK, RecordOK, MadeOK
<1>11. (Plain(run'.rest) \/ Recording(run'.rest)) /\ PlainOK' /\ RecordingOK'
  BY <1>1, <1>9 DEF IInv, PlainOK, RecordingOK
<1>12. TxOK'
  <2>1. run'.tx.state = "pending" /\ \A a \in Nat : ~Confirmed(a)'
    BY <1>7, <1>9 DEF Confirmed
  <2>2. Step' = Step /\ run'.rest # <<>>
    BY <1>1, <1>9 DEF Step
  <2>3. /\ run'.tx.noted <=> Step.do = "create" /\ Step.call = "bare"
        /\ run'.tx.noted => run'.tx.c = HELLO
    BY <1>4, <1>5, <1>7, <1>8, <1>9
  <2>4. QED
    BY <1>1, <1>7, <1>9, <2>1, <2>2, <2>3 DEF TxOK
<1>13. NoneMadeInVain'
  BY <1>1, <1>9, NoTxFacts DEF IInv, NoneMadeInVain
<1>14. QED
  BY <1>10, <1>11, <1>12, <1>13 DEF IInv

LEMMA PassingFacts ==
  ASSUME IInv, run.rest # <<>>, Goes(run)
  PROVE  /\ run' \in RunRecord /\ run'.rest = Tail(run.rest) /\ run'.tx = run.tx
         /\ run'.made = run.made /\ run'.asa = run.asa
BY RunFacts, HeadTailProperties DEF Goes, RunRecord

LEMMA WaitKeepsIInv == ASSUME IInv, wait_for_confirmation PROVE IInv'
<1> DEFINE t == run.tx
           r == run.rest
           made == IF t.do = "create" THEN [run.made EXCEPT ![t.c] = t.app] ELSE run.made
<1>1. /\ t.state = "confirmed"
      /\ run' = [run EXCEPT !.tx = NoTx, !.rest = Tail(run.rest), !.made = made]
      /\ UNCHANGED <<apps, late, record, runs, explained>>
  BY RunFacts DEF wait_for_confirmation, RunRecord
<1>2. r \in Seq(Steps) /\ r # <<>> /\ t.do = Head(r).do /\ t.c = Head(r).c /\ t.do # "none"
  BY <1>1, RunFacts DEF IInv, TxOK
<1>3. /\ t \in TxRecord /\ t.c \in Contracts /\ t.app \in Nat /\ run.made \in [Contracts -> Nat]
      /\ t.do \in {"create", "fund", "init", "register", "hello"}
  BY <1>2, RunFacts DEF TxRecord
<1>4. /\ made \in [Contracts -> Nat]
      /\ \A c \in Contracts : made[c] = IF t.do = "create" /\ c = t.c THEN t.app ELSE run.made[c]
  BY <1>3
<1> HIDE DEF made
<1>5. /\ run' \in RunRecord /\ run'.rest = Tail(r) /\ run'.tx = NoTx /\ run'.asa = run.asa /\ run'.made = made
  BY <1>1, <1>2, <1>4, RunFacts, NoTxFacts, HeadTailProperties DEF RunRecord
<1>6. CASE t.do # "create"
  <2>1. made = run.made
    BY <1>6 DEF made
  <2>2. Step.do \notin {"create", "overwrite", "merge", "read_asset"} /\ run.rest # <<>>
    BY <1>2, <1>3, <1>6 DEF Step
  <2>3. QED
    BY <1>1, <1>5, <2>1, <2>2, PassingKeepsIInv
<1>7. CASE t.do = "create"
  <2>1. /\ t.app \in 1 .. Len(apps) /\ t.app \notin explained
        /\ apps[t.app].contract = t.c /\ apps[t.app].asa = 0 /\ apps[t.app].noted = t.noted
    BY <1>1, <1>3, <1>7 DEF IInv, TxOK, Confirmed
  <2>2. t.app # 0
    BY <2>1
  <2>3. IsCreate(Head(r), t.c) /\ ~IsWrite(Head(r)) /\ Head(r).do # "read_asset"
        /\ \A c \in Contracts : IsCreate(Head(r), c) <=> c = t.c
    BY <1>2, <1>7 DEF IsCreate, IsWrite
  <2>4. TypeOK' /\ ChainOK' /\ LateOK' /\ RecordOK'
    BY <1>1, <1>5 DEF IInv, TypeOK, ChainOK, LateOK, RecordOK
  <2>5. TxOK'
    BY <1>5, NoTxFacts DEF TxOK, Confirmed
  <2>6. MadeOK'
    BY <1>1, <1>4, <1>5, <2>1 DEF IInv, MadeOK
  <2>7. CASE Plain(r)
    <3>1. Plain(Tail(r)) /\ ~Recording(Tail(r)) /\ Head(r).call = "bare"
      BY <1>2, <1>7, <2>7, PlainTail, TailFacts, NotBoth DEF PlainStep
    <3>2. apps[t.app].noted
      <4>1. t.noted
        BY <1>1, <1>2, <1>7, <3>1 DEF IInv, TxOK, Step
      <4>2. QED
        BY <2>1, <4>1
    <3>3. \A c \in Contracts : run.made[c] # 0 => run.made[c] \in explained \/ apps[run.made[c]].noted
      BY <2>7 DEF IInv, PlainOK
    <3>4. PlainOK'
      BY <1>1, <1>4, <1>5, <3>2, <3>3 DEF PlainOK
    <3>5. RecordingOK'
      BY <1>5, <3>1 DEF RecordingOK
    <3>6. NoneMadeInVain'
      <4>1. SUFFICES ASSUME NEW a \in DOMAIN apps
                     PROVE  a \in explained \/ apps[a].noted \/ \E c \in Contracts : a = made[c]
        BY <1>1, <1>5 DEF NoneMadeInVain
      <4>2. a # 0
        BY DEF IInv, TypeOK
      <4>3. a \in explained \/ apps[a].noted \/ a = t.app \/ \E c \in Contracts : a = run.made[c]
        BY DEF IInv, NoneMadeInVain
      <4>4. QED
        BY <3>2, <3>3, <4>2, <4>3
    <3>7. QED
      BY <1>5, <2>4, <2>5, <2>6, <3>1, <3>4, <3>5, <3>6 DEF IInv
  <2>8. CASE Recording(r)
    <3>1. /\ Recording(Tail(r)) /\ ~Plain(Tail(r)) /\ Tail(r)[Len(Tail(r))] = r[Len(r)]
          /\ WillRead(Tail(r)) <=> WillRead(r)
          /\ Deploying(Head(r), r[Len(r)])
      BY <1>2, <2>3, <2>8, RecordingTail, TailFacts, NotBoth
    <3>2. \A c \in Contracts : Creates(Tail(r), c) <=> Creates(r, c) /\ c # t.c
      BY <1>2, <2>3, <2>8, RecordingTail
    <3>3. Creates(r, t.c) /\ t.c \in Covers(r[Len(r)])
      <4>1. 1 \in 1 .. Len(r) /\ r[1] = Head(r)
        BY <1>2, TailFacts
      <4>2. QED
        BY <2>3, <3>1, <4>1 DEF Creates, Deploying, IsCreate
    <3>4. \A c \in Contracts :
            /\ run.made[c] # 0 <=> c \in Covers(r[Len(r)]) /\ ~Creates(r, c)
            /\ run.made[c] # 0 => run.made[c] \notin explained
      BY <2>8 DEF IInv, RecordingOK
    <3>5. run.made[t.c] = 0
      BY <1>3, <3>3, <3>4
    <3>6. RecordingOK'
      <4>1. \A c \in Contracts :
              /\ made[c] # 0 <=> c \in Covers(Tail(r)[Len(Tail(r))]) /\ ~Creates(Tail(r), c)
              /\ made[c] # 0 => made[c] \notin explained
        BY <1>4, <1>7, <2>1, <2>2, <3>1, <3>2, <3>3, <3>4
      <4>2. Creates(Tail(r), CM) => run.asa = 0
        BY <2>8, <3>2, Names DEF IInv, RecordingOK
      <4>3. ~WillRead(Tail(r)) /\ made[CM] # 0 => run.asa = apps[made[CM]].asa
        <5>1. CASE t.c = CM
          <6>1. made[CM] = t.app
            BY <1>4, <1>7, <5>1, Names
          <6>2. run.asa = 0
            BY <2>8, <3>3, <5>1 DEF IInv, RecordingOK
          <6>3. QED
            BY <2>1, <6>1, <6>2
        <5>2. CASE t.c # CM
          <6>1. made[CM] = run.made[CM]
            BY <1>4, <5>2, Names
          <6>2. QED
            BY <2>8, <3>1, <6>1 DEF IInv, RecordingOK
        <5>3. QED
          BY <5>1, <5>2
      <4>4. /\ run'.rest = Tail(r) /\ run'.made = made /\ run'.asa = run.asa
            /\ apps' = apps /\ explained' = explained
        BY <1>1, <1>5
      <4> HIDE DEF r
      <4>5. QED
        BY <4>1, <4>2, <4>3, <4>4, Zenon DEF RecordingOK
    <3>7. PlainOK'
      BY <1>5, <3>1 DEF PlainOK
    <3>8. NoneMadeInVain'
      <4>1. SUFFICES ASSUME NEW a \in DOMAIN apps
                     PROVE  a \in explained \/ apps[a].noted \/ \E c \in Contracts : a = made[c]
        BY <1>1, <1>5 DEF NoneMadeInVain
      <4>2. a # 0
        BY DEF IInv, TypeOK
      <4>3. a \in explained \/ apps[a].noted \/ a = t.app \/ \E c \in Contracts : a = run.made[c]
        BY DEF IInv, NoneMadeInVain
      <4>4. t.app = made[t.c]
        BY <1>3, <1>4, <1>7
      <4>5. \A c \in Contracts : run.made[c] # 0 => made[c] = run.made[c]
        BY <1>4, <3>5
      <4>6. QED
        BY <1>3, <4>2, <4>3, <4>4, <4>5
    <3>9. QED
      BY <1>5, <2>4, <2>5, <2>6, <3>1, <3>6, <3>7, <3>8 DEF IInv
  <2>9. QED
    BY <2>7, <2>8 DEF IInv
<1>8. QED
  BY <1>6, <1>7

\* A plain script takes an application over that is in the record or noted.
LEMMA TakingOverKeepsIInv ==
  ASSUME IInv, Plain(run.rest), run.tx = NoTx,
         NEW c \in Contracts, NEW a \in 1 .. Len(apps), apps[a].contract = c,
         a \in explained \/ apps[a].noted,
         run' \in RunRecord, run'.tx = NoTx, Plain(run'.rest),
         run'.made = [run.made EXCEPT ![c] = a],
         UNCHANGED <<apps, late, record, runs, explained>>
  PROVE  IInv'
<1>1. \A d \in Contracts : run'.made[d] = IF d = c THEN a ELSE run.made[d]
  BY RunFacts
<1>2. TypeOK' /\ ChainOK' /\ LateOK' /\ RecordOK'
  BY DEF IInv, TypeOK, ChainOK, LateOK, RecordOK
<1>3. TxOK'
  BY NoTxFacts DEF TxOK, Confirmed
<1>4. MadeOK'
  BY <1>1 DEF IInv, MadeOK
<1>5. \A d \in Contracts : run.made[d] # 0 => run.made[d] \in explained \/ apps[run.made[d]].noted
  BY DEF IInv, PlainOK
<1>6. PlainOK'
  BY <1>1, <1>5 DEF PlainOK
<1>7. RecordingOK'
  <2>1. ~Recording(run'.rest)
    BY NotBoth DEF RunRecord
  <2>2. QED
    BY <2>1 DEF RecordingOK
<1>8. NoneMadeInVain'
  <2>1. SUFFICES ASSUME NEW b \in DOMAIN apps PROVE b \in explained \/ apps[b].noted
    BY DEF NoneMadeInVain
  <2>2. b # 0
    BY DEF IInv, TypeOK
  <2>3. b \in explained \/ apps[b].noted \/ \E d \in Contracts : b = run.made[d]
    BY NoTxFacts DEF IInv, NoneMadeInVain
  <2>4. QED
    BY <1>5, <2>2, <2>3
<1>9. QED
  BY <1>2, <1>3, <1>4, <1>6, <1>7, <1>8 DEF IInv

LEMMA LookupKeepsIInv == ASSUME IInv, Lookup PROVE IInv'
<1> DEFINE r == run.rest
           found == {a \in DOMAIN apps : apps[a].noted /\ apps[a].contract = Step.c}
<1>1. /\ r # <<>> /\ run.tx = NoTx /\ Step.do = "lookup"
      /\ UNCHANGED <<apps, late, record, runs, explained>>
  BY DEF Lookup, Ready
<1>2. Step \in Steps /\ Step.c \in Contracts /\ Step = Head(r) /\ r \in Seq(Steps)
  BY <1>1, RunFacts, StepTypes
<1>3. CASE found = {} /\ run' = [run EXCEPT !.rest = Tail(@)]
  BY <1>1, <1>3, PassingFacts, PassingKeepsIInv DEF Goes
<1>4. ASSUME NEW a \in found, run' = [run EXCEPT !.made[Step.c] = a, !.rest = SubSeq(@, 4, Len(@))]
      PROVE  IInv'
  <2>1. a \in 1 .. Len(apps) /\ apps[a].noted /\ apps[a].contract = Step.c
    BY <1>4 DEF IInv, TypeOK
  <2>2. apps[a].contract = HELLO
    BY <2>1 DEF IInv, ChainOK
  <2>3. Plain(r)
    <3>1. Recording(r) => Deploying(Head(r), r[Len(r)])
      BY <1>1, <1>2, RecordingTail DEF IsWrite
    <3>2. QED
      BY <1>1, <1>2, <2>1, <2>2, <3>1, Names DEF IInv, Deploying
  <2>4. SubSeq(r, 4, Len(r)) \in Seq(Steps) /\ Plain(SubSeq(r, 4, Len(r)))
    <3>1. Len(r) \in Nat /\ \A i \in 4 .. Len(r) : r[i] \in Steps /\ PlainStep(r[i])
      BY <1>2, <2>3 DEF Plain
    <3>2. /\ SubSeq(r, 4, Len(r)) \in Seq(Steps)
          /\ Len(SubSeq(r, 4, Len(r))) = IF 4 <= Len(r) THEN Len(r) - 4 + 1 ELSE 0
          /\ \A i \in 1 .. Len(r) - 4 + 1 : SubSeq(r, 4, Len(r))[i] = r[4 + i - 1]
      BY <3>1, SubSeqProperties
    <3>3. QED
      BY <3>1, <3>2 DEF Plain
  <2>5. /\ run' \in RunRecord /\ run'.tx = NoTx /\ run'.rest = SubSeq(r, 4, Len(r))
        /\ run'.made = [run.made EXCEPT ![Step.c] = a]
    <3>1. a \in Nat
      BY <2>1
    <3>2. QED
      BY <1>1, <1>2, <1>4, <2>4, <3>1, RunFacts DEF RunRecord
  <2>6. QED
    BY <1>1, <1>2, <2>1, <2>3, <2>4, <2>5, TakingOverKeepsIInv
<1>5. QED
  BY <1>3, <1>4 DEF Lookup

LEMMA ReadRecordKeepsIInv == ASSUME IInv, ReadRecord PROVE IInv'
<1> DEFINE r == run.rest
           a == record.of[NR].id
<1>1. /\ r # <<>> /\ run.tx = NoTx /\ Step.do = "read_record" /\ record.file = "good"
      /\ Goes([run EXCEPT !.made[NR] = a, !.before = apps[a].total])
      /\ UNCHANGED <<apps, late, record, runs, explained>>
  BY DEF ReadRecord, Ready, Blocked
<1>2. /\ a \in 1 .. Len(apps) /\ a \in explained /\ apps[a].contract = NR /\ NR \in Contracts
      /\ apps[a].total \in Int
  <2>1. a \in 1 .. Len(apps) /\ a \in explained /\ apps[a].contract = NR /\ NR \in Contracts
    BY <1>1, Names DEF IInv, RecordOK
  <2>2. apps[a] \in AppRecord
    BY <2>1 DEF IInv, TypeOK
  <2>3. QED
    BY <2>1, <2>2 DEF AppRecord
<1> HIDE DEF a
<1>3. r \in Seq(Steps) /\ Step = Head(r)
  BY <1>1, RunFacts
<1>4. Plain(r)
  <2>1. Recording(r) => Deploying(Head(r), r[Len(r)])
    BY <1>1, <1>3, RecordingTail DEF IsWrite
  <2>2. QED
    BY <1>1, <1>3, <2>1 DEF IInv, Deploying
<1>5. Plain(Tail(r)) /\ Tail(r) \in Seq(Steps)
  BY <1>1, <1>3, <1>4, PlainTail, TailFacts
<1>6. /\ run' \in RunRecord /\ run'.tx = NoTx /\ run'.rest = Tail(r)
      /\ run'.made = [run.made EXCEPT ![NR] = a]
  <2> DEFINE n == apps[a].total
             made == [run.made EXCEPT ![NR] = a]
  <2>1. run' = [run EXCEPT !.made = made, !.before = n, !.rest = Tail(r)]
    BY <1>1, RunFacts DEF Goes, RunRecord
  <2>2. made \in [Contracts -> Nat] /\ n \in Int
    BY <1>2, RunFacts
  <2> HIDE DEF n, made
  <2>3. run' \in RunRecord /\ run'.tx = run.tx /\ run'.rest = Tail(r) /\ run'.made = made
    BY <1>5, <2>1, <2>2, RunFacts DEF RunRecord
  <2>4. QED
    BY <1>1, <2>3 DEF made
<1>7. QED
  BY <1>1, <1>2, <1>4, <1>5, <1>6, TakingOverKeepsIInv

LEMMA NextContractKeepsIInv == ASSUME IInv, NextContract PROVE IInv'
<1> DEFINE r == run.rest
<1>1. /\ r # <<>> /\ run.tx = NoTx /\ Step.do = "each"
      /\ UNCHANGED <<apps, late, record, runs, explained>>
  BY DEF NextContract, Ready
<1>2. r \in Seq(Steps) /\ Step = Head(r) /\ Step.action \in Actions /\ run.todo \subseteq Contracts
  BY <1>1, RunFacts, StepTypes DEF RunRecord
<1>3. CASE Goes(run)
  BY <1>1, <1>3, PassingFacts, PassingKeepsIInv
<1>4. ASSUME NEW c \in run.todo,
             run' = [run EXCEPT !.todo = @ \ {c}, !.rest = PerContract(Step.action, c) \o @]
      PROVE  IInv'
  <2> DEFINE q == PerContract(Step.action, c) \o r
  <2>1. Plain(r)
    <3>1. Recording(r) => Deploying(Head(r), r[Len(r)])
      BY <1>1, <1>2, RecordingTail DEF IsWrite
    <3>2. QED
      BY <1>1, <1>2, <3>1 DEF IInv, Deploying
  <2>2. IsPlain(q)
    <3>1. IsPlain(PerContract(Step.action, c))
      BY <1>2, PerContractIsPlain
    <3>2. QED
      BY <1>2, <2>1, <3>1, PlainJoin DEF IsPlain
  <2> HIDE DEF q
  <2>3. /\ run' \in RunRecord /\ run'.tx = NoTx /\ run'.rest = q /\ run'.made = run.made
    <3>1. run' = [run EXCEPT !.todo = run.todo \ {c}, !.rest = q]
      BY <1>4, RunFacts DEF RunRecord, q
    <3>2. q \in Seq(Steps) /\ run.todo \ {c} \in SUBSET Contracts
      BY <1>2, <2>2 DEF IsPlain
    <3>3. QED
      BY <1>1, <3>1, <3>2, RunFacts DEF RunRecord
  <2>4. TypeOK' /\ ChainOK' /\ LateOK' /\ RecordOK' /\ MadeOK'
    BY <1>1, <2>3 DEF IInv, TypeOK, ChainOK, LateOK, RecordOK, MadeOK
  <2>5. TxOK'
    BY <2>3, NoTxFacts DEF TxOK, Confirmed
  <2>6. Plain(run'.rest) /\ PlainOK'
    BY <1>1, <2>1, <2>2, <2>3 DEF IInv, PlainOK, IsPlain
  <2>7. RecordingOK'
    BY <2>2, <2>3, NotBoth DEF RecordingOK, IsPlain
  <2>8. NoneMadeInVain'
    BY <1>1, <2>3 DEF IInv, NoneMadeInVain
  <2>9. QED
    BY <2>4, <2>5, <2>6, <2>7, <2>8 DEF IInv
<1>5. QED
  BY <1>3, <1>4 DEF NextContract

LEMMA ReadsAssetKeepsIInv == ASSUME IInv, ReadsAsset PROVE IInv'
<1> DEFINE r == run.rest
           m == run.made[CM]
<1>1. /\ r # <<>> /\ run.tx = NoTx /\ Step.do = "read_asset"
      /\ Goes([run EXCEPT !.asa = apps[m].asa])
      /\ UNCHANGED <<apps, late, record, runs, explained>>
  BY DEF ReadsAsset, Ready
<1>2. r \in Seq(Steps) /\ Step = Head(r) /\ ~IsWrite(Head(r)) /\ Head(r).do = "read_asset"
  BY <1>1, RunFacts DEF IsWrite
<1>3. Recording(r)
  BY <1>1, <1>2, PlainTail DEF IInv, PlainStep
<1>4. /\ Recording(Tail(r)) /\ Tail(r)[Len(Tail(r))] = r[Len(r)] /\ ~WillRead(Tail(r)) /\ ~Creates(r, CM)
      /\ \A c \in Contracts : Creates(Tail(r), c) <=> Creates(r, c)
      /\ Tail(r) \in Seq(Steps) /\ ~Plain(Tail(r))
  BY <1>1, <1>2, <1>3, RecordingTail, TailFacts, NotBoth DEF IsCreate
<1>5. CM \in Covers(r[Len(r)])
  <2>1. Len(r) \in 1 .. Len(r) /\ r[Len(r)] \in Steps /\ IsWrite(r[Len(r)])
    BY <1>1, <1>2, <1>3, TailFacts DEF Recording
  <2>2. r[Len(r)].do = "overwrite" => r[Len(r)].fixed \subseteq {NR, ROOTS, BOX}
    BY <2>1, StepTypes
  <2>3. QED
    BY <2>1, <2>2, Names DEF Covers, IsWrite
<1>6. m # 0 /\ m \in 1 .. Len(apps) /\ apps[m].asa \in Nat
  <2>1. m # 0
    BY <1>3, <1>4, <1>5, Names DEF IInv, RecordingOK
  <2>2. m \in 1 .. Len(apps)
    BY <2>1, Names DEF IInv, MadeOK
  <2>3. apps[m] \in AppRecord
    BY <2>2 DEF IInv, TypeOK
  <2>4. QED
    BY <2>1, <2>2, <2>3 DEF AppRecord
<1>7. /\ run' \in RunRecord /\ run'.rest = Tail(r) /\ run'.tx = NoTx /\ run'.made = run.made
      /\ run'.asa = apps[m].asa
  BY <1>1, <1>4, <1>6, RunFacts DEF Goes, RunRecord
<1>8. TypeOK' /\ ChainOK' /\ LateOK' /\ RecordOK' /\ MadeOK'
  BY <1>1, <1>7 DEF IInv, TypeOK, ChainOK, LateOK, RecordOK, MadeOK
<1>9. TxOK'
  BY <1>7, NoTxFacts DEF TxOK, Confirmed
<1>10. PlainOK'
  BY <1>4, <1>7 DEF PlainOK
<1>11. RecordingOK'
  <2>1. \A c \in Contracts :
          /\ run.made[c] # 0 <=> c \in Covers(Tail(r)[Len(Tail(r))]) /\ ~Creates(Tail(r), c)
          /\ run.made[c] # 0 => run.made[c] \notin explained
    BY <1>3, <1>4 DEF IInv, RecordingOK
  <2>2. ~Creates(Tail(r), CM)
    BY <1>4, Names
  <2>3. QED
    BY <1>1, <1>7, <2>1, <2>2 DEF RecordingOK
<1>12. NoneMadeInVain'
  BY <1>1, <1>7 DEF IInv, NoneMadeInVain
<1>13. QED
  BY <1>4, <1>7, <1>8, <1>9, <1>10, <1>11, <1>12 DEF IInv

LEMMA WriteKeepsIInv == ASSUME IInv, Write PROVE IInv'
<1> DEFINE r == run.rest
           of == record'.of
<1>1. /\ r # <<>> /\ run.tx = NoTx /\ IsWrite(Step) /\ ~Blocked(Step)
      /\ record' = [file |-> "good", of |-> IF Step.do = "merge" THEN Merged ELSE Overwritten(Step.fixed)]
      /\ explained' = explained \cup {of[c].id : c \in Recorded}
      /\ Goes(run)
      /\ UNCHANGED <<apps, late, runs>>
  BY DEF Write, Ready, IsWrite
<1>2. r \in Seq(Steps) /\ Step = Head(r) /\ Step \in Steps /\ IsWrite(Head(r))
  BY <1>1, RunFacts
<1>3. /\ run' \in RunRecord /\ run'.rest = Tail(r) /\ run'.tx = NoTx
      /\ run'.made = run.made /\ run'.asa = run.asa
  BY <1>1, PassingFacts
<1>4. Recording(r)
  BY <1>1, <1>2, PlainTail DEF IInv, PlainStep
<1>5. /\ Plain(Tail(r)) /\ Tail(r) \in Seq(Steps) /\ Step = r[Len(r)] /\ ~WillRead(r)
      /\ \A c \in Contracts : ~Creates(r, c)
  BY <1>1, <1>2, <1>4, WriteIsLast
<1>6. /\ \A c \in Contracts : run.made[c] # 0 <=> c \in Covers(Step)
      /\ \A c \in Contracts : run.made[c] # 0 => run.made[c] \notin explained
      /\ run.made[CM] # 0 => run.asa = apps[run.made[CM]].asa
  BY <1>4, <1>5 DEF IInv, RecordingOK
<1>7. \A c \in Contracts : run.made[c] # 0 => run.made[c] \in 1 .. Len(apps) /\ apps[run.made[c]].contract = c
  BY DEF IInv, MadeOK
<1>8. CM \in Covers(Step) /\ Covers(Step) \subseteq Recorded
  BY <1>1, <1>2, StepTypes, Names DEF Covers, IsWrite
<1>9. /\ record' \in RecordFile /\ record'.file = "good" /\ record'.of[CM].asa = run.asa
      /\ \A c \in Covers(Step) : record'.of[c].id = run.made[c]
      /\ \A c \in Recorded \ Covers(Step) :
           record'.of[c].id = HardCoded[c] \/ (record.file = "good" /\ record'.of[c].id = record.of[c].id)
  <2>1. ASSUME Step.do = "merge"
        PROVE  /\ record.file = "good" /\ record' \in RecordFile /\ record'.file = "good"
               /\ record'.of[CM].id = run.made[CM] /\ record'.of[CM].asa = run.asa
               /\ \A c \in Recorded \ {CM} : record'.of[c].id = record.of[c].id
    <3>1. record.file = "good"
      BY <1>1, <2>1 DEF Blocked, IInv, TypeOK, RecordFile
    <3>2. record' = [file |-> "good", of |-> Merged]
      BY <1>1, <2>1
    <3>3. Merged \in [Recorded -> [id : Nat, address : BOOLEAN, asa : Nat]]
      <4> DEFINE entry == [id |-> run.made[CM], address |-> TRUE, asa |-> run.asa]
      <4>1. run.made[CM] \in Nat /\ run.asa \in Nat /\ TRUE \in BOOLEAN
        BY RunFacts, Names
      <4>2. entry \in [id : Nat, address : BOOLEAN, asa : Nat]
        BY <4>1, Zenon
      <4> HIDE DEF entry
      <4>3. Merged = [record.of EXCEPT ![CM] = entry]
        BY Zenon DEF Merged, entry
      <4>4. record.of \in [Recorded -> [id : Nat, address : BOOLEAN, asa : Nat]]
        BY DEF IInv, TypeOK, RecordFile
      <4> DEFINE S == [id : Nat, address : BOOLEAN, asa : Nat]
      <4> HIDE DEF S
      <4>5. record.of \in [Recorded -> S] /\ entry \in S
        BY <4>2, <4>4, Zenon DEF S
      <4>6. Merged \in [Recorded -> S]
        BY <4>3, <4>5
      <4>7. QED
        BY <4>6, Zenon DEF S
    <3>4. /\ Merged[CM].id = run.made[CM] /\ Merged[CM].asa = run.asa
          /\ \A c \in Recorded \ {CM} : Merged[c].id = record.of[c].id
      BY Names DEF Merged, IInv, TypeOK, RecordFile
    <3>5. QED
      BY <3>1, <3>2, <3>3, <3>4 DEF RecordFile
  <2>2. ASSUME Step.do # "merge"
        PROVE  /\ record' \in RecordFile /\ record'.file = "good" /\ record'.of[CM].asa = run.asa
               /\ \A c \in Covers(Step) : record'.of[c].id = run.made[c]
               /\ \A c \in Recorded \ Covers(Step) : record'.of[c].id = HardCoded[c]
    <3>1. record' = [file |-> "good", of |-> Overwritten(Step.fixed)] /\ Covers(Step) = Recorded \ Step.fixed
      BY <1>1, <2>2, Zenon DEF Covers
    <3>2. CM \notin Step.fixed /\ Step.fixed \subseteq Recorded
      BY <1>1, <1>2, <1>8, <3>1, <2>2, StepTypes, Names DEF IsWrite
    <3>3. \A c \in Recorded : HardCoded[c] \in Nat /\ run.made[c] \in Nat
      BY RunFacts, Names DEF HardCoded
    <3>4. ASSUME NEW c \in Recorded
          PROVE  /\ Overwritten(Step.fixed)[c] \in [id : Nat, address : BOOLEAN, asa : Nat]
                 /\ c \in Step.fixed => Overwritten(Step.fixed)[c].id = HardCoded[c]
                 /\ c \notin Step.fixed => Overwritten(Step.fixed)[c].id = run.made[c]
                 /\ c \notin Step.fixed /\ c = CM => Overwritten(Step.fixed)[c].asa = run.asa
      <4>1. CASE c \in Step.fixed
        <5>1. Overwritten(Step.fixed)[c] = [id |-> HardCoded[c], address |-> FALSE, asa |-> 0]
          BY <4>1 DEF Overwritten, NoApp
        <5>2. HardCoded[c] \in Nat /\ FALSE \in BOOLEAN /\ 0 \in Nat
          BY <3>3
        <5>3. [id |-> HardCoded[c], address |-> FALSE, asa |-> 0] \in [id : Nat, address : BOOLEAN, asa : Nat]
          BY <5>2, Zenon
        <5>4. QED
          BY <4>1, <5>1, <5>3
      <4>2. CASE c \notin Step.fixed
        <5> DEFINE n == IF c = CM THEN run.asa ELSE 0
        <5>1. n \in Nat /\ run.made[c] \in Nat /\ TRUE \in BOOLEAN
          BY <3>3, RunFacts
        <5>2. c = CM => n = run.asa
          OBVIOUS
        <5>3. Overwritten(Step.fixed)[c] = [id |-> run.made[c], address |-> TRUE, asa |-> n]
          BY <4>2, Zenon DEF Overwritten
        <5> HIDE DEF n
        <5>4. [id |-> run.made[c], address |-> TRUE, asa |-> n] \in [id : Nat, address : BOOLEAN, asa : Nat]
          BY <5>1, Zenon
        <5>5. QED
          BY <4>2, <5>2, <5>3, <5>4
      <4>3. QED
        BY <4>1, <4>2
    <3>5. Overwritten(Step.fixed) \in [Recorded -> [id : Nat, address : BOOLEAN, asa : Nat]]
      <4>1. Overwritten(Step.fixed) = [c \in Recorded |-> Overwritten(Step.fixed)[c]]
        BY DEF Overwritten
      <4>2. QED
        BY <3>4, <4>1
    <3>6. CM \in Recorded
      BY Names
    <3>7. QED
      BY <3>1, <3>2, <3>4, <3>5, <3>6 DEF RecordFile
  <2>3. ASSUME Step.do = "merge"
        PROVE  /\ \A c \in Covers(Step) : record'.of[c].id = run.made[c]
               /\ \A c \in Recorded \ Covers(Step) : record'.of[c].id = record.of[c].id
    <3>1. Covers(Step) = {CM}
      BY <2>3, Zenon DEF Covers
    <3>2. QED
      BY <2>1, <2>3, <3>1
  <2>4. CASE Step.do = "merge"
    BY <2>1, <2>3, <2>4
  <2>5. CASE Step.do # "merge"
    BY <2>2, <2>5
  <2>6. QED
    BY <2>4, <2>5
<1>10. TypeOK' /\ explained \subseteq explained' /\ \A c \in Recorded : of[c].id \in explained'
  <2>1. \A c \in Recorded : of[c].id \in 0 .. Len(apps)
    <3>1. SUFFICES ASSUME NEW c \in Recorded PROVE of[c].id \in 0 .. Len(apps)
      OBVIOUS
    <3>2. CASE c \in Covers(Step)
      BY <1>6, <1>7, <1>9, <3>2, Names
    <3>3. CASE c \notin Covers(Step)
      BY <1>9, <3>3 DEF IInv, ChainOK, RecordOK
    <3>4. QED
      BY <3>2, <3>3
  <2>2. explained' \subseteq 0 .. Len(apps)
    BY <1>1, <2>1 DEF IInv, TypeOK
  <2>3. QED
    BY <1>1, <1>3, <1>9, <2>2 DEF IInv, TypeOK
<1>11. ChainOK' /\ MadeOK'
  BY <1>1, <1>3 DEF IInv, ChainOK, MadeOK
<1>12. TxOK'
  BY <1>3, NoTxFacts DEF TxOK, Confirmed
<1>13. of[CM].id = run.made[CM] /\ run.made[CM] # 0 /\ run.made[CM] \notin explained
  BY <1>6, <1>8, <1>9, Names
<1>14. LateOK'
  BY <1>1, <1>10, <1>13 DEF IInv, LateOK
<1>15. PlainOK'
  BY <1>3, <1>6, <1>8, <1>9, <1>10 DEF PlainOK
<1>16. Plain(run'.rest) /\ RecordingOK'
  BY <1>3, <1>5, NotBoth DEF RecordingOK
<1>17. RecordOK'
  <2>1. SUFFICES ASSUME NEW c \in Recorded
                 PROVE  /\ of[c].id \in 1 .. Len(apps) /\ of[c].id \in explained'
                        /\ apps[of[c].id].contract = c
                        /\ c = CM => of[c].asa = apps[of[c].id].asa
    BY <1>1 DEF RecordOK
  <2>2. of[c].id \in 1 .. Len(apps) /\ apps[of[c].id].contract = c
    <3>1. CASE c \in Covers(Step)
      BY <1>6, <1>7, <1>9, <3>1, Names
    <3>2. CASE c \notin Covers(Step)
      BY <1>9, <3>2 DEF IInv, ChainOK, RecordOK
    <3>3. QED
      BY <3>1, <3>2
  <2>3. c = CM => of[c].asa = apps[of[c].id].asa
    BY <1>6, <1>9, <1>13
  <2>4. QED
    BY <1>10, <2>2, <2>3
<1>18. NoneMadeInVain'
  BY <1>1, <1>3, <1>10, NoTxFacts DEF IInv, NoneMadeInVain
<1>19. QED
  BY <1>10, <1>11, <1>12, <1>14, <1>15, <1>16, <1>17, <1>18 DEF IInv

-----------------------------------------------------------------------------
(* All steps. *)

\* What a run does to die, whatever it dies of.
LEMMA DeadlySteps ==
  ASSUME IInv, Refused \/ Raises \/ Crash \/ TimeoutError \/ WriteTorn
  PROVE  IInv'
<1>1. Dies /\ apps' = apps /\ runs' = runs
  BY DEF Refused, Raises, Crash, TimeoutError, WriteTorn
<1>2. record' = record \/ record' = [NoRecord EXCEPT !.file = "torn"]
  BY DEF Refused, Raises, Crash, TimeoutError, WriteTorn
<1>3. QED
  BY <1>1, <1>2, DyingKeepsIInv

\* Steps that touch files or compare, and pass or die.
LEMMA FileSteps ==
  ASSUME IInv,
         Copy \/ CompileNested \/ Clear \/ Compile \/ CheckFiles \/ verify_proof_offchain \/ CompareCount
  PROVE  IInv'
<1>1. /\ run.rest # <<>> /\ run.tx = NoTx
      /\ Step.do \in {"copy", "compile_nested", "clear", "remove", "compile", "spec", "import",
                      "verify_proof", "count"}
      /\ UNCHANGED <<apps, record, runs>>
  BY DEF Copy, CompileNested, Clear, Compile, CheckFiles, verify_proof_offchain, CompareCount, Ready
<1>2. (Goes(run) /\ UNCHANGED <<late, explained>>) \/ Dies
  BY DEF Copy, CompileNested, Clear, Compile, CheckFiles, verify_proof_offchain, CompareCount
<1>3. CASE Goes(run) /\ UNCHANGED <<late, explained>>
  BY <1>1, <1>3, PassingFacts, PassingKeepsIInv
<1>4. CASE Dies
  BY <1>1, <1>4, DyingKeepsIInv
<1>5. QED
  BY <1>2, <1>3, <1>4

LEMMA NextKeepsIInv == IInv /\ [Next]_vars => IInv'
<1> SUFFICES ASSUME IInv, [Next]_vars PROVE IInv'
  OBVIOUS
<1>1. ASSUME NEW s \in DOMAIN Program, Start(s) PROVE IInv'
  BY <1>1, StartKeepsIInv
<1>2. ASSUME RunStep PROVE IInv'
  <2>1. CASE Finish
    BY <2>1, FinishKeepsIInv
  <2>2. CASE Send
    BY <2>2, SendKeepsIInv
  <2>3. CASE wait_for_confirmation
    BY <2>3, WaitKeepsIInv
  <2>4. CASE Lookup
    BY <2>4, LookupKeepsIInv
  <2>5. CASE NextContract
    BY <2>5, NextContractKeepsIInv
  <2>6. CASE ReadsAsset
    BY <2>6, ReadsAssetKeepsIInv
  <2>7. CASE Write
    BY <2>7, WriteKeepsIInv
  <2>8. CASE ReadRecord
    BY <2>8, ReadRecordKeepsIInv
  <2>9. CASE Refused \/ Raises \/ TimeoutError
    BY <2>9, DeadlySteps
  <2>10. CASE Copy \/ CompileNested \/ Clear \/ Compile \/ CheckFiles \/ verify_proof_offchain \/ CompareCount
    BY <2>10, FileSteps
  <2>11. QED
    BY <1>2, <2>1, <2>2, <2>3, <2>4, <2>5, <2>6, <2>7, <2>8, <2>9, <2>10 DEF RunStep
<1>3. CASE Crash \/ WriteTorn
  BY <1>3, DeadlySteps
<1>4. CASE Commit
  BY <1>4, CommitKeepsIInv
<1>5. CASE OthersWrite
  BY <1>5, OthersKeepIInv
<1>6. ASSUME NEW t \in late, LateCommit(t) \/ LateDrop(t) PROVE IInv'
  BY <1>6, LateCommitKeepsIInv, LateDropKeepsIInv
<1>7. CASE UNCHANGED vars
  <2>1. UNCHANGED <<apps, late, record, run, runs, explained>>
    BY <1>7 DEF vars
  <2>2. TypeOK' /\ ChainOK' /\ TxOK' /\ LateOK' /\ MadeOK'
    BY <2>1 DEF IInv, TypeOK, ChainOK, TxOK, Confirmed, Step, LateOK, MadeOK
  <2>3. (Plain(run'.rest) \/ Recording(run'.rest)) /\ PlainOK' /\ RecordingOK' /\ RecordOK' /\ NoneMadeInVain'
    BY <2>1 DEF IInv, PlainOK, RecordingOK, RecordOK, NoneMadeInVain
  <2>4. QED
    BY <2>2, <2>3 DEF IInv
<1>8. QED
  BY <1>1, <1>2, <1>3, <1>4, <1>5, <1>6, <1>7 DEF Next

LEMMA IInvAlways == Spec => []IInv
BY InitEstablishesIInv, NextKeepsIInv, PTL DEF Spec

\* The chain, the record and the running script have their types throughout;
\* what is left of a script is always a sequence of the steps above.
THEOREM DeploymentTypes == Spec => []TypeOK
<1>1. IInv => TypeOK
  BY DEF IInv
<1>2. QED
  BY <1>1, IInvAlways, PTL

\* Whatever script writes the record and whatever dies on the way, every id in
\* it is an application of that contract, with the asset of that very manager.
THEOREM RecordIsTrue == Spec => []RecordNamesApps
<1>1. IInv => RecordNamesApps
  BY DEF IInv, TypeOK, RecordOK, RecordNamesApps
<1>2. QED
  BY <1>1, IInvAlways, PTL

\* No application is lost without a script having died over it: the rest is in
\* the record, in the hands of the running script or noted on the chain.
THEOREM NothingLost == Spec => []NoneMadeInVain
<1>1. IInv => NoneMadeInVain
  BY DEF IInv
<1>2. QED
  BY <1>1, IInvAlways, PTL

\* Scripts that deploy one contract keep the three others in the record.
THEOREM RecordNeverShrinks == Spec => RecordStaysComplete
<1>1. IInv' => (record'.file = "good" => \A c \in Recorded : record'.of[c].id # 0)
  BY DEF IInv, RecordOK
<1>2. IInv' => [record.file = "good" /\ record'.file = "good" =>
                  \A c \in Recorded : record.of[c].id # 0 => record'.of[c].id # 0]_vars
  BY <1>1
<1>3. QED
  BY <1>2, IInvAlways, PTL DEF RecordStaysComplete

=============================================================================
