----------------------------- MODULE ReleaseProofs -----------------------------
(***************************************************************************)
(* Theorems about the tools of a release, for any values of the constants.  *)
(* The modules of these tools carry the name of their part in Init, Next     *)
(* and Spec, so that all of them can be extended here (Init, Next and Spec   *)
(* are those of ReleaseRun); a theorem is about one specification.           *)
(***************************************************************************)
EXTENDS ReleaseRun, SymbolUpload, ReleaseSymbols, MacInventory, MacSymbols,
        SequenceTheorems, FiniteSetTheorems, TLAPS

(* A run is a record of its fields. *)
Fields == {"pc", "source", "number", "upload", "dist", "moved", "manifest", "uploaded",
           "attempt", "tip"}
Shaped(x) == x = [f \in Fields |-> x[f]]
RunsShaped == run = [r \in Runs |-> run[r]] /\ \A r \in Runs : Shaped(run[r])

(* A branch is a sequence of commits that carry a counter. *)
Counted(b) == (\E C : b \in Seq(C)) /\ \A i \in 1..Len(b) : b[i].counter \in Nat

(* What a run pushes onto is a branch, and nobody deletes the branch without *)
(* a rewrite.                                                               *)
CounterInv ==
    /\ RunsShaped
    /\ Counted(branch) /\ rewrites \in Nat
    /\ \A r \in Runs : run[r].number \in Nat
    /\ \A r \in Runs : At(r, "push") => Counted(run[r].tip) /\ run[r].tip # <<>>
    /\ rewrites = 0 => branch # <<>>
    /\ NumberIsConsumed

-----------------------------------------------------------------------------
LEMMA Pushed ==
    ASSUME NEW b, Counted(b), NEW c, c.counter \in Nat
    PROVE  /\ Counted(Append(b, c)) /\ Append(b, c) # <<>>
           /\ Last(Append(b, c)) = c
           /\ IsPrefix(b, Append(b, c))
<1> DEFINE a == Append(b, c)
<1>1. PICK C : b \in Seq(C)
  BY DEF Counted
<1>2. b \in Seq(C \cup {c}) /\ c \in C \cup {c} /\ Len(b) \in Nat
  BY <1>1, SeqDef
<1>3. /\ a \in Seq(C \cup {c}) /\ Len(a) = Len(b) + 1
      /\ \A i \in 1..Len(b) : a[i] = b[i]
      /\ a[Len(b) + 1] = c
  BY <1>2, AppendProperties
<1>4. Counted(a)
  <2>1. \A i \in 1..Len(a) : a[i].counter \in Nat
    BY <1>2, <1>3 DEF Counted
  <2>2. QED
    BY <1>3, <2>1 DEF Counted
<1>5. a # <<>> /\ Last(a) = c
  BY <1>2, <1>3 DEF Last
<1>6. IsPrefix(b, a)
  <2>1. Len(b) <= Len(a)
    BY <1>2, <1>3
  <2>2. SubSeq(b, 1, Len(b)) = SubSeq(a, 1, Len(b))
    BY <1>1, <1>2, <1>3
  <2>3. QED
    BY <2>1, <2>2 DEF IsPrefix
<1>7. QED
  BY <1>4, <1>5, <1>6

LEMMA LastCounted ==
    ASSUME NEW b, Counted(b), b # <<>>
    PROVE  Last(b).counter \in Nat
<1>1. PICK C : b \in Seq(C)
  BY DEF Counted
<1>2. Len(b) \in 1..Len(b)
  BY <1>1
<1>3. QED
  BY <1>2 DEF Counted, Last

(* Moving on keeps all but the place. *)
LEMMA GoKeeps ==
    ASSUME RunsShaped, NEW r \in Runs, NEW p, Go(r, p)
    PROVE  /\ RunsShaped'
           /\ \A q \in Runs : run'[q] = IF q = r THEN [run[r] EXCEPT !.pc = p] ELSE run[q]
           /\ run'[r].pc = p /\ run'[r].number = run[r].number /\ run'[r].tip = run[r].tip
           /\ run'[r].dist = run[r].dist /\ run'[r].moved = run[r].moved
           /\ run'[r].manifest = run[r].manifest /\ run'[r].uploaded = run[r].uploaded
<1>1. run' = [q \in Runs |-> IF q = r THEN [run[r] EXCEPT !.pc = p] ELSE run[q]]
  BY DEF Go, RunsShaped
<1>2. QED
  BY <1>1 DEF RunsShaped, Shaped, Fields

(* A step of one run changes no other. *)
LEMMA OnlyOne ==
    ASSUME RunsShaped, NEW r \in Runs, NEW x, Shaped(x), run' = [run EXCEPT ![r] = x]
    PROVE  /\ RunsShaped'
           /\ \A q \in Runs : run'[q] = IF q = r THEN x ELSE run[q]
<1>1. run' = [q \in Runs |-> IF q = r THEN x ELSE run[q]]
  BY DEF RunsShaped
<1>2. QED
  BY <1>1 DEF RunsShaped

-----------------------------------------------------------------------------
(* The steps that touch neither the branch nor what is pushed onto it. *)
Packaging(r) ==
    \/ Configure(r) \/ Compose(r) \/ Package(r) \/ Plan(r) \/ Rename(r) \/ RollBack(r)
    \/ Record(r) \/ Audit(r) \/ Verify(r) \/ Publish(r)
    \/ JobFails(r) \/ BumpFails(r) \/ Resume(r) \/ Damage(r)

Quiet(r) ==
    /\ branch' = branch /\ rewrites' = rewrites
    /\ RunsShaped' /\ \A q \in Runs \ {r} : run'[q] = run[q]
    /\ run'[r].number = run[r].number /\ run'[r].tip = run[r].tip
    /\ run'[r].pc \in {"push", "done"} => run'[r].pc = run[r].pc

LEMMA UpdatesAreQuiet ==
    ASSUME RunsShaped, NEW r \in Runs, NEW x, Shaped(x), run' = [run EXCEPT ![r] = x],
           x.number = run[r].number, x.tip = run[r].tip,
           x.pc \in {"push", "done"} => x.pc = run[r].pc,
           branch' = branch, rewrites' = rewrites
    PROVE  Quiet(r)
<1>1. RunsShaped' /\ \A q \in Runs : run'[q] = IF q = r THEN x ELSE run[q]
  BY OnlyOne
<1>2. QED
  BY <1>1 DEF Quiet

LEMMA MovesAreQuiet ==
    ASSUME RunsShaped, NEW r \in Runs, NEW p, p \notin {"push", "done"}, Go(r, p),
           branch' = branch, rewrites' = rewrites
    PROVE  Quiet(r)
BY GoKeeps DEF Quiet

LEMMA RefusalIsQuiet ==
    ASSUME RunsShaped, NEW r \in Runs, Refuse(r), branch' = branch, rewrites' = rewrites
    PROVE  Quiet(r)
<1> DEFINE x == [run[r] EXCEPT !.pc = "failed", !.manifest = NoManifest]
<1>1. run' = [run EXCEPT ![r] = x]
  BY DEF Refuse, RunsShaped
<1>2. Shaped(x) /\ x.number = run[r].number /\ x.tip = run[r].tip /\ x.pc = "failed"
  BY DEF RunsShaped, Shaped, Fields
<1>3. QED
  BY <1>1, <1>2, UpdatesAreQuiet

LEMMA PackagingIsQuiet ==
    ASSUME RunsShaped, NEW r \in Runs, Packaging(r)
    PROVE  Quiet(r)
<1>1. CASE Configure(r) \/ Compose(r) \/ JobFails(r) \/ BumpFails(r)
  BY <1>1, MovesAreQuiet DEF Configure, Compose, JobFails, BumpFails, bounds
<1>2. CASE Package(r)
  <2>1. PICK d : run' = [run EXCEPT ![r].pc = "normalize", ![r].dist = d]
    BY <1>2 DEF Package
  <2> DEFINE x == [run[r] EXCEPT !.pc = "normalize", !.dist = d]
  <2>2. run' = [run EXCEPT ![r] = x]
    BY <2>1 DEF RunsShaped
  <2>3. Shaped(x) /\ x.number = run[r].number /\ x.tip = run[r].tip /\ x.pc = "normalize"
    BY DEF RunsShaped, Shaped, Fields
  <2>4. QED
    BY <1>2, <2>2, <2>3, UpdatesAreQuiet DEF Package, bounds
<1>3. CASE Plan(r)
  <2> DEFINE p == IF DOMAIN run[r].dist = Targets THEN "rename" ELSE "failed"
             x == [run[r] EXCEPT !.manifest = NoManifest, !.moved = {}, !.pc = p]
  <2>1. run' = [run EXCEPT ![r] = x]
    BY <1>3 DEF Plan, RunsShaped
  <2>2. Shaped(x) /\ x.number = run[r].number /\ x.tip = run[r].tip /\ x.pc \in {"rename", "failed"}
    BY DEF RunsShaped, Shaped, Fields
  <2>3. QED
    BY <1>3, <2>1, <2>2, UpdatesAreQuiet DEF Plan, bounds
<1>4. CASE Rename(r)
  <2>1. PICK t \in DOMAIN run[r].dist :
            run' = [run EXCEPT ![r].dist[t].final = TRUE, ![r].moved = @ \cup {t}]
    BY <1>4 DEF Rename
  <2> DEFINE x == [run[r] EXCEPT !.dist[t].final = TRUE, !.moved = @ \cup {t}]
  <2>2. run' = [run EXCEPT ![r] = x]
    BY <2>1 DEF RunsShaped
  <2>3. Shaped(x) /\ x.number = run[r].number /\ x.tip = run[r].tip /\ x.pc = run[r].pc
    BY DEF RunsShaped, Shaped, Fields
  <2>4. QED
    BY <1>4, <2>2, <2>3, UpdatesAreQuiet DEF Rename, bounds
<1>5. CASE RollBack(r)
  <2>1. PICK d : run' = [run EXCEPT ![r].pc = "failed", ![r].moved = {}, ![r].dist = d]
    BY <1>5 DEF RollBack
  <2> DEFINE x == [run[r] EXCEPT !.pc = "failed", !.moved = {}, !.dist = d]
  <2>2. run' = [run EXCEPT ![r] = x]
    BY <2>1 DEF RunsShaped
  <2>3. Shaped(x) /\ x.number = run[r].number /\ x.tip = run[r].tip /\ x.pc = "failed"
    BY DEF RunsShaped, Shaped, Fields
  <2>4. QED
    BY <1>5, <2>2, <2>3, UpdatesAreQuiet DEF RollBack, bounds
<1>6. CASE Record(r)
  <2>1. PICK m : run' = [run EXCEPT ![r].pc = "audit", ![r].moved = {}, ![r].manifest = m]
    BY <1>6 DEF Record
  <2> DEFINE x == [run[r] EXCEPT !.pc = "audit", !.moved = {}, !.manifest = m]
  <2>2. run' = [run EXCEPT ![r] = x]
    BY <2>1 DEF RunsShaped
  <2>3. Shaped(x) /\ x.number = run[r].number /\ x.tip = run[r].tip /\ x.pc = "audit"
    BY DEF RunsShaped, Shaped, Fields
  <2>4. QED
    BY <1>6, <2>2, <2>3, UpdatesAreQuiet DEF Record, bounds
<1>7. CASE Audit(r) \/ Verify(r) \/ Publish(r)
  <2>1. Refuse(r) \/ \E p \in {"verify", "publish", "built", "failed", "upload"} : Go(r, p)
    BY <1>7 DEF Audit, Verify, Publish, Checked
  <2>2. QED
    BY <1>7, <2>1, RefusalIsQuiet, MovesAreQuiet DEF Audit, Verify, Publish, bounds
<1>8. CASE Resume(r)
  <2>1. PICK p \in {"normalize", "verify", "publish"} :
            run' = [run EXCEPT ![r].pc = p, ![r].uploaded = {}]
    BY <1>8 DEF Resume
  <2> DEFINE x == [run[r] EXCEPT !.pc = p, !.uploaded = {}]
  <2>2. run' = [run EXCEPT ![r] = x]
    BY <2>1 DEF RunsShaped
  <2>3. Shaped(x) /\ x.number = run[r].number /\ x.tip = run[r].tip /\ x.pc = p
    BY DEF RunsShaped, Shaped, Fields
  <2>4. QED
    BY <1>8, <2>1, <2>2, <2>3, UpdatesAreQuiet DEF Resume
<1>9. CASE Damage(r)
  <2>1. PICK t \in DOMAIN run[r].dist : run' = [run EXCEPT ![r].dist[t].content = "other"]
    BY <1>9 DEF Damage
  <2> DEFINE x == [run[r] EXCEPT !.dist[t].content = "other"]
  <2>2. run' = [run EXCEPT ![r] = x]
    BY <2>1 DEF RunsShaped
  <2>3. Shaped(x) /\ x.number = run[r].number /\ x.tip = run[r].tip /\ x.pc = run[r].pc
    BY DEF RunsShaped, Shaped, Fields
  <2>4. QED
    BY <1>9, <2>2, <2>3, UpdatesAreQuiet DEF Damage
<1>10. QED
  BY <1>1, <1>2, <1>3, <1>4, <1>5, <1>6, <1>7, <1>8, <1>9 DEF Packaging

-----------------------------------------------------------------------------
(* The counter and the branch. *)

LEMMA CounterInit == Init => CounterInv
<1> SUFFICES ASSUME Init PROVE CounterInv
  OBVIOUS
<1> DEFINE c == [id |-> 1, counter |-> 1]
<1>1. RunsShaped /\ \A r \in Runs : run[r].pc = "idle" /\ run[r].number = 0
  BY DEF Init, RunsShaped, Shaped, Fields, Idle
<1>2. Counted(branch) /\ branch # <<>>
  <2>1. branch = <<c>> /\ c.counter \in Nat /\ branch \in Seq({c})
    BY DEF Init
  <2>2. Len(branch) = 1 /\ branch[1] = c
    BY <2>1
  <2>3. \A i \in 1..Len(branch) : branch[i] = c
    BY <2>2
  <2>4. \E C : branch \in Seq(C)
    BY <2>1
  <2> HIDE DEF c
  <2>5. QED
    BY <2>1, <2>3, <2>4 DEF Counted
<1>3. QED
  BY <1>1, <1>2 DEF Init, CounterInv, At, NumberIsConsumed

LEMMA QuietKeepsCounter ==
    ASSUME CounterInv, NEW r \in Runs, Quiet(r)
    PROVE  CounterInv'
<1>1. \A q \in Runs : /\ run'[q].number = run[q].number /\ run'[q].tip = run[q].tip
                      /\ run'[q].pc \in {"push", "done"} => run'[q].pc = run[q].pc
  BY DEF Quiet
<1>2. RunsShaped' /\ branch' = branch /\ rewrites' = rewrites
  BY DEF Quiet
<1>3. Counted(branch)'
  BY <1>2 DEF CounterInv, Counted
<1>4. \A q \in Runs : At(q, "push")' => Counted(run'[q].tip) /\ run'[q].tip # <<>>
  BY <1>1 DEF CounterInv, At
<1>5. NumberIsConsumed'
  BY <1>1, <1>2 DEF CounterInv, NumberIsConsumed, At
<1>6. QED
  BY <1>1, <1>2, <1>3, <1>4, <1>5 DEF CounterInv

(* A run that asks for a number starts with one. *)
LEMMA RequestKeepsCounter ==
    ASSUME CounterInv, NEW r \in Runs, Request(r)
    PROVE  CounterInv'
<1>1. Last(branch).counter \in Nat
  BY LastCounted DEF CounterInv, Request
<1>2. PICK x : /\ Shaped(x) /\ x.pc \notin {"push", "done"} /\ x.number \in Nat
               /\ run' = [run EXCEPT ![r] = x]
  <2>1. PICK asked \in {0, 3}, wanted \in BOOLEAN :
            run' = [run EXCEPT ![r] =
                      [Idle EXCEPT !.pc = IF Resolved(Last(branch).counter, asked) < Last(branch).counter
                                          THEN "refused" ELSE "setup",
                                   !.source = Last(branch).id,
                                   !.number = Resolved(Last(branch).counter, asked),
                                   !.upload = wanted]]
    BY Zenon DEF Request
  <2> DEFINE label == IF Resolved(Last(branch).counter, asked) < Last(branch).counter
                      THEN "refused" ELSE "setup"
             y == [Idle EXCEPT !.pc = label, !.source = Last(branch).id,
                               !.number = Resolved(Last(branch).counter, asked),
                               !.upload = wanted]
  <2>6. label \in {"refused", "setup"} /\ run' = [run EXCEPT ![r] = y]
    BY <2>1, Zenon
  <2> HIDE DEF label
  <2>2. y.pc = label /\ y.number = Resolved(Last(branch).counter, asked) /\ Shaped(y)
    BY DEF Idle, Shaped, Fields
  <2>3. Resolved(Last(branch).counter, asked) \in Nat
    BY <1>1, <2>1 DEF Resolved
  <2>4. Shaped(y) /\ y.pc \notin {"push", "done"} /\ y.number \in Nat
    BY <2>2, <2>3, <2>6
  <2> HIDE DEF y
  <2>5. QED
    BY <2>4, <2>6
<1>4. RunsShaped
  BY DEF CounterInv
<1>6. RunsShaped' /\ \A q \in Runs : run'[q] = IF q = r THEN x ELSE run[q]
  BY <1>2, <1>4, OnlyOne
<1>7. branch' = branch /\ rewrites' = rewrites
  BY DEF Request, bounds
<1>8. Counted(branch)'
  BY <1>7 DEF CounterInv, Counted
<1>9. \A q \in Runs : At(q, "push")' => Counted(run'[q].tip) /\ run'[q].tip # <<>>
  BY <1>2, <1>6 DEF CounterInv, At
<1>10. NumberIsConsumed'
  BY <1>2, <1>6, <1>7 DEF CounterInv, NumberIsConsumed, At
<1>11. \A q \in Runs : run'[q].number \in Nat
  BY <1>2, <1>6 DEF CounterInv
<1>12. QED
  BY <1>6, <1>7, <1>8, <1>9, <1>10, <1>11 DEF CounterInv

(* A new job of a run keeps its number. *)
LEMMA AnewKeepsCounter ==
    ASSUME CounterInv, NEW r \in Runs, NEW p, p \notin {"push", "done"},
           run' = [run EXCEPT ![r] = AnewAt(r, p)], branch' = branch, rewrites' = rewrites
    PROVE  CounterInv'
<1> DEFINE x == AnewAt(r, p)
<1>1. Shaped(x) /\ x.pc \notin {"push", "done"} /\ x.number \in Nat
  BY DEF AnewAt, Idle, Shaped, Fields, CounterInv
<1>2. RunsShaped /\ run' = [run EXCEPT ![r] = x]
  BY DEF CounterInv
<1> HIDE DEF x
<1>3. RunsShaped' /\ \A q \in Runs : run'[q] = IF q = r THEN x ELSE run[q]
  BY <1>1, <1>2, OnlyOne
<1>4. Counted(branch)'
  BY DEF CounterInv, Counted
<1>5. \A q \in Runs : At(q, "push")' => Counted(run'[q].tip) /\ run'[q].tip # <<>>
  BY <1>1, <1>3 DEF CounterInv, At
<1>6. NumberIsConsumed'
  BY <1>1, <1>3 DEF CounterInv, NumberIsConsumed, At
<1>7. \A q \in Runs : run'[q].number \in Nat
  BY <1>1, <1>3 DEF CounterInv
<1>8. QED
  BY <1>3, <1>4, <1>5, <1>6, <1>7 DEF CounterInv

LEMMA RerunKeepsCounter ==
    ASSUME CounterInv, NEW r \in Runs, Rerun(r)
    PROVE  CounterInv'
<1>1. /\ branch' = branch /\ rewrites' = rewrites
      /\ run' = [run EXCEPT ![r] = AnewAt(r, IF At(r, "failed") THEN "compose" ELSE "bump")]
  BY DEF Rerun
<1> DEFINE p == IF At(r, "failed") THEN "compose" ELSE "bump"
<1>2. p \notin {"push", "done"}
  OBVIOUS
<1>3. QED
  BY <1>1, <1>2, AnewKeepsCounter

LEMMA UploadKeepsCounter ==
    ASSUME CounterInv, NEW r \in Runs, Upload(r)
    PROVE  CounterInv'
<1>1. branch' = branch /\ rewrites' = rewrites /\ RunsShaped
  BY DEF Upload, bounds, CounterInv
<1>2. CASE run' = [run EXCEPT ![r] = AnewAt(r, "bump")]
  <2>1. "bump" \notin {"push", "done"}
    OBVIOUS
  <2>2. QED
    BY <1>1, <1>2, <2>1, AnewKeepsCounter
<1>3. ASSUME NEW u, run' = [run EXCEPT ![r].uploaded = u, ![r].pc = "upload"]
      PROVE  CounterInv'
  <2> DEFINE x == [run[r] EXCEPT !.uploaded = u, !.pc = "upload"]
  <2>1. run' = [run EXCEPT ![r] = x]
    BY <1>1, <1>3 DEF RunsShaped
  <2>2. Shaped(x) /\ x.number = run[r].number /\ x.tip = run[r].tip /\ x.pc = "upload"
    BY <1>1 DEF RunsShaped, Shaped, Fields
  <2>3. QED
    BY <1>1, <2>1, <2>2, UpdatesAreQuiet, QuietKeepsCounter
<1>4. QED
  BY <1>2, <1>3 DEF Upload

(* What is fetched to push onto is the branch; a run is done without a push *)
(* only if the counter has passed its number.                               *)
LEMMA FetchKeepsCounter ==
    ASSUME CounterInv, NEW r \in Runs, Fetch(r)
    PROVE  CounterInv'
<1> DEFINE gone == branch = <<>> \/ run[r].source \notin Commits(branch)
           last == Last(branch).counter
           past == NextCounter(last, run[r].number) = last
<1>1. RunsShaped /\ branch' = branch /\ rewrites' = rewrites /\ Counted(branch)
  BY DEF CounterInv, Fetch, bounds
<1>2. CASE gone
  BY <1>1, <1>2, MovesAreQuiet, QuietKeepsCounter DEF Fetch
<1>3. CASE ~gone /\ past
  <2>1. Go(r, "done")
    BY <1>3 DEF Fetch
  <2>2. RunsShaped' /\ \A q \in Runs : /\ run'[q].number = run[q].number
                                        /\ run'[q].tip = run[q].tip
                                        /\ run'[q].pc = IF q = r THEN "done" ELSE run[q].pc
    <3>1. /\ RunsShaped'
          /\ \A q \in Runs \ {r} : run'[q] = run[q]
          /\ run'[r].number = run[r].number /\ run'[r].tip = run[r].tip /\ run'[r].pc = "done"
      BY <1>1, <2>1, GoKeeps
    <3>2. QED
      BY <3>1
  <2>3. last \in Nat /\ run[r].number \in Nat
    BY <1>1, <1>3, LastCounted DEF CounterInv
  <2>4. last > run[r].number
    BY <1>3, <2>3 DEF NextCounter
  <2>5. NumberIsConsumed'
    BY <1>1, <2>2, <2>4 DEF CounterInv, NumberIsConsumed, At
  <2>6. \A q \in Runs : At(q, "push")' => Counted(run'[q].tip) /\ run'[q].tip # <<>>
    BY <2>2 DEF CounterInv, At
  <2>7. Counted(branch)'
    BY <1>1 DEF Counted
  <2>8. QED
    BY <1>1, <2>2, <2>5, <2>6, <2>7 DEF CounterInv
<1>4. CASE ~gone /\ ~past
  <2> DEFINE x == [run[r] EXCEPT !.pc = "push", !.tip = branch, !.attempt = @ + 1]
  <2>1. run' = [run EXCEPT ![r] = x]
    BY <1>1, <1>4 DEF Fetch, RunsShaped
  <2>2. Shaped(x) /\ x.pc = "push" /\ x.tip = branch /\ x.number = run[r].number
    BY <1>1 DEF RunsShaped, Shaped, Fields
  <2> HIDE DEF x
  <2>3. RunsShaped' /\ \A q \in Runs : run'[q] = IF q = r THEN x ELSE run[q]
    BY <1>1, <2>1, <2>2, OnlyOne
  <2>4. \A q \in Runs : At(q, "push")' => Counted(run'[q].tip) /\ run'[q].tip # <<>>
    BY <1>1, <1>4, <2>2, <2>3 DEF CounterInv, At
  <2>5. NumberIsConsumed'
    BY <1>1, <2>2, <2>3 DEF CounterInv, NumberIsConsumed, At
  <2>6. Counted(branch)'
    BY <1>1 DEF Counted
  <2>7. \A q \in Runs : run'[q].number \in Nat
    BY <2>2, <2>3 DEF CounterInv
  <2>8. QED
    BY <1>1, <2>3, <2>4, <2>5, <2>6, <2>7 DEF CounterInv
<1>5. QED
  BY <1>2, <1>3, <1>4

(* The commit a run adds carries a counter beyond its number, and not below *)
(* the one it found.                                                        *)
LEMMA ExtendedBeyond ==
    ASSUME CounterInv, NEW r \in Runs, At(r, "push")
    PROVE  /\ Counted(Extended(r)) /\ Extended(r) # <<>>
           /\ IsPrefix(run[r].tip, Extended(r))
           /\ Last(Extended(r)).counter > run[r].number
           /\ Last(Extended(r)).counter >= Last(run[r].tip).counter
<1> DEFINE got == Last(run[r].tip).counter
           c == [id |-> Fresh, counter |-> NextCounter(got, run[r].number)]
<1>1. Counted(run[r].tip) /\ run[r].tip # <<>> /\ run[r].number \in Nat
  BY DEF CounterInv
<1>2. got \in Nat
  BY <1>1, LastCounted
<1>3. /\ NextCounter(got, run[r].number) \in Nat
      /\ NextCounter(got, run[r].number) > run[r].number
      /\ NextCounter(got, run[r].number) >= got
  BY <1>1, <1>2 DEF NextCounter
<1>4. c.counter = NextCounter(got, run[r].number)
  OBVIOUS
<1>5. Extended(r) = Append(run[r].tip, c)
  BY DEF Extended
<1> HIDE DEF c, got
<1>6. /\ Counted(Extended(r)) /\ Extended(r) # <<>> /\ Last(Extended(r)) = c
      /\ IsPrefix(run[r].tip, Extended(r))
  BY <1>1, <1>3, <1>4, <1>5, Pushed
<1>7. QED
  BY <1>3, <1>4, <1>6 DEF got

LEMMA PushKeepsCounter ==
    ASSUME CounterInv, NEW r \in Runs, Push(r)
    PROVE  CounterInv'
<1>1. RunsShaped /\ rewrites' = rewrites
  BY DEF CounterInv, Push, bounds
<1>2. PICK p : Go(r, p) /\ p \in {"done", "unbumped", "bump"}
               /\ (p = "done" => branch' = Extended(r) /\ branch = run[r].tip)
  BY DEF Push, Again
<1>3. /\ RunsShaped'
      /\ \A q \in Runs \ {r} : run'[q] = run[q]
      /\ run'[r].number = run[r].number /\ run'[r].tip = run[r].tip /\ run'[r].pc = p
  BY <1>1, <1>2, GoKeeps
<1>4. CASE branch' = branch
  <2>1. p # "done" \/ branch = Extended(r)
    BY <1>2, <1>4
  <2>2. Counted(branch)' /\ (rewrites' = 0 => branch' # <<>>)
    BY <1>1, <1>4 DEF CounterInv, Counted
  <2>3. \A q \in Runs : At(q, "push")' => Counted(run'[q].tip) /\ run'[q].tip # <<>>
    BY <1>2, <1>3 DEF CounterInv, At
  <2>4. NumberIsConsumed'
    <3>1. SUFFICES ASSUME NEW q \in Runs, At(q, "done")', rewrites' = 0
                   PROVE  Last(branch').counter > run'[q].number
      BY DEF NumberIsConsumed
    <3>2. CASE q # r
      BY <1>1, <1>3, <1>4, <3>1, <3>2 DEF CounterInv, NumberIsConsumed, At
    <3>3. CASE q = r
      <4>1. branch = Extended(r)
        BY <1>3, <2>1, <3>1, <3>3 DEF At
      <4>2. At(r, "push")
        BY DEF Push
      <4>3. QED
        BY <1>3, <1>4, <3>3, <4>1, <4>2, ExtendedBeyond
    <3>4. QED
      BY <3>2, <3>3
  <2>5. \A q \in Runs : run'[q].number \in Nat
    BY <1>3 DEF CounterInv
  <2>6. QED
    BY <1>1, <1>3, <2>2, <2>3, <2>4, <2>5 DEF CounterInv
<1>5. CASE branch' = Extended(r) /\ branch = run[r].tip
  <2>1. /\ Counted(branch') /\ branch' # <<>> /\ Last(branch').counter > run[r].number
        /\ Last(branch').counter >= Last(branch).counter
    BY <1>5, ExtendedBeyond DEF Push
  <2>2. \A q \in Runs : At(q, "push")' => Counted(run'[q].tip) /\ run'[q].tip # <<>>
    BY <1>2, <1>3 DEF CounterInv, At
  <2>3. Last(branch).counter \in Nat /\ Last(branch').counter \in Nat
    BY <1>5, <2>1, LastCounted DEF CounterInv, Push
  <2>4. \A q \in Runs : run'[q].number = run[q].number /\ run[q].number \in Nat
    BY <1>3 DEF CounterInv
  <2>5. NumberIsConsumed'
    <3>1. SUFFICES ASSUME NEW q \in Runs, At(q, "done")', rewrites' = 0
                   PROVE  Last(branch').counter > run'[q].number
      BY DEF NumberIsConsumed
    <3>2. CASE q # r
      <4>1. Last(branch).counter > run[q].number
        BY <1>1, <1>3, <3>1, <3>2 DEF CounterInv, NumberIsConsumed, At
      <4>2. QED
        BY <2>1, <2>3, <2>4, <4>1
    <3>3. CASE q = r
      BY <1>3, <2>1, <3>3
    <3>4. QED
      BY <3>2, <3>3
  <2>6. Counted(branch)'
    BY <2>1 DEF Counted
  <2>7. QED
    BY <1>1, <1>3, <2>1, <2>2, <2>4, <2>5, <2>6 DEF CounterInv
<1>6. QED
  BY <1>4, <1>5 DEF Push

(* Others push commits that do not set the counter back. *)
LEMMA PushOtherKeepsCounter ==
    ASSUME CounterInv, PushOther
    PROVE  CounterInv' /\ IsPrefix(branch, branch')
<1>1. PICK more \in {0, 2} :
          /\ branch' = Append(branch, [id |-> Fresh, counter |-> Last(branch).counter + more])
          /\ branch # <<>> /\ run' = run /\ rewrites' = rewrites
  BY DEF PushOther
<1> DEFINE c == [id |-> Fresh, counter |-> Last(branch).counter + more]
<1>2. Counted(branch) /\ Last(branch).counter \in Nat
  BY <1>1, LastCounted DEF CounterInv
<1>3. /\ branch' = Append(branch, c)
      /\ c.counter \in Nat /\ c.counter >= Last(branch).counter
  BY <1>1, <1>2
<1> HIDE DEF c
<1>4. Counted(branch') /\ branch' # <<>> /\ Last(branch') = c /\ IsPrefix(branch, branch')
  BY <1>2, <1>3, Pushed
<1>5. Counted(branch)'
  BY <1>4 DEF Counted
<1>6. RunsShaped'
  BY <1>1 DEF CounterInv, RunsShaped
<1>7. NumberIsConsumed'
  <2>1. SUFFICES ASSUME NEW q \in Runs, At(q, "done")', rewrites' = 0
                 PROVE  Last(branch').counter > run'[q].number
    BY DEF NumberIsConsumed
  <2>2. Last(branch).counter > run[q].number /\ run[q].number \in Nat
    BY <1>1, <2>1 DEF CounterInv, NumberIsConsumed, At
  <2>3. QED
    BY <1>1, <1>2, <1>3, <1>4, <2>2
<1>8. \A q \in Runs : At(q, "push")' => Counted(run'[q].tip) /\ run'[q].tip # <<>>
  BY <1>1 DEF CounterInv, At
<1>9. QED
  BY <1>1, <1>4, <1>5, <1>6, <1>7, <1>8 DEF CounterInv

(* A rewrite ends the promise, and leaves a branch. *)
LEMMA RewriteKeepsCounter ==
    ASSUME CounterInv, Rewrite
    PROVE  CounterInv' /\ rewrites' # rewrites
<1>1. run' = run /\ rewrites' = rewrites + 1 /\ rewrites \in Nat /\ branch # <<>>
  BY DEF Rewrite, CounterInv
<1>2. Counted(branch')
  <2>1. PICK C : branch \in Seq(C)
    BY DEF CounterInv, Counted
  <2>2. Len(branch) \in Nat \ {0}
    BY <1>1, <2>1, EmptySeq
  <2>3. Counted(<<>>)
    BY DEF Counted
  <2>4. Counted(Front(branch))
    <3>1. /\ Front(branch) \in Seq(C) /\ Len(Front(branch)) = Len(branch) - 1
          /\ \A i \in 1..Len(branch) - 1 : Front(branch)[i] = branch[i]
      <4>1. \A i \in 1..Len(branch) - 1 : branch[i] \in C
        BY <2>1, <2>2
      <4>2. Len(branch) - 1 \in Int /\ Len(branch) - 1 \in Nat
        BY <2>2
      <4> DEFINE n == Len(branch) - 1
      <4> HIDE DEF n
      <4>3. /\ SubSeq(branch, 1, n) \in Seq(C)
            /\ Len(SubSeq(branch, 1, n)) = IF 1 <= n THEN n - 1 + 1 ELSE 0
            /\ \A i \in 1..n - 1 + 1 : SubSeq(branch, 1, n)[i] = branch[1 + i - 1]
        BY <4>1, <4>2, SubSeqProperties DEF n
      <4>4. n \in Nat /\ Front(branch) = SubSeq(branch, 1, n)
        BY <4>2 DEF n, Front
      <4>5. \A i \in 1..n : Front(branch)[i] = branch[i]
        BY <4>3, <4>4
      <4>6. Len(Front(branch)) = n
        BY <4>3, <4>4
      <4>7. QED
        BY <4>3, <4>4, <4>5, <4>6 DEF n
    <3>2. \A i \in 1..Len(Front(branch)) : Front(branch)[i].counter \in Nat
      BY <2>2, <3>1 DEF CounterInv, Counted
    <3>3. QED
      BY <3>1, <3>2 DEF Counted
  <2> DEFINE c == [id |-> Fresh, counter |-> 1]
  <2>5. branch' \in {<<>>, Append(Front(branch), c), Append(branch, c)} /\ Counted(branch)
    BY DEF Rewrite, CounterInv
  <2>6. c.counter \in Nat
    OBVIOUS
  <2> HIDE DEF c
  <2>7. QED
    BY <2>3, <2>4, <2>5, <2>6, Pushed
<1>3. Counted(branch)'
  BY <1>2 DEF Counted
<1>4. RunsShaped'
  BY <1>1 DEF CounterInv, RunsShaped
<1>5. NumberIsConsumed'
  BY <1>1 DEF NumberIsConsumed
<1>6. \A q \in Runs : At(q, "push")' => Counted(run'[q].tip) /\ run'[q].tip # <<>>
  BY <1>1 DEF CounterInv, At
<1>7. QED
  BY <1>1, <1>3, <1>4, <1>5, <1>6 DEF CounterInv

LEMMA CounterNext == CounterInv /\ [Next]_vars => CounterInv'
<1> SUFFICES ASSUME CounterInv, [Next]_vars PROVE CounterInv'
  OBVIOUS
<1>1. ASSUME NEW r \in Runs, Step(r) PROVE CounterInv'
  <2>1. CASE Packaging(r)
    BY <2>1, PackagingIsQuiet, QuietKeepsCounter DEF CounterInv
  <2>2. QED
    BY <1>1, <2>1, RequestKeepsCounter, RerunKeepsCounter, UploadKeepsCounter, FetchKeepsCounter,
       PushKeepsCounter DEF Step, Packaging
<1>2. CASE UNCHANGED vars
  <2>1. run' = run /\ branch' = branch /\ rewrites' = rewrites
    BY <1>2 DEF vars, bounds
  <2>2. QED
    BY <2>1 DEF CounterInv, RunsShaped, Counted, At, NumberIsConsumed
<1>3. QED
  BY <1>1, <1>2, PushOtherKeepsCounter, RewriteKeepsCounter DEF Next

(* However many runs, pushes and lost answers there are: as long as nobody  *)
(* rewrites the branch or sets its counter back, the counter stays beyond   *)
(* the number of every run that is done (next_counter and publish of        *)
(* release_build_number.py).                                                *)
THEOREM ReleasedNumbersArePassed == Spec => []NumberIsConsumed
<1>1. CounterInv => NumberIsConsumed
  BY DEF CounterInv
<1>2. QED
  BY <1>1, CounterInit, CounterNext, PTL DEF Spec

(* A run only adds to the branch, and only to one that exists: what others  *)
(* pushed between its fetch and its push is never lost (the lease of        *)
(* publish).                                                                *)
THEOREM RunsOnlyAddCommits == Spec => BranchOnlyGrows
<1> DEFINE Grows == branch' = branch \/ (branch # <<>> /\ IsPrefix(branch, branch'))
                    \/ rewrites' # rewrites
<1>1. CounterInv /\ [Next]_vars => [Grows]_vars
  <2> SUFFICES ASSUME CounterInv, Next PROVE Grows
    OBVIOUS
  <2>1. ASSUME NEW r \in Runs, Step(r) PROVE Grows
    <3>1. CASE Packaging(r)
      BY <3>1, PackagingIsQuiet DEF CounterInv, Quiet
    <3>2. CASE Push(r)
      BY <3>2, ExtendedBeyond DEF Push, CounterInv
    <3>3. CASE Request(r) \/ Rerun(r)
      BY <3>3, Zenon DEF Request, Rerun
    <3>4. CASE Upload(r) \/ Fetch(r)
      BY <3>4, Zenon DEF Upload, Fetch
    <3>5. QED
      BY <2>1, <3>1, <3>2, <3>3, <3>4 DEF Step, Packaging
  <2>2. CASE PushOther
    BY <2>2, PushOtherKeepsCounter DEF PushOther
  <2>3. QED
    BY <2>1, <2>2, RewriteKeepsCounter DEF Next
<1>2. QED
  BY <1>1, CounterInit, CounterNext, PTL DEF Spec, BranchOnlyGrows

-----------------------------------------------------------------------------
(* The packages. *)

Named(d) == DOMAIN d = Targets /\ \A t \in Targets : d[t].final

(* A manifest that passed was written of the expected packages with their   *)
(* public names, whatever became of them since; a run that uploads has what *)
(* the manifest says and the audit accepted.                                *)
Packed(x) ==
    /\ x.pc = "rename" => DOMAIN x.dist = Targets
    /\ x.manifest.passed => Named(x.manifest.files)
    /\ x.pc = "upload" => Named(x.dist) /\ Audited(x.dist)

PackInv == RunsShaped /\ (\A r \in Runs : Packed(run[r])) /\ AssetsAreAudited

LEMMA FreshIsPacked ==
    ASSUME NEW x, x.manifest = NoManifest, x.pc \notin {"rename", "upload"}
    PROVE  Packed(x)
BY DEF NoManifest, Packed

LEMMA PackInit == Init => PackInv
<1> SUFFICES ASSUME Init PROVE PackInv
  OBVIOUS
<1>1. RunsShaped /\ \A r \in Runs : run[r].pc = "idle" /\ run[r].manifest = NoManifest
  BY DEF Init, RunsShaped, Shaped, Fields, Idle
<1>2. AssetsAreAudited
  BY DEF Init, Empty, AssetsAreAudited
<1>3. QED
  BY <1>1, <1>2, FreshIsPacked DEF PackInv

(* One run moves to a state that is packed, and the draft stays. *)
LEMMA UpdateKeepsPack ==
    ASSUME PackInv, NEW r \in Runs, NEW x, Shaped(x), Packed(x),
           run' = [run EXCEPT ![r] = x], draft' = draft
    PROVE  PackInv'
<1>1. RunsShaped' /\ \A q \in Runs : run'[q] = IF q = r THEN x ELSE run[q]
  BY OnlyOne DEF PackInv
<1>2. \A q \in Runs : Packed(run'[q])
  BY <1>1 DEF PackInv
<1>3. AssetsAreAudited'
  BY DEF PackInv, AssetsAreAudited
<1>4. QED
  BY <1>1, <1>2, <1>3 DEF PackInv

LEMMA MoveKeepsPack ==
    ASSUME PackInv, NEW r \in Runs, NEW p, Go(r, p), draft' = draft, p # "rename",
           p = "upload" => Named(run[r].dist) /\ Audited(run[r].dist)
    PROVE  PackInv'
<1> DEFINE x == [run[r] EXCEPT !.pc = p]
<1>1. run' = [run EXCEPT ![r] = x]
  BY DEF Go, RunsShaped, PackInv
<1>2. Shaped(x) /\ x.pc = p /\ x.dist = run[r].dist /\ x.manifest = run[r].manifest
  BY DEF PackInv, RunsShaped, Shaped, Fields
<1> HIDE DEF x
<1>3. Packed(x)
  BY <1>2 DEF PackInv, Packed
<1>4. QED
  BY <1>1, <1>2, <1>3, UpdateKeepsPack

(* The packages change where nothing is renamed or uploaded. *)
LEMMA PackagesKeepPack ==
    ASSUME PackInv, NEW r \in Runs, Package(r) \/ RollBack(r) \/ Damage(r)
    PROVE  PackInv'
<1>1. draft' = draft
  BY DEF Package, RollBack, Damage
<1>2. PICK x : /\ Shaped(x) /\ x.pc \notin {"rename", "upload"} /\ x.manifest = run[r].manifest
               /\ run' = [run EXCEPT ![r] = x]
  <2>1. CASE Package(r)
    <3>1. PICK d : run' = [run EXCEPT ![r].pc = "normalize", ![r].dist = d]
      BY <2>1 DEF Package
    <3> DEFINE x == [run[r] EXCEPT !.pc = "normalize", !.dist = d]
    <3>2. Shaped(x) /\ x.pc = "normalize" /\ x.manifest = run[r].manifest
      BY DEF PackInv, RunsShaped, Shaped, Fields
    <3>3. run' = [run EXCEPT ![r] = x]
      BY <3>1 DEF PackInv, RunsShaped
    <3>4. QED
      BY <3>2, <3>3
  <2>2. CASE RollBack(r)
    <3>1. PICK d : run' = [run EXCEPT ![r].pc = "failed", ![r].moved = {}, ![r].dist = d]
      BY <2>2 DEF RollBack
    <3> DEFINE x == [run[r] EXCEPT !.pc = "failed", !.moved = {}, !.dist = d]
    <3>2. Shaped(x) /\ x.pc = "failed" /\ x.manifest = run[r].manifest
      BY DEF PackInv, RunsShaped, Shaped, Fields
    <3>3. run' = [run EXCEPT ![r] = x]
      BY <3>1 DEF PackInv, RunsShaped
    <3>4. QED
      BY <3>2, <3>3
  <2>3. CASE Damage(r)
    <3>1. PICK t \in DOMAIN run[r].dist : run' = [run EXCEPT ![r].dist[t].content = "other"]
      BY <2>3 DEF Damage
    <3> DEFINE x == [run[r] EXCEPT !.dist[t].content = "other"]
    <3>2. Shaped(x) /\ x.pc = run[r].pc /\ x.manifest = run[r].manifest
      BY DEF PackInv, RunsShaped, Shaped, Fields
    <3>3. run' = [run EXCEPT ![r] = x]
      BY <3>1 DEF PackInv, RunsShaped
    <3>4. QED
      BY <2>3, <3>2, <3>3 DEF Damage
  <2>4. QED
    BY <2>1, <2>2, <2>3
<1>3. Packed(x)
  BY <1>2 DEF PackInv, Packed
<1>4. QED
  BY <1>1, <1>2, <1>3, UpdateKeepsPack

LEMMA PlanKeepsPack ==
    ASSUME PackInv, NEW r \in Runs, Plan(r)
    PROVE  PackInv'
<1> DEFINE p == IF DOMAIN run[r].dist = Targets THEN "rename" ELSE "failed"
           x == [run[r] EXCEPT !.manifest = NoManifest, !.moved = {}, !.pc = p]
<1>1. run' = [run EXCEPT ![r] = x] /\ draft' = draft
  BY DEF Plan, RunsShaped, PackInv
<1>2. Shaped(x) /\ x.pc = p /\ x.dist = run[r].dist /\ x.manifest = NoManifest
  BY DEF PackInv, RunsShaped, Shaped, Fields
<1> HIDE DEF x
<1>3. Packed(x)
  BY <1>2 DEF NoManifest, Packed
<1>4. QED
  BY <1>1, <1>2, <1>3, UpdateKeepsPack

LEMMA RenameKeepsPack ==
    ASSUME PackInv, NEW r \in Runs, Rename(r)
    PROVE  PackInv'
<1>1. PICK t \in DOMAIN run[r].dist :
          run' = [run EXCEPT ![r].dist[t].final = TRUE, ![r].moved = @ \cup {t}]
  BY DEF Rename
<1> DEFINE d == [run[r].dist EXCEPT ![t].final = TRUE]
           x == [run[r] EXCEPT !.dist = d, !.moved = @ \cup {t}]
<1>2. run' = [run EXCEPT ![r] = x]
  BY <1>1 DEF RunsShaped, PackInv, Shaped, Fields
<1>3. Shaped(x) /\ x.pc = run[r].pc /\ x.dist = d /\ x.manifest = run[r].manifest
  BY DEF PackInv, RunsShaped, Shaped, Fields
<1>4. run[r].pc = "rename" /\ draft' = draft /\ DOMAIN d = DOMAIN run[r].dist
  BY DEF Rename, At
<1> HIDE DEF d, x
<1>5. Packed(x)
  BY <1>3, <1>4 DEF PackInv, Packed
<1>6. QED
  BY <1>2, <1>3, <1>4, <1>5, UpdateKeepsPack

LEMMA RecordKeepsPack ==
    ASSUME PackInv, NEW r \in Runs, Record(r)
    PROVE  PackInv'
<1> DEFINE m == [passed |-> TRUE, files |-> run[r].dist]
           x == [run[r] EXCEPT !.pc = "audit", !.moved = {}, !.manifest = m]
<1>1. run' = [run EXCEPT ![r] = x] /\ draft' = draft
  BY DEF Record, RunsShaped, PackInv
<1>2. Shaped(x) /\ x.pc = "audit" /\ x.manifest = m
  BY DEF PackInv, RunsShaped, Shaped, Fields
<1>3. Named(run[r].dist)
  BY DEF Record, Named, PackInv, Packed, At
<1> HIDE DEF x
<1>4. Packed(x)
  BY <1>2, <1>3 DEF Packed
<1>5. QED
  BY <1>1, <1>2, <1>4, UpdateKeepsPack

LEMMA RefusalKeepsPack ==
    ASSUME PackInv, NEW r \in Runs, Refuse(r), draft' = draft
    PROVE  PackInv'
<1> DEFINE x == [run[r] EXCEPT !.pc = "failed", !.manifest = NoManifest]
<1>1. run' = [run EXCEPT ![r] = x]
  BY DEF Refuse, RunsShaped, PackInv
<1>2. Shaped(x) /\ x.pc = "failed" /\ x.manifest = NoManifest
  BY DEF PackInv, RunsShaped, Shaped, Fields
<1> HIDE DEF x
<1>3. QED
  BY <1>1, <1>2, FreshIsPacked, UpdateKeepsPack

(* What the manifest recorded has the public names: only that is uploaded,  *)
(* and only once it was audited.                                            *)
LEMMA ChecksKeepPack ==
    ASSUME PackInv, NEW r \in Runs, Audit(r) \/ Verify(r) \/ Publish(r)
    PROVE  PackInv'
<1>1. draft' = draft
  BY DEF Audit, Verify, Publish
<1>2. CASE Refuse(r)
  BY <1>1, <1>2, RefusalKeepsPack
<1>3. CASE \E p \in {"verify", "failed", "publish", "built"} : Go(r, p)
  BY <1>1, <1>3, MoveKeepsPack
<1>4. CASE Publish(r) /\ FilesHold(r) /\ Audited(run[r].dist) /\ Go(r, "upload")
  <2>1. Named(run[r].dist)
    BY <1>4 DEF FilesHold, PackInv, Packed
  <2>2. QED
    BY <1>1, <1>4, <2>1, MoveKeepsPack
<1>5. QED
  BY <1>2, <1>3, <1>4 DEF Audit, Verify, Publish, Checked

(* What is uploaded was audited, and nothing is damaged after that. *)
LEMMA UploadKeepsPack ==
    ASSUME PackInv, NEW r \in Runs, Upload(r)
    PROVE  PackInv'
<1>1. PICK t \in DOMAIN run[r].dist \ run[r].uploaded :
          /\ draft' = [u \in DOMAIN draft \cup {t} |-> IF u = t THEN run[r].dist[t] ELSE draft[u]]
          /\ \/ run' = [run EXCEPT ![r].uploaded = run[r].uploaded \cup {t}, ![r].pc = "upload"]
             \/ run' = [run EXCEPT ![r] = AnewAt(r, "bump")]
  BY DEF Upload
<1>2. run[r].pc = "upload" /\ Packed(run[r]) /\ RunsShaped
  BY DEF Upload, At, PackInv
<1>3. PICK x : Shaped(x) /\ Packed(x) /\ run' = [run EXCEPT ![r] = x]
  <2>1. CASE run' = [run EXCEPT ![r].uploaded = run[r].uploaded \cup {t}, ![r].pc = "upload"]
    <3> DEFINE x == [run[r] EXCEPT !.uploaded = run[r].uploaded \cup {t}, !.pc = "upload"]
    <3>1. /\ Shaped(x) /\ x.pc = "upload" /\ x.dist = run[r].dist
          /\ x.manifest = run[r].manifest
      BY <1>2 DEF RunsShaped, Shaped, Fields
    <3>2. run' = [run EXCEPT ![r] = x]
      BY <1>2, <2>1 DEF RunsShaped
    <3> HIDE DEF x
    <3>3. Packed(x)
      BY <1>2, <3>1 DEF Packed
    <3>4. QED
      BY <3>1, <3>2, <3>3
  <2>2. CASE run' = [run EXCEPT ![r] = AnewAt(r, "bump")]
    <3>1. /\ Shaped(AnewAt(r, "bump")) /\ AnewAt(r, "bump").pc = "bump"
          /\ AnewAt(r, "bump").manifest = NoManifest
      BY DEF AnewAt, Idle, Shaped, Fields
    <3>2. QED
      BY <2>2, <3>1, FreshIsPacked
  <2>3. QED
    BY <1>1, <2>1, <2>2
<1>4. RunsShaped' /\ \A q \in Runs : run'[q] = IF q = r THEN x ELSE run[q]
  BY <1>2, <1>3, OnlyOne
<1>5. \A q \in Runs : Packed(run'[q])
  BY <1>3, <1>4 DEF PackInv
<1>6. t \in Targets /\ run[r].dist[t].final /\ Intact(t, run[r].dist[t].content)
  BY <1>1, <1>2 DEF Packed, Audited, Named
<1>7. AssetsAreAudited'
  BY <1>1, <1>6 DEF PackInv, AssetsAreAudited
<1>8. QED
  BY <1>4, <1>5, <1>7 DEF PackInv

LEMMA RequestKeepsPack ==
    ASSUME PackInv, NEW r \in Runs, Request(r)
    PROVE  PackInv'
<1>1. PICK asked \in {0, 3}, wanted \in BOOLEAN :
          run' = [run EXCEPT ![r] =
                    [Idle EXCEPT !.pc = IF Resolved(Last(branch).counter, asked) < Last(branch).counter
                                        THEN "refused" ELSE "setup",
                                 !.source = Last(branch).id,
                                 !.number = Resolved(Last(branch).counter, asked),
                                 !.upload = wanted]]
  BY Zenon DEF Request
<1> DEFINE label == IF Resolved(Last(branch).counter, asked) < Last(branch).counter
                    THEN "refused" ELSE "setup"
           x == [Idle EXCEPT !.pc = label, !.source = Last(branch).id,
                             !.number = Resolved(Last(branch).counter, asked),
                             !.upload = wanted]
<1>6. label \in {"refused", "setup"} /\ run' = [run EXCEPT ![r] = x]
  BY <1>1, Zenon
<1> HIDE DEF label
<1>2. Shaped(x) /\ x.pc = label /\ x.manifest = NoManifest
  BY DEF Idle, Shaped, Fields
<1> HIDE DEF x
<1>3. Packed(x)
  BY <1>2, <1>6, FreshIsPacked
<1>4. draft' = draft
  BY DEF Request
<1>5. QED
  BY <1>2, <1>3, <1>4, <1>6, UpdateKeepsPack

LEMMA RerunKeepsPack ==
    ASSUME PackInv, NEW r \in Runs, Rerun(r)
    PROVE  PackInv'
<1> DEFINE label == IF At(r, "failed") THEN "compose" ELSE "bump"
           x == AnewAt(r, label)
<1>1. Shaped(x) /\ x.pc = label /\ x.manifest = NoManifest
  BY DEF AnewAt, Idle, Shaped, Fields
<1>2. run' = [run EXCEPT ![r] = x] /\ draft' = draft
  BY DEF Rerun
<1>3. Packed(x)
  BY <1>1, FreshIsPacked
<1>4. QED
  BY <1>1, <1>2, <1>3, UpdateKeepsPack

(* Whatever a job left, its manifest still tells what it was written of. *)
LEMMA ResumeKeepsPack ==
    ASSUME PackInv, NEW r \in Runs, Resume(r)
    PROVE  PackInv'
<1>1. PICK p \in {"normalize", "verify", "publish"} :
          run' = [run EXCEPT ![r].pc = p, ![r].uploaded = {}]
  BY DEF Resume
<1> DEFINE x == [run[r] EXCEPT !.pc = p, !.uploaded = {}]
<1>2. run' = [run EXCEPT ![r] = x] /\ draft' = draft
  BY <1>1 DEF PackInv, RunsShaped, Resume
<1>3. Shaped(x) /\ x.pc = p /\ x.manifest = run[r].manifest
  BY DEF PackInv, RunsShaped, Shaped, Fields
<1> HIDE DEF x
<1>4. Packed(x)
  BY <1>3 DEF PackInv, Packed
<1>5. QED
  BY <1>2, <1>3, <1>4, UpdateKeepsPack

LEMMA FetchKeepsPack ==
    ASSUME PackInv, NEW r \in Runs, Fetch(r)
    PROVE  PackInv'
<1>1. draft' = draft
  BY DEF Fetch
<1>2. CASE \E p \in {"unbumped", "done"} : Go(r, p)
  BY <1>1, <1>2, MoveKeepsPack
<1>3. CASE run' = [run EXCEPT ![r].pc = "push", ![r].tip = branch, ![r].attempt = @ + 1]
  <2> DEFINE x == [run[r] EXCEPT !.pc = "push", !.tip = branch, !.attempt = @ + 1]
  <2>1. run' = [run EXCEPT ![r] = x]
    BY <1>3 DEF PackInv, RunsShaped
  <2>2. Shaped(x) /\ x.pc = "push" /\ x.manifest = run[r].manifest
    BY DEF PackInv, RunsShaped, Shaped, Fields
  <2> HIDE DEF x
  <2>3. Packed(x)
    BY <2>2 DEF PackInv, Packed
  <2>4. QED
    BY <1>1, <2>1, <2>2, <2>3, UpdateKeepsPack
<1>4. QED
  BY <1>2, <1>3 DEF Fetch

LEMMA PackNext == PackInv /\ [Next]_vars => PackInv'
<1> SUFFICES ASSUME PackInv, [Next]_vars PROVE PackInv'
  OBVIOUS
<1>1. ASSUME NEW r \in Runs, Step(r) PROVE PackInv'
  <2>1. CASE Configure(r) \/ Compose(r) \/ Push(r) \/ BumpFails(r) \/ JobFails(r)
    <3>1. /\ draft' = draft
          /\ \E p \in {"compose", "refused", "package", "unbumped", "bump", "done", "failed"} : Go(r, p)
      BY <2>1 DEF Configure, Compose, Push, Again, BumpFails, JobFails
    <3>2. QED
      BY <3>1, MoveKeepsPack
  <2>2. QED
    BY <1>1, <2>1, ChecksKeepPack, PackagesKeepPack, PlanKeepsPack, RenameKeepsPack,
       RecordKeepsPack, UploadKeepsPack, RequestKeepsPack, RerunKeepsPack, ResumeKeepsPack,
       FetchKeepsPack DEF Step
<1>2. CASE PushOther \/ Rewrite \/ UNCHANGED vars
  <2>1. run' = run /\ draft' = draft
    BY <1>2 DEF PushOther, Rewrite, vars
  <2>2. QED
    BY <2>1 DEF PackInv, RunsShaped, AssetsAreAudited
<1>3. QED
  BY <1>1, <1>2 DEF Next

(* Whatever the packages hold, wherever a job stops - between two renames,  *)
(* or with a manifest nobody has audited - and whoever uses its workspace   *)
(* again or changes a package between two steps, every asset of the draft   *)
(* has its public name and what the audit wants of it (verified_files,      *)
(* verify_linux_packages, upload).                                          *)
THEOREM DraftIsAudited == Spec => []AssetsAreAudited
<1>1. PackInv => AssetsAreAudited
  BY DEF PackInv
<1>2. QED
  BY <1>1, PackInit, PackNext, PTL DEF Spec

-----------------------------------------------------------------------------
(* The upload of the debug files: SymbolUpload.                             *)

(* What the server listed it has processed, and what is no longer pending    *)
(* it has listed.                                                           *)
RowsAreServed ==
    /\ rows = [d \in Idents |-> rows[d]]
    /\ \A d \in Idents : rows[d] \subseteq served
UploadInv ==
    /\ RowsAreServed
    /\ pending \subseteq Items /\ Items \ pending \subseteq served
    /\ status = "uploaded_and_processed" => pending = {}

LEMMA UploadInvInit == UploadInit => UploadInv
  BY DEF UploadInit, UploadInv, RowsAreServed

(* The server never unlists a file, so the rows it answered stay true.       *)
LEMMA ServerOnlyGains ==
    ASSUME UploadInv, served \subseteq served', UNCHANGED <<rows, pending, status>>
    PROVE  UploadInv'
  BY DEF UploadInv, RowsAreServed

LEMMA UploadInvNext == UploadInv /\ [UploadNext]_(uploadVars) => UploadInv'
<1> SUFFICES ASSUME UploadInv, [UploadNext]_(uploadVars) PROVE UploadInv'
  OBVIOUS
<1> USE DEF cliVars, serverVars, roundVars
<1>1. CASE UNCHANGED uploadVars
  BY <1>1, ServerOnlyGains DEF uploadVars
<1>2. ASSUME NEW i \in Items, Receive(i) \/ Process(i) PROVE UploadInv'
  BY <1>2, ServerOnlyGains DEF Receive, Process
<1>3. ASSUME NEW c \in CliCategories, CliExits(c) PROVE UploadInv'
  BY <1>3 DEF CliExits, Confirms, UploadFails, UploadInv, RowsAreServed
<1>4. CASE Tick
  BY <1>4, ServerOnlyGains DEF Tick
<1>5. CASE Stage \/ RunCli \/ CliTimesOut \/ Retry \/ CliSlept
  BY <1>5 DEF Stage, RunCli, CliTimesOut, Retry, CliSlept,
     UploadFails, UploadInv, RowsAreServed
<1>6. CASE Round \/ PoolCloses \/ RoundEnds \/ Slept
  BY <1>6 DEF Round, PoolCloses, RoundEnds, Slept, SleepOrGiveUp,
     UploadFails, UploadInv, RowsAreServed
<1>7. ASSUME NEW d \in Idents, Ask(d) PROVE UploadInv'
  BY <1>7, ServerOnlyGains DEF Ask
<1>8. ASSUME NEW d \in Idents, NEW a, Answer(d, a) PROVE UploadInv'
  <2>1. /\ UNCHANGED <<served, pending, status>>
        /\ rows' = [rows EXCEPT ![d] = IF a = "rows"
                                       THEN {i \in served : IdentOf(i) = d} ELSE {}]
    BY <1>8 DEF Answer
  <2> QED
    BY <2>1 DEF UploadInv, RowsAreServed
<1>9. ASSUME NEW d \in Idents, Consume(d) PROVE UploadInv'
  <2>1. UNCHANGED <<served, status>> /\ rows' = [rows EXCEPT ![d] = {}]
    BY <1>9 DEF Consume
  <2>2. pending' = pending \/ pending' = pending \ (pending \cap rows[d])
    BY <1>9 DEF Consume, Confirmed
  <2> QED
    BY <2>1, <2>2 DEF UploadInv, RowsAreServed
<1> QED
  BY <1>1, <1>2, <1>3, <1>4, <1>5, <1>6, <1>7, <1>8, <1>9
  DEF UploadNext, Program, World

(* Whatever the CLI claims, however often it is run and wherever the         *)
(* confirmation stops, a release that is called uploaded has been processed  *)
(* by the server and a file that is no longer called missing was listed      *)
(* (confirm_symbol_inventory).                                              *)
THEOREM UploadsAreServed == UploadSpec => []ReportIsHonest
<1>1. UploadInv => ReportIsHonest
  BY DEF UploadInv, ReportIsHonest, UploadedIsServed, MissingIsHonest
<1> QED
  BY <1>1, UploadInvInit, UploadInvNext, PTL DEF UploadSpec

-----------------------------------------------------------------------------
(* The time and the types of an upload: SymbolUpload.                        *)

Uploading == {"cli", "uploading", "cliFailed", "cliSleep"}
Confirming == {"round", "pool", "failing", "sleep"}

(* What the program itself waits for ends within the budget of its phase. *)
UploadClocked ==
    /\ PausesInTime
    /\ uploadPc = "stage" => now = 0
    /\ uploadPc \in Uploading => due = UploadBudget
    /\ uploadPc \in Uploading \cup {"stage"} => ~HandedOver
    /\ uploadPc \in Confirming => HandedOver /\ due = ConfirmBudget
    /\ uploadPc \in {"cliSleep", "sleep"} => until <= due

UploadTyped == UploadTypeOK /\ UploadClocked

LEMMA UploadSizes ==
    /\ UploadBudget \in Nat /\ CliDelay \in Nat /\ ConfirmBudget \in Nat
    /\ RoundDelay \in Nat /\ RetryAfter \in Nat /\ MaxRounds \in Nat
    /\ CliTries \in Nat /\ CliTries >= 1 /\ Idents \subseteq Nat
BY UploadAssumption

LEMMA UploadTypedInit == UploadInit => UploadTyped
<1> SUFFICES ASSUME UploadInit PROVE UploadTyped
  OBVIOUS
<1>1. UploadTypeOK
  BY UploadSizes DEF UploadInit, UploadTypeOK, CliCategories
<1>2. UploadClocked
  BY UploadSizes DEF UploadInit, UploadClocked, PausesInTime, HandedOver, Uploading, Confirming
<1> QED
  BY <1>1, <1>2 DEF UploadTyped

LEMMA ServerStepsTyped ==
    ASSUME UploadTyped, (\E i \in Items : Receive(i) \/ Process(i)) \/ UNCHANGED uploadVars
    PROVE  UploadTyped'
<1>1. /\ UNCHANGED <<now, uploadPc, due, until, try, category, pending, rounds, query, rows, delay, status>>
      /\ accepted' \subseteq Items /\ served' \subseteq accepted'
  BY DEF Receive, Process, UploadTyped, UploadTypeOK, uploadVars, cliVars, serverVars, roundVars
<1> QED
  BY <1>1 DEF UploadTyped, UploadTypeOK, UploadClocked, PausesInTime, HandedOver, Uploading, Confirming

LEMMA UploadTickTyped == ASSUME UploadTyped, Tick PROVE UploadTyped'
<1>1. /\ now \in Nat /\ now' = now + 1
      /\ UNCHANGED <<uploadPc, due, until, try, category, accepted, served, pending, rounds, query, rows,
                     delay, status>>
  BY DEF Tick, UploadTyped, UploadTypeOK, cliVars, serverVars, roundVars
<1>2. UploadTypeOK'
  BY <1>1 DEF UploadTyped, UploadTypeOK
<1>3. PausesInTime'
  <2>1. CASE uploadPc \in {"uploading", "cliSleep"}
    <3>1. ~HandedOver /\ due = UploadBudget /\ (uploadPc = "cliSleep" => until <= due)
          /\ due \in Nat /\ until \in Nat
      BY <2>1 DEF UploadTyped, UploadTypeOK, UploadClocked, Uploading
    <3>2. now < due \/ (uploadPc = "cliSleep" /\ now < until)
      BY <2>1 DEF Tick
    <3> QED
      BY <1>1, <2>1, <3>1, <3>2, UploadSizes DEF PausesInTime, HandedOver
  <2>2. CASE uploadPc = "sleep"
    BY <1>1, <2>2, UploadSizes
       DEF Tick, UploadTyped, UploadTypeOK, UploadClocked, PausesInTime, HandedOver, Confirming
  <2>3. CASE uploadPc \in {"pool", "failing"}
    BY <1>1, <2>3 DEF UploadTyped, UploadClocked, PausesInTime, HandedOver, Confirming
  <2> QED
    BY <2>1, <2>2, <2>3 DEF Tick
<1>4. uploadPc # "stage"
  BY DEF Tick
<1> QED
  BY <1>1, <1>2, <1>3, <1>4 DEF UploadTyped, UploadClocked, HandedOver, Uploading, Confirming

LEMMA CliStepsTyped ==
    ASSUME UploadTyped, Stage \/ RunCli \/ CliTimesOut \/ Retry \/ CliSlept
    PROVE  UploadTyped'
<1>1. /\ now' = now /\ now \in Nat /\ due \in Nat /\ until \in Nat /\ try \in 0..(CliTries - 1)
      /\ UNCHANGED <<accepted, served, pending, rounds, query, rows, delay>>
  BY DEF Stage, RunCli, CliTimesOut, Retry, CliSlept, UploadTyped, UploadTypeOK, serverVars, roundVars
<1>2. /\ uploadPc \in Uploading \cup {"stage"} /\ ~HandedOver
      /\ uploadPc' \in Uploading \cup {"done"}
      /\ category' \in {category, "cli_timeout"}
      /\ status' \in {status, "failed"}
  BY DEF Stage, RunCli, CliTimesOut, Retry, CliSlept, UploadFails, UploadTyped, UploadClocked, Uploading, cliVars
<1>3. ~HandedOver'
  BY <1>2 DEF HandedOver
<1>4. /\ due' \in Nat /\ until' \in Nat /\ try' \in 0..(CliTries - 1)
      /\ uploadPc' \in Uploading => due' = UploadBudget
      /\ uploadPc' = "cliSleep" => until' <= due'
  <2>1. CASE Stage
    BY <1>1, <2>1, UploadSizes DEF Stage, UploadFails, UploadTyped, UploadClocked, Uploading, cliVars
  <2>2. CASE RunCli \/ CliTimesOut \/ CliSlept
    BY <1>1, <2>2, UploadSizes
       DEF RunCli, CliTimesOut, CliSlept, UploadFails, UploadTyped, UploadClocked, Uploading, cliVars
  <2>3. CASE Retry
    <3>1. due' = due /\ due = UploadBudget
      BY <2>3 DEF Retry, UploadTyped, UploadClocked, Uploading
    <3>2. \/ uploadPc' = "done" /\ UNCHANGED <<until, try>>
          \/ /\ ~(try = CliTries - 1) /\ ~(due - now <= CliDelay)
             /\ until' = now + CliDelay /\ try' = try + 1
      BY <2>3 DEF Retry, UploadFails
    <3> QED
      BY <1>1, <3>1, <3>2, UploadSizes
  <2> QED
    BY <2>1, <2>2, <2>3
<1>5. UploadTypeOK'
  BY <1>1, <1>2, <1>4 DEF UploadTyped, UploadTypeOK, Uploading
<1>6. uploadPc' \notin Confirming \cup {"stage", "sleep"}
  BY <1>2 DEF Uploading, Confirming
<1>7. PausesInTime'
  BY <1>1, <1>2, <1>3, <1>6 DEF UploadTyped, UploadClocked, PausesInTime
<1> QED
  BY <1>1, <1>3, <1>4, <1>5, <1>6, <1>7 DEF UploadTyped, UploadClocked

LEMMA CliExitsTyped == ASSUME UploadTyped, NEW c \in CliCategories, CliExits(c) PROVE UploadTyped'
<1>1. /\ uploadPc = "uploading" /\ now < due /\ now \in Nat /\ due \in Nat /\ category' = c
      /\ UNCHANGED <<until, try, accepted, served, pending, rounds, query, rows, delay>>
      /\ due = UploadBudget /\ ~HandedOver
  BY DEF CliExits, UploadTyped, UploadTypeOK, UploadClocked, Uploading, serverVars, roundVars
<1>2. CASE c \in {"cli_success", "processing_incomplete"}
  <2>1. uploadPc' = "round" /\ now' = 0 /\ due' = ConfirmBudget /\ status' = status
    BY <1>2 DEF CliExits, Confirms, Transient
  <2>2. HandedOver'
    BY <1>1, <1>2 DEF HandedOver
  <2>3. UploadTypeOK'
    BY <1>1, <2>1, UploadSizes DEF UploadTyped, UploadTypeOK
  <2> QED
    BY <1>1, <2>1, <2>2, <2>3, UploadSizes DEF UploadTyped, UploadClocked, PausesInTime, Uploading, Confirming
<1>3. CASE c \notin {"cli_success", "processing_incomplete"}
  <2>1. uploadPc' \in {"cliFailed", "done"} /\ UNCHANGED <<now, due>> /\ status' \in {status, "failed"}
    BY <1>3 DEF CliExits, UploadFails
  <2>2. ~HandedOver'
    BY <1>1, <1>3 DEF HandedOver
  <2>3. UploadTypeOK'
    BY <1>1, <2>1 DEF UploadTyped, UploadTypeOK
  <2> QED
    BY <1>1, <2>1, <2>2, <2>3 DEF UploadTyped, UploadClocked, PausesInTime, Uploading, Confirming
<1> QED
  BY <1>2, <1>3

(* A step of the confirmation that only sets when the program sleeps. *)
LEMMA ConfirmingSteps ==
    ASSUME UploadTyped, UploadTypeOK', uploadPc \in Confirming,
           UNCHANGED <<now, due, category>>, uploadPc' \in Confirming \cup {"done"},
           uploadPc' = "sleep" => until' <= due /\ now <= due
    PROVE  UploadTyped'
BY DEF UploadTyped, UploadClocked, PausesInTime, HandedOver, Uploading, Confirming

LEMMA RoundTyped == ASSUME UploadTyped, Round \/ PoolCloses \/ RoundEnds \/ Slept PROVE UploadTyped'
<1>1. /\ uploadPc \in Confirming /\ UNCHANGED <<now, due, try, category, accepted, served, pending, rows>>
      /\ uploadPc' \in Confirming \cup {"done"} /\ status' \in {status, "failed", "uploaded_and_processed"}
      /\ now \in Nat /\ due \in Nat /\ delay \in Nat
  BY DEF Round, PoolCloses, RoundEnds, Slept, SleepOrGiveUp, UploadFails, Confirming, UploadTyped, UploadTypeOK,
         cliVars, serverVars, roundVars
<1>2. /\ until' \in Nat /\ delay' \in Nat
      /\ uploadPc' = "sleep" => until' <= due /\ now <= due
  <2>1. CASE Round \/ PoolCloses \/ Slept
    BY <2>1, UploadSizes DEF Round, PoolCloses, Slept, UploadFails, UploadTyped, UploadTypeOK, roundVars
  <2>2. CASE RoundEnds
    <3>1. /\ delay' = delay
          /\ \/ uploadPc' = "done" /\ until' = until
             \/ ~(now >= due \/ delay >= due - now) /\ until' = now + delay
      BY <2>2 DEF RoundEnds, SleepOrGiveUp, UploadFails, roundVars
    <3> QED
      BY <1>1, <3>1 DEF UploadTyped, UploadTypeOK
  <2> QED
    BY <2>1, <2>2
<1>3. /\ rounds' \in 0..MaxRounds
      /\ query' \in [Idents -> {"none", "queued", "busy", "consumed"} \cup Answers]
  <2>1. CASE Round
    <3>1. \/ UNCHANGED <<rounds, query>>
          \/ /\ rounds < MaxRounds /\ rounds' = rounds + 1
             /\ query' = [d \in Idents |-> IF d \in Outstanding THEN "queued" ELSE "none"]
      BY <2>1 DEF Round
    <3>2. rounds' \in 0..MaxRounds
      BY <3>1, UploadSizes DEF UploadTyped, UploadTypeOK
    <3> QED
      BY <3>1, <3>2 DEF UploadTyped, UploadTypeOK
  <2>2. CASE PoolCloses \/ RoundEnds \/ Slept
    BY <2>2 DEF PoolCloses, RoundEnds, Slept, roundVars, UploadTyped, UploadTypeOK
  <2> QED
    BY <2>1, <2>2
<1>4. UploadTypeOK'
  BY <1>1, <1>2, <1>3 DEF UploadTyped, UploadTypeOK, Confirming
<1> QED
  BY <1>1, <1>2, <1>4, ConfirmingSteps

LEMMA AskTyped == ASSUME UploadTyped, NEW d \in Idents, Ask(d) PROVE UploadTyped'
<1>1. /\ uploadPc = "pool"
      /\ query' = [query EXCEPT ![d] = IF now >= due THEN "confirmation_deadline" ELSE "busy"]
      /\ UNCHANGED <<now, uploadPc, due, until, try, category, accepted, served, pending, rounds, rows, delay, status>>
  BY DEF Ask, cliVars, serverVars
<1>2. query' \in [Idents -> {"none", "queued", "busy", "consumed"} \cup Answers]
  BY <1>1 DEF UploadTyped, UploadTypeOK, Answers, Tolerated
<1>3. UploadTypeOK'
  BY <1>1, <1>2 DEF UploadTyped, UploadTypeOK
<1> QED
  BY <1>1, <1>3, ConfirmingSteps DEF Confirming

LEMMA AnswerTyped ==
    ASSUME UploadTyped, NEW d \in Idents, NEW a \in {"rows", "rejected", "rate_limited"} \cup Transient, Answer(d, a)
    PROVE  UploadTyped'
<1>1. /\ query' = [query EXCEPT ![d] = a]
      /\ rows' = [rows EXCEPT ![d] = IF a = "rows" THEN {i \in served : IdentOf(i) = d} ELSE {}]
      /\ UNCHANGED <<now, uploadPc, due, until, try, category, accepted, served, pending, rounds, delay, status>>
  BY DEF Answer, cliVars, serverVars
<1>2. a \in Answers
  BY DEF Answers, Tolerated, Transient
<1>3. rows' \in [Idents -> SUBSET Items]
  <2>1. served \subseteq Items
    BY DEF UploadTyped, UploadTypeOK
  <2> QED
    BY <1>1, <2>1 DEF UploadTyped, UploadTypeOK
<1>4. query' \in [Idents -> {"none", "queued", "busy", "consumed"} \cup Answers]
  BY <1>1, <1>2 DEF UploadTyped, UploadTypeOK
<1>5. UploadTypeOK'
  BY <1>1, <1>3, <1>4 DEF UploadTyped, UploadTypeOK
<1> QED
  BY <1>1, <1>5 DEF UploadTyped, UploadClocked, PausesInTime, HandedOver

LEMMA ConsumeTyped == ASSUME UploadTyped, NEW d \in Idents, Consume(d) PROVE UploadTyped'
<1>1. /\ uploadPc = "pool" /\ query' = [query EXCEPT ![d] = "consumed"] /\ rows' = [rows EXCEPT ![d] = {}]
      /\ UNCHANGED <<now, due, until, try, category, accepted, served, rounds, status>>
      /\ pending' \subseteq pending /\ uploadPc' \in {"pool", "failing"}
      /\ delay' \in {delay, Latest(delay, RetryAfter)}
  BY DEF Consume, cliVars, serverVars
<1>2. delay' \in Nat
  BY <1>1, UploadSizes DEF Latest, UploadTyped, UploadTypeOK
<1>3. rows' \in [Idents -> SUBSET Items]
      /\ query' \in [Idents -> {"none", "queued", "busy", "consumed"} \cup Answers]
  BY <1>1 DEF UploadTyped, UploadTypeOK
<1>4. UploadTypeOK'
  BY <1>1, <1>2, <1>3 DEF UploadTyped, UploadTypeOK
<1> QED
  BY <1>1, <1>4, ConfirmingSteps DEF Confirming

LEMMA UploadTypedNext == UploadTyped /\ [UploadNext]_uploadVars => UploadTyped'
<1> SUFFICES ASSUME UploadTyped, [UploadNext]_uploadVars PROVE UploadTyped'
  OBVIOUS
<1>1. CASE Program
  BY <1>1, CliStepsTyped, RoundTyped, AskTyped, ConsumeTyped DEF Program
<1>2. CASE Tick \/ UNCHANGED uploadVars
  BY <1>2, UploadTickTyped, ServerStepsTyped
<1>3. CASE World
  BY <1>3, ServerStepsTyped, CliExitsTyped, AnswerTyped DEF World
<1> QED
  BY <1>1, <1>2, <1>3 DEF UploadNext

(* The state of the program, of its pool and of the server keeps its types. *)
THEOREM UploadTypesStay == UploadSpec => []UploadTypeOK
<1>1. UploadTyped => UploadTypeOK
  BY DEF UploadTyped
<1> QED
  BY <1>1, UploadTypedInit, UploadTypedNext, PTL DEF UploadSpec

(* Every attempt of the CLI and every pause between two fit into one budget, *)
(* and no pause of the confirmation outlasts its own, whatever the server    *)
(* asks it to wait and however long the requests took (run_cli,              *)
(* confirm_symbol_inventory).                                               *)
THEOREM PausesStayInTime == UploadSpec => []PausesInTime
<1>1. UploadTyped => PausesInTime
  BY DEF UploadTyped, UploadClocked
<1> QED
  BY <1>1, UploadTypedInit, UploadTypedNext, PTL DEF UploadSpec

-----------------------------------------------------------------------------
(* The debug symbols of an Android, Linux or Windows release: ReleaseSymbols. *)

(* A module is a package, an architecture and a name. *)
ModulesShaped ==
    \A m \in DOMAIN shipped :
        /\ m = <<m[1], m[2], m[3]>> /\ m[1] \in PackagesOf(platform)
        /\ m[2] \in ArchesOf(platform) /\ m[3] \in Names /\ shipped[m] \in Builds

(* A companion of the manifest is one of some copy, and Windows has no such   *)
(* manifest.                                                                *)
ManifestShaped ==
    /\ \A m \in DOMAIN artifacts : artifacts[m] # {}
    /\ platform = "windows" => DOMAIN artifacts = {}
    /\ ManifestIsPrepared

Sent ==
    (IF platform = "windows" THEN declared \X {Desktop} ELSE DOMAIN artifacts)
    \cup ({"split"} \X DOMAIN splits)

(* The files may only change where nothing has been accepted: what an audit   *)
(* accepted is still there, and would still be accepted.                    *)
AcceptedIsFresh ==
    /\ pc \in {"configure", "prepare", "preparing", "audit"} => uploads = {}
    /\ Accepted => SymbolsAudited /\ uploads = Sent

(* A success is reported by an audit alone, and one that accepted has sent    *)
(* something.                                                               *)
SuccessIsCurrent == EvidenceIsCurrent /\ (pc = "complete" => uploads # {})

SymbolsInv ==
    /\ platform \in {"android", "linux", "windows"}
    /\ ModulesShaped /\ ManifestShaped /\ AcceptedIsFresh /\ SuccessIsCurrent

LEMMA SymbolsInvInit == SymbolsInit => SymbolsInv
<1> SUFFICES ASSUME SymbolsInit PROVE SymbolsInv
  OBVIOUS
<1>1. ModulesShaped
  BY DEF SymbolsInit, NamesOf, ArchesOf, PackagesOf, Builds, ModulesShaped
<1>2. ManifestShaped
  BY DEF SymbolsInit, EmptyMap, ManifestIsPrepared, ManifestShaped
<1> QED
  BY <1>1, <1>2
  DEF SymbolsInit, NoReport, Accepted, Success, EvidenceIsCurrent, AcceptedIsFresh,
      SuccessIsCurrent, SymbolsInv

(* The audit looks at nothing but the files. *)
LEMMA SameFilesSameAudit ==
    ASSUME UNCHANGED inputs, UNCHANGED manifest
    PROVE  (SymbolsAudited' <=> SymbolsAudited) /\ Sent' = Sent
<1>1. UNCHANGED <<platform, expected, shipped, local, declared, splits, artifacts, required,
                  limits, companions>>
  BY DEF inputs, manifest
<1>2. \A k, a, n : Holds(k, a, n)' <=> Holds(k, a, n)
  BY <1>1 DEF Holds
<1>3. \A k, a : Flutter(k, a)' <=> Flutter(k, a)
  BY <1>1, <1>2 DEF Flutter
<1>18. Places' = Places
  BY <1>1, <1>3 DEF Places
<1>4. \A n, a : Copies(n, a)' = Copies(n, a)
  BY <1>1, <1>2, <1>3 DEF Copies
<1>5. \A n, a : BuildsOf(n, a)' = BuildsOf(n, a)
  BY <1>1, <1>4 DEF BuildsOf
<1>6. Bundled' = Bundled
  BY <1>4 DEF Bundled
<1>7. LinuxRequired' = LinuxRequired
  BY <1>1, <1>6 DEF LinuxRequired
<1>8. \A m, b : HasLines(m, b)' <=> HasLines(m, b)
  BY <1>1 DEF HasLines
<1>9. LinuxInventory' <=> LinuxInventory
  BY <1>1, <1>4, <1>5, <1>6, <1>8 DEF LinuxInventory
<1>10. ManifestAudited' <=> ManifestAudited
  <2>1. \A m : CompanionAudited(m)' <=> CompanionAudited(m)
    BY <1>1 DEF CompanionAudited
  <2>2. Mandatory' = Mandatory
    BY <1>1 DEF Mandatory
  <2> QED
    BY <1>1, <2>1, <2>2 DEF ManifestAudited
<1>11. ExpectedOnAndroid' = ExpectedOnAndroid
  BY <1>4 DEF ExpectedOnAndroid
<1>12. InventoryAudited' <=> InventoryAudited
  BY <1>1, <1>2, <1>18, <1>4, <1>5, <1>7, <1>9, <1>11 DEF InventoryAudited
<1>13. WindowsAudited' <=> WindowsAudited
  BY <1>1, <1>5, <1>6 DEF WindowsAudited, Pdb
<1>14. DartHomes' = DartHomes
  BY <1>1, <1>18 DEF DartHomes
<1>15. SplitsAudited' <=> SplitsAudited
  BY <1>1, <1>2, <1>14 DEF SplitsAudited
<1>16. SymbolsAudited' <=> SymbolsAudited
  BY <1>1, <1>10, <1>12, <1>13, <1>15 DEF SymbolsAudited
<1>17. Sent' = Sent
  BY <1>1 DEF Sent
<1> QED
  BY <1>16, <1>17

LEMMA SymbolsInvNext == SymbolsInv /\ [SymbolsNext]_(symbolsVars) => SymbolsInv'
<1> SUFFICES ASSUME SymbolsInv, [SymbolsNext]_(symbolsVars) PROVE SymbolsInv'
  OBVIOUS
<1> USE DEF inputs, manifest, coordinator, Success, SuccessIsCurrent, EvidenceIsCurrent
<1>a. /\ platform \in {"android", "linux", "windows"}
      /\ ModulesShaped /\ ManifestShaped /\ AcceptedIsFresh /\ SuccessIsCurrent
  BY DEF SymbolsInv
(* While the files stay, so do what was accepted and what has to be shown of it. *)
<1>b. ASSUME UNCHANGED <<inputs, manifest, prepared>>,
             AcceptedIsFresh', SuccessIsCurrent'
      PROVE  SymbolsInv'
  <2>1. ModulesShaped'
    BY <1>a, <1>b DEF ModulesShaped
  <2>2. ManifestShaped'
    BY <1>a, <1>b DEF ManifestShaped, ManifestIsPrepared
  <2> QED
    BY <1>a, <1>b, <2>1, <2>2 DEF SymbolsInv
<1>1. CASE UNCHANGED symbolsVars
  <2>1. UNCHANGED <<inputs, manifest, prepared, pc, upload, uploads, evidence, runs>>
    BY <1>1 DEF symbolsVars
  <2>2. AcceptedIsFresh'
    BY <1>a, <2>1, SameFilesSameAudit DEF AcceptedIsFresh, Accepted
  <2>3. SuccessIsCurrent'
    BY <1>a, <2>1
  <2> QED
    BY <1>b, <2>1, <2>2, <2>3
<1>2. CASE Change
  <2>1. /\ pc \in {"audit", "idle"}
        /\ UNCHANGED <<platform, prepared, pc, upload, uploads, evidence, runs>>
    BY <1>2 DEF Change
  <2>2. ModulesShaped'
    <3>1. CASE shipped' = shipped
      BY <1>a, <2>1, <3>1 DEF ModulesShaped
    <3>2. CASE ModulesChange
      BY <1>a, <2>1, <3>2 DEF ModulesChange, Without, ModulesShaped
    <3> QED
      BY <1>2, <3>1, <3>2 DEF Change
  <2>3. ManifestShaped'
    <3>1. CASE artifacts' = artifacts
      BY <1>a, <2>1, <3>1 DEF ManifestShaped, ManifestIsPrepared
    <3>2. ASSUME NEW m \in DOMAIN artifacts, artifacts' = Without(artifacts, m)
          PROVE  ManifestShaped'
      <4>1. /\ DOMAIN artifacts' \subseteq DOMAIN artifacts
            /\ \A x \in DOMAIN artifacts' : artifacts'[x] = artifacts[x]
        BY <3>2 DEF Without
      <4> QED
        BY <1>a, <2>1, <4>1 DEF ManifestShaped, ManifestIsPrepared
    <3> QED
      BY <1>2, <3>1, <3>2 DEF Change
  <2>4. AcceptedIsFresh' /\ SuccessIsCurrent'
    BY <1>a, <2>1 DEF AcceptedIsFresh, Accepted
  <2> QED
    BY <1>a, <2>1, <2>2, <2>3, <2>4 DEF SymbolsInv
<1>3. CASE Start
  <2>1. AcceptedIsFresh' /\ SuccessIsCurrent'
    BY <1>3 DEF Start, NoReport, AcceptedIsFresh, Accepted
  <2> QED
    BY <1>b, <1>3, <2>1 DEF Start
<1>4. CASE ConfigureSymbols
  <2>1. uploads = {} /\ uploads' = {}
    BY <1>a, <1>4 DEF ConfigureSymbols, AcceptedIsFresh
  <2>2. AcceptedIsFresh' /\ SuccessIsCurrent'
    BY <1>a, <1>4, <2>1 DEF ConfigureSymbols, Records, AcceptedIsFresh, Accepted
  <2> QED
    BY <1>b, <1>4, <2>2 DEF ConfigureSymbols
<1>5. CASE Prepare
  <2>1. ModulesShaped'
    BY <1>a, <1>5 DEF Prepare, ModulesShaped
  <2>2. ManifestShaped'
    BY <1>a, <1>5 DEF Prepare, EmptyMap, ManifestIsPrepared, ManifestShaped
  <2>3. AcceptedIsFresh' /\ SuccessIsCurrent'
    BY <1>a, <1>5 DEF Prepare, AcceptedIsFresh, Accepted
  <2> QED
    BY <1>a, <1>5, <2>1, <2>2, <2>3 DEF Prepare, SymbolsInv
<1>6. CASE PrepareEnds
  <2>1. ModulesShaped'
    BY <1>a, <1>6 DEF PrepareEnds, ModulesShaped
  <2>2. ManifestShaped'
    <3>1. CASE WritesManifest /\ platform # "windows" /\ prepared' = "done"
      <4>1. \A n, a : Paired(n, a) # {} => CopiesOf(n, a) # {}
        BY DEF CopiesOf, Paired
      <4> QED
        BY <1>6, <3>1, <4>1
        DEF PrepareEnds, WritesManifest, ManifestIsPrepared, ManifestShaped
    <3>2. CASE artifacts' = artifacts /\ prepared' \in {prepared, "done"}
      BY <1>a, <1>6, <3>2 DEF PrepareEnds, ManifestIsPrepared, ManifestShaped
    <3> QED
      BY <1>6, <3>1, <3>2 DEF PrepareEnds, AddsTargets
  <2>3. AcceptedIsFresh' /\ SuccessIsCurrent'
    BY <1>a, <1>6 DEF PrepareEnds, AcceptedIsFresh, Accepted
  <2> QED
    BY <1>a, <1>6, <2>1, <2>2, <2>3 DEF PrepareEnds, SymbolsInv
<1>7. CASE AuditSymbols
  <2>1. UNCHANGED <<inputs, manifest, prepared, upload, runs>> /\ pc = "audit"
    BY <1>7 DEF AuditSymbols
  <2>2. CASE /\ SymbolsAudited /\ Accepts /\ pc' \in {"complete", "fail"}
             /\ Records(Passed(upload)) \/ Records("audited")
    <3>1. Sent # {}
      <4>1. PICK x : x \in DartHomes
        BY <2>2 DEF SymbolsAudited, SplitsAudited
      <4>2. <<"split", x[2]>> \in Sent
        BY <2>2, <4>1 DEF SymbolsAudited, SplitsAudited, Sent
      <4> QED
        BY <4>2
    <3>2. uploads' = Sent
      BY <2>2 DEF Accepts, Sent
    <3>3. AcceptedIsFresh'
      BY <2>1, <2>2, <3>2, SameFilesSameAudit DEF AcceptedIsFresh, Accepted
    <3>4. SuccessIsCurrent'
      BY <2>1, <2>2, <3>1, <3>2 DEF Records
    <3> QED
      BY <1>b, <2>1, <3>3, <3>4
  <2>3. CASE pc' = "fail" /\ UNCHANGED uploads /\ (Records("failed") \/ UNCHANGED evidence)
    <3>1. AcceptedIsFresh' /\ SuccessIsCurrent'
      BY <1>a, <2>1, <2>3 DEF AcceptedIsFresh, Accepted, Records
    <3> QED
      BY <1>b, <2>1, <3>1
  <2> QED
    BY <1>7, <2>2, <2>3 DEF AuditSymbols
<1>8. CASE Complete
  <2>1. /\ UNCHANGED <<inputs, manifest, prepared, uploads, evidence, runs>>
        /\ pc = "complete" /\ pc' \in {"succeeded", "fail"}
    BY <1>8 DEF Complete, EndsWith
  <2>2. AcceptedIsFresh'
    BY <1>a, <2>1, SameFilesSameAudit DEF AcceptedIsFresh, Accepted
  <2>3. SuccessIsCurrent'
    BY <1>a, <2>1
  <2> QED
    BY <1>b, <2>1, <2>2, <2>3
<1>9. CASE Fail \/ Dies \/ RunAgain \/ PrepareFails
  <2>1. AcceptedIsFresh' /\ SuccessIsCurrent'
    BY <1>a, <1>9 DEF Fail, Dies, RunAgain, PrepareFails, EndsWith, Records, AcceptedIsFresh, Accepted
  <2> QED
    BY <1>b, <1>9, <2>1 DEF Fail, Dies, RunAgain, PrepareFails
<1>10. ASSUME NEW o \in orphans, OrphanReports(o) PROVE SymbolsInv'
  <2>1. UNCHANGED <<inputs, manifest, prepared, pc, uploads, runs>>
    BY <1>10 DEF OrphanReports
  <2>2. AcceptedIsFresh'
    BY <1>a, <2>1, SameFilesSameAudit DEF AcceptedIsFresh, Accepted
  <2>3. SuccessIsCurrent'
    BY <1>a, <1>10, <2>1 DEF OrphanReports
  <2> QED
    BY <1>b, <2>1, <2>2, <2>3
<1> QED
  BY <1>1, <1>2, <1>3, <1>4, <1>5, <1>6, <1>7, <1>8, <1>9, <1>10 DEF SymbolsNext

(* The copies of a module the audit expects have one build. *)
LEMMA OneBuild ==
    ASSUME ModulesShaped, NEW n, NEW a, NEW k \in Copies(n, a),
           NEW j \in Copies(n, a), Cardinality(BuildsOf(n, a)) = 1
    PROVE  shipped[<<k, a, n>>] = shipped[<<j, a, n>>]
<1>1. BuildsOf(n, a) \subseteq 0..2
  BY DEF BuildsOf, Copies, Holds, Builds, ModulesShaped
<1>2. IsFiniteSet(BuildsOf(n, a))
  <2>1. IsFiniteSet(0..2)
    <3>1. 0 \in Int /\ 2 \in Int
      OBVIOUS
    <3> QED
      BY <3>1, FS_Interval
  <2> QED
    BY <1>1, <2>1, FS_Subset
<1>3. PICK x : BuildsOf(n, a) = {x}
  BY <1>2, FS_Singleton
<1> QED
  BY <1>3 DEF BuildsOf

(* So have those of any module of a Linux bundle. *)
LEMMA OneBuildOnLinux ==
    ASSUME IsFiniteSet(Packages), platform = "linux", LinuxInventory, NEW n \in Bundled,
           NEW k \in Copies(n, Desktop), NEW j \in Copies(n, Desktop)
    PROVE  shipped[<<k, Desktop, n>>] = shipped[<<j, Desktop, n>>]
<1>1. CASE Cardinality(Copies(n, Desktop)) = 1
  <2>1. IsFiniteSet(Copies(n, Desktop))
    <3>1. Copies(n, Desktop) \subseteq Packages
      BY DEF Copies, PackagesOf
    <3> QED
      BY <3>1, FS_Subset
  <2>2. PICK x : Copies(n, Desktop) = {x}
    BY <1>1, <2>1, FS_Singleton
  <2> QED
    BY <2>2
<1>2. CASE \E b \in Builds \ {0} : BuildsOf(n, Desktop) = {b}
  <2>1. {shipped[<<k, Desktop, n>>], shipped[<<j, Desktop, n>>]} \subseteq BuildsOf(n, Desktop)
    BY DEF BuildsOf
  <2> QED
    BY <1>2, <2>1
<1> QED
  BY <1>1, <1>2 DEF LinuxInventory

(* What an audit accepts covers the modules that are shipped. *)
CoveredBy(m, c) ==
    /\ c \in Sent
    /\ Companion(c).build = shipped[m] /\ Companion(c).lines
    /\ platform # "windows" => companions[c].unwind

LEMMA AuditedModuleIsCovered ==
    ASSUME IsFiniteSet(Packages), platform \in {"android", "linux", "windows"}, ModulesShaped,
           ManifestShaped, SymbolsAudited, NEW k, NEW a, NEW n,
           <<k, a, n>> \in DOMAIN shipped, k \in Copies(n, a),
           \/ n \in Ours
           \/ platform = "linux" /\ n = "plugin"
              /\ HasLines(<<n, a>>, shipped[<<k, a, n>>])
    PROVE  CoveredBy(<<k, a, n>>, <<n, a>>)
<1>1. n \in Names /\ shipped[<<k, a, n>>] \in Builds
  BY DEF ModulesShaped
<1>2. shipped[<<k, a, n>>] \in BuildsOf(n, a)
  BY DEF BuildsOf
<1>3. a \in ArchesOf(platform)
  BY DEF ModulesShaped
<1>4. CASE platform = "windows"
  <2>1. a = Desktop
    BY <1>3, <1>4 DEF ArchesOf
  <2>2. n \in {"runner", "rust", "helper", "plugin", "sentry"}
    BY <1>4 DEF Ours
  <2>3. WindowsAudited
    BY <1>4 DEF SymbolsAudited
  <2>4. n \in declared
    BY <1>1, <1>2, <2>1, <2>2, <2>3 DEF WindowsAudited, Bundled
  <2>5. BuildsOf(n, Desktop) = {Pdb(n).build} /\ Pdb(n).lines
    BY <2>3, <2>4 DEF WindowsAudited
  <2>6. Companion(<<n, a>>) = Pdb(n)
    BY <1>4 DEF Companion
  <2> QED
    BY <1>2, <1>4, <2>1, <2>4, <2>5, <2>6 DEF Sent, CoveredBy
<1>5. ASSUME platform # "windows", <<n, a>> \in required,
             \A j \in artifacts[<<n, a>>] : shipped[<<j, a, n>>] = shipped[<<k, a, n>>]
      PROVE  CoveredBy(<<k, a, n>>, <<n, a>>)
  <2>1. ManifestAudited
    BY <1>5 DEF SymbolsAudited
  <2>2. <<n, a>> \in DOMAIN artifacts
    BY <1>5, <2>1 DEF ManifestAudited
  <2>3. CompanionAudited(<<n, a>>)
    BY <2>1, <2>2 DEF ManifestAudited
  <2>4. PICK j : j \in artifacts[<<n, a>>]
    BY <2>2 DEF ManifestShaped
  <2>5. shipped[<<j, a, n>>] = companions[<<n, a>>].build
    BY <2>3, <2>4 DEF CompanionAudited
  <2>6. companions[<<n, a>>].lines /\ companions[<<n, a>>].unwind
    BY <2>3 DEF CompanionAudited
  <2>7. Companion(<<n, a>>) = companions[<<n, a>>]
    BY <1>5 DEF Companion
  <2> QED
    BY <1>5, <2>2, <2>4, <2>5, <2>6, <2>7 DEF Sent, CoveredBy
<1>6. CASE platform = "android"
  <2>1. InventoryAudited
    BY <1>6 DEF SymbolsAudited
  <2>2. <<n, a>> \in ExpectedOnAndroid
    BY <1>2, <1>3, <1>6 DEF ExpectedOnAndroid, ArchesOf, Ours
  <2>3. <<n, a>> \in required /\ Cardinality(BuildsOf(n, a)) = 1
    <3>1. /\ ExpectedOnAndroid \subseteq required
          /\ \A m \in ExpectedOnAndroid : Cardinality(BuildsOf(m[1], m[2])) = 1
      BY <1>6, <2>1 DEF InventoryAudited
    <3> QED
      BY <2>2, <3>1
  <2>4. <<n, a>> \in DOMAIN artifacts
    BY <1>6, <2>3 DEF SymbolsAudited, ManifestAudited
  <2>5. artifacts[<<n, a>>] \subseteq Copies(n, a)
    BY <1>6, <2>1, <2>4 DEF InventoryAudited
  <2> QED
    BY <1>2, <1>5, <1>6, <2>3, <2>5, OneBuild
<1>7. CASE platform = "linux"
  <2>1. a = Desktop /\ n \in Bundled
    BY <1>1, <1>2, <1>3, <1>7 DEF ArchesOf, Bundled
  <2>2. /\ InventoryAudited /\ ManifestAudited
        /\ LinuxInventory /\ LinuxRequired \X {Desktop} \subseteq required
    BY <1>7 DEF SymbolsAudited, InventoryAudited
  <2>3. n \in LinuxRequired
    <3>1. CASE n = "plugin" /\ HasLines(<<n, a>>, shipped[<<k, a, n>>])
      BY <1>2, <2>1, <2>2, <3>1 DEF LinuxInventory, LinuxRequired
    <3>2. CASE n \in {"runner", "core", "rust", "helper"}
      BY <2>1, <3>2 DEF LinuxRequired
    <3> QED
      BY <1>7, <3>1, <3>2 DEF Ours
  <2>4. <<n, a>> \in required
    BY <2>1, <2>2, <2>3
  <2>5. artifacts[<<n, a>>] = Copies(n, a)
    BY <1>7, <2>2, <2>4 DEF InventoryAudited, ManifestAudited
  <2>6. \A j \in Copies(n, a) : shipped[<<j, a, n>>] = shipped[<<k, a, n>>]
    BY <1>7, <2>1, <2>2, OneBuildOnLinux
  <2> QED
    BY <1>5, <1>7, <2>4, <2>5, <2>6
<1> QED
  BY <1>4, <1>6, <1>7

LEMMA AuditedDartIsCovered ==
    ASSUME IsFiniteSet(Packages), platform \in {"android", "linux", "windows"}, ModulesShaped,
           SymbolsAudited, NEW k, NEW a,
           <<k, a, "libapp">> \in DOMAIN shipped, k \in Copies("libapp", a)
    PROVE  /\ <<"split", a>> \in Sent
           /\ splits[a].build = shipped[<<k, a, "libapp">>] /\ splits[a].lines
<1>1. a \in ArchesOf(platform) /\ k \in PackagesOf(platform)
  BY DEF ModulesShaped
<1>2. SplitsAudited
  BY DEF SymbolsAudited
<1>3. ASSUME NEW j, <<j, a>> \in DartHomes,
             shipped[<<j, a, "libapp">>] = shipped[<<k, a, "libapp">>]
      PROVE  /\ <<"split", a>> \in Sent
             /\ splits[a].build = shipped[<<k, a, "libapp">>] /\ splits[a].lines
  <2>1. a \in DOMAIN splits
    BY <1>2, <1>3 DEF SplitsAudited
  <2>2. splits[a].lines /\ shipped[<<j, a, "libapp">>] = splits[a].build
    BY <1>2, <1>3, <2>1 DEF SplitsAudited
  <2> QED
    BY <1>3, <2>1, <2>2 DEF Sent
<1>4. <<k, a>> \in Places
  BY <1>1 DEF Places, Copies
<1>5. CASE platform \in {"android", "windows"}
  <2>1. DartHomes = Places
    BY <1>5 DEF DartHomes, SymbolsAudited, WindowsAudited
  <2> QED
    BY <1>3, <1>4, <2>1
<1>6. CASE platform = "linux"
  <2>1. a = Desktop
    BY <1>1, <1>6 DEF ArchesOf
  <2>2. PICK j : <<j, Desktop>> \in DartHomes
    BY <1>2, <1>6 DEF SplitsAudited, DartHomes
  <2>3. Holds(j, Desktop, "libapp")
    BY <1>2, <2>2 DEF SplitsAudited
  <2>4. j \in Copies("libapp", Desktop)
    BY <1>6, <2>3 DEF Holds, Flutter, ModulesShaped, Copies
  <2>5. LinuxInventory /\ "libapp" \in Bundled
    BY <1>6, <2>4 DEF SymbolsAudited, InventoryAudited, Bundled, Names
  <2>6. shipped[<<j, Desktop, "libapp">>] = shipped[<<k, Desktop, "libapp">>]
    BY <1>6, <2>1, <2>4, <2>5, OneBuildOnLinux
  <2> QED
    BY <1>3, <2>1, <2>2, <2>6
<1> QED
  BY <1>5, <1>6

(* Whatever was lost or rebuilt between the steps of a release, every module  *)
(* of our own that an accepted release ships has a companion of its very    *)
(* build, with its lines, and every copy of the Dart code the split debug   *)
(* information of its own (_audit_native_inventory, audit_windows,          *)
(* collect_companions).                                                     *)
THEOREM AcceptedReleaseIsCovered == SymbolsSpec => []AuditedIsCovered
<1>1. SymbolsInv => AuditedIsCovered
  <2> SUFFICES ASSUME SymbolsInv, Accepted, NEW m \in DOMAIN shipped, m[1] \in Copies(m[3], m[2])
               PROVE  /\ \/ m[3] \in Ours
                         \/ platform = "linux" /\ m[3] = "plugin"
                            /\ HasLines(<<m[3], m[2]>>, shipped[m])
                         => /\ <<m[3], m[2]>> \in uploads
                            /\ Companion(<<m[3], m[2]>>).build = shipped[m]
                            /\ Companion(<<m[3], m[2]>>).lines
                            /\ platform # "windows" => companions[<<m[3], m[2]>>].unwind
                      /\ m[3] = "libapp" =>
                            /\ <<"split", m[2]>> \in uploads
                            /\ splits[m[2]].build = shipped[m] /\ splits[m[2]].lines
    BY DEF AuditedIsCovered
  <2>1. m = <<m[1], m[2], m[3]>> /\ IsFiniteSet(Packages)
    BY SymbolsAssumption DEF SymbolsInv, ModulesShaped
  <2>2. /\ platform \in {"android", "linux", "windows"} /\ ModulesShaped /\ ManifestShaped
        /\ SymbolsAudited /\ uploads = Sent
    BY DEF SymbolsInv, AcceptedIsFresh
  <2>3. ASSUME \/ m[3] \in Ours
               \/ platform = "linux" /\ m[3] = "plugin"
                  /\ HasLines(<<m[3], m[2]>>, shipped[m])
        PROVE  CoveredBy(m, <<m[3], m[2]>>)
    BY <2>1, <2>2, <2>3, AuditedModuleIsCovered
  <2>4. ASSUME m[3] = "libapp"
        PROVE  /\ <<"split", m[2]>> \in uploads
               /\ splits[m[2]].build = shipped[m] /\ splits[m[2]].lines
    BY <2>1, <2>2, <2>4, AuditedDartIsCovered
  <2> QED
    BY <2>2, <2>3, <2>4 DEF CoveredBy
<1> QED
  BY <1>1, SymbolsInvInit, SymbolsInvNext, PTL DEF SymbolsSpec

(* However a run ends, and whatever outlives it, a report of success is of    *)
(* the latest run's own audit or of an uploader whose coordinator was gone, *)
(* a coordinator only succeeds with an audit of its own, and a manifest is  *)
(* of a preparation that succeeded (main, Preparer).                        *)
THEOREM NoSuccessStaysBehind == SymbolsSpec => []NothingIsStale
<1>1. SymbolsInv => NothingIsStale
  BY DEF SymbolsInv, SuccessIsCurrent, ManifestShaped, NothingIsStale
<1> QED
  BY <1>1, SymbolsInvInit, SymbolsInvNext, PTL DEF SymbolsSpec

-----------------------------------------------------------------------------
(* The debug files of a macOS app: MacSymbols.                               *)

(* What stays true of the app, whatever is rebuilt, and of what the Xcode      *)
(* phase wrote beside it.                                                   *)
WorldIsBuilt ==
    /\ receipt.inventory \in Inventories
    /\ {"asset", "core", "dart", "plugin", "runner", "rust"} \subseteq DOMAIN app
    /\ DOMAIN app \subseteq Debugged \cup {"dart"}
    /\ \A i \in images : i.module \in {"asset", "plugin"}

SlicesOf(listed) == {x.slice : x \in listed}
Excused(l) == l = Limit("prebuilt", l.target, l.arch, "none")
LimitsShaped(stated) == \A l \in stated : l.kind = "prebuilt" => Excused(l)

(* A file is of its slice, and whatever is listed has one. *)
DraftShaped ==
    drafted = [artifacts |-> drafted.artifacts, required |-> drafted.required, limits |-> drafted.limits]
FilesShaped ==
    /\ DraftShaped
    /\ \A s \in DOMAIN files : files[s] = Dsym(s[1], s[2], files[s].build, files[s].usable)
    /\ SlicesOf(drafted.artifacts) \cup SlicesOf(macManifest.artifacts) \subseteq DOMAIN files
    /\ LimitsShaped(drafted.limits)
    /\ macManifest # None => LimitsShaped(macManifest.limits)

(* Nothing happens after a verdict. *)
VerdictIsLast ==
    /\ macPc = "idle" => drafted = NoDraft
    /\ verdict # "none" => macPc = "idle"
    /\ verdict = "accepted" => AppAccepts

MacInv == WorldIsBuilt /\ FilesShaped /\ VerdictIsLast

LEMMA SameAppSameAudit ==
    ASSUME UNCHANGED <<app, inventory, receipt, empty, images, files, macManifest>>
    PROVE  AppAccepts' <=> AppAccepts
<1>1. \A m : SourceOf(m)' = SourceOf(m)
  BY DEF SourceOf
<1>2. \A m, a : Mapped(m, a)' = Mapped(m, a)
  BY DEF Mapped
<1>3. \A m, a : Owned(m, a)' <=> Owned(m, a)
  BY <1>1, <1>2 DEF Owned
<1>4. Slices' = Slices /\ Listed' = Listed
  BY DEF Slices, Listed
<1>5. LineLimits' = LineLimits /\ StaticLimits' = StaticLimits
  BY DEF LineLimits, StaticLimits
<1>6. AppAudited' <=> AppAudited
  BY <1>4 DEF AppAudited
<1>7. \A targets : HostsWithin(targets)' <=> HostsWithin(targets)
  BY DEF HostsWithin
<1>8. RequiredAudited' <=> RequiredAudited
  BY <1>3, <1>4, <1>7 DEF RequiredAudited
<1>9. \A l : LimitHolds(l)' <=> LimitHolds(l)
  BY <1>3, <1>4, <1>5 DEF LimitHolds
<1>10. LimitsAudited' <=> LimitsAudited
  BY <1>4, <1>5, <1>9 DEF LimitsAudited
<1>11. \A x : ArtifactHolds(x)' <=> ArtifactHolds(x)
  BY <1>1, <1>4 DEF ArtifactHolds
<1> QED
  BY <1>6, <1>8, <1>10, <1>11 DEF AppAccepts

LEMMA MacInvInit == MacInit => MacInv
<1> SUFFICES ASSUME MacInit PROVE MacInv
  OBVIOUS
<1>1. receipt.inventory \in Inventories
  BY DEF MacInit, Receipt
<1>2. inventory.dynamic \subseteq {"vendor"}
  BY DEF MacInit, Inventories, Recorded
<1>3. DOMAIN app = {"asset", "core", "dart", "plugin", "runner", "rust"} \cup inventory.dynamic
  BY DEF MacInit, Distributed
<1>4. \A i \in images : i.module \in {"asset", "plugin"}
  BY DEF MacInit
<1>5. WorldIsBuilt
  BY <1>1, <1>2, <1>3, <1>4 DEF WorldIsBuilt, Debugged
<1>6. FilesShaped
  BY DEF MacInit, NoFiles, None, NoDraft, FilesShaped, DraftShaped, SlicesOf, LimitsShaped
<1>7. VerdictIsLast
  BY DEF MacInit, VerdictIsLast
<1> QED
  BY <1>5, <1>6, <1>7 DEF MacInv

(* What the state of a file depends on. *)
FilesKept == UNCHANGED <<drafted, files, macManifest>>
LEMMA SameFilesStayShaped == ASSUME FilesShaped, FilesKept PROVE FilesShaped'
  BY DEF FilesKept, FilesShaped, DraftShaped, SlicesOf, LimitsShaped, Excused, Limit, Dsym

(* While a program works, or before there is a verdict, only the shapes matter. *)
LEMMA NoVerdictYet ==
    ASSUME MacInv, verdict = "none", verdict' = "none", macPc' = "idle" => drafted' = NoDraft,
           WorldIsBuilt', FilesShaped'
    PROVE  MacInv'
  BY DEF MacInv, VerdictIsLast, NoDraft

LEMMA SameWorldStaysBuilt ==
    ASSUME WorldIsBuilt, UNCHANGED <<app, receipt, images>> PROVE WorldIsBuilt'
  BY DEF WorldIsBuilt, Inventories, Debugged

LEMMA PreparationIsShaped ==
    ASSUME MacInv,
           \/ Construct \/ PrepareApp \/ Load \/ Late \/ Overdue \/ Dart
           \/ Unmatched \/ Finish \/ Failing \/ Killed
           \/ \E b : Generate(b) \/ Normalize(b) \/ WriteReport(b)
    PROVE  MacInv'
<1> USE DEF world, work, results
<1>1. verdict = "none" /\ verdict' = "none" /\ UNCHANGED world
  BY DEF MacInv, VerdictIsLast, Construct, PrepareApp, Load, Late, Overdue, Dart,
     Unmatched, Finish, Failing, Killed, Generate, Normalize, WriteReport,
     Turn, TurnOf, RowEnds, RowFails
<1>2. WorldIsBuilt'
  BY <1>1, SameWorldStaysBuilt DEF MacInv
<1>3. FilesShaped
  BY DEF MacInv
<1>4. ASSUME FilesShaped', macPc' = "idle" => drafted' = NoDraft PROVE MacInv'
  BY <1>1, <1>2, <1>4, NoVerdictYet
<1>5. CASE Construct
  <2>1. FilesShaped'
    BY <1>3, <1>5
    DEF Construct, NoFiles, None, FilesShaped, DraftShaped, SlicesOf, LimitsShaped, MacInv,
        VerdictIsLast, NoDraft
  <2> QED
    BY <1>4, <1>5, <2>1 DEF Construct, MacInv, VerdictIsLast, NoDraft
<1>6. CASE PrepareApp \/ Load \/ Late \/ Overdue \/ \E b : Generate(b)
  <2>1. FilesKept /\ macPc' # "idle"
    BY <1>6 DEF PrepareApp, Load, Late, Overdue, Generate, Turn, TurnOf,
       RowFails, RowEnds, FilesKept
  <2> QED
    BY <1>3, <1>4, <2>1, SameFilesStayShaped
<1>7. CASE Dart \/ Unmatched
  <2>1. UNCHANGED <<files, macManifest>> /\ macPc' = "rows"
    BY <1>7 DEF Dart, Unmatched, Turn, TurnOf, RowEnds
  <2>2. PICK l : /\ l.kind = "prebuilt" => Excused(l)
                 /\ drafted' = drafted \/ drafted' = [drafted EXCEPT !.limits = @ \cup {l}]
    BY <1>7 DEF Dart, Unmatched, RowEnds, Limit, Excused
  <2>3. /\ drafted'.artifacts = drafted.artifacts /\ drafted'.limits \subseteq drafted.limits \cup {l}
        /\ DraftShaped'
    BY <1>3, <2>2 DEF FilesShaped, DraftShaped
  <2>4. LimitsShaped(drafted'.limits)
    BY <1>3, <2>2, <2>3 DEF FilesShaped, LimitsShaped
  <2>5. FilesShaped'
    BY <1>3, <2>1, <2>3, <2>4 DEF FilesShaped, SlicesOf, LimitsShaped, Excused, Limit, Dsym, None
  <2> QED
    BY <1>4, <2>1, <2>5
<1>8. ASSUME NEW b, Normalize(b) PROVE MacInv'
  <2> DEFINE s == Head(todo)
  <2>1. /\ macPc' = "rows" /\ macManifest' = macManifest
        /\ files' = [t \in DOMAIN files \cup {s} |-> IF t = s THEN Normalized(s) ELSE files[t]]
    BY <1>8 DEF Normalize, TurnOf, Turn, RowEnds
  <2>2. \A t \in DOMAIN files' :
           files'[t] = Dsym(t[1], t[2], files'[t].build, files'[t].usable)
    BY <1>3, <2>1 DEF FilesShaped, Normalized, Dsym
  <2>3. /\ DraftShaped' /\ SlicesOf(drafted'.artifacts) \subseteq SlicesOf(drafted.artifacts) \cup {s}
        /\ LimitsShaped(drafted'.limits)
    <3>1. CASE drafted' = drafted
      BY <1>3, <3>1 DEF FilesShaped, DraftShaped, LimitsShaped
    <3>2. CASE drafted' = [artifacts |-> drafted.artifacts \cup {[slice |-> s, source |-> SourceOf(Module)]},
                         required |-> drafted.required \cup (IF Required(Module) THEN {s} ELSE {}),
                         limits |-> drafted.limits \cup
                             (IF Module = "core" THEN {Limit("go", "core", Arch, "none")} ELSE {})]
      <4>1. DraftShaped'
        BY <3>2 DEF DraftShaped
      <4>2. LimitsShaped(drafted'.limits)
        BY <1>3, <3>2 DEF FilesShaped, LimitsShaped, Limit
      <4>3. drafted'.artifacts = drafted.artifacts \cup {[slice |-> s, source |-> SourceOf(Module)]}
        BY <3>2
      <4>4. SlicesOf(drafted'.artifacts) \subseteq SlicesOf(drafted.artifacts) \cup {s}
        BY <4>3 DEF SlicesOf
      <4> QED
        BY <4>1, <4>2, <4>4
    <3> QED
      BY <1>8, <3>1, <3>2 DEF Normalize
  <2>4. FilesShaped'
    BY <1>3, <2>1, <2>2, <2>3 DEF FilesShaped, SlicesOf, LimitsShaped, Excused, Limit, None
  <2> QED
    BY <1>4, <2>1, <2>4
<1>9. CASE Finish
  <2>1. UNCHANGED <<drafted, files>> /\ macPc' # "idle"
    BY <1>9 DEF Finish
  <2>2. CASE macManifest' = macManifest
    BY <1>3, <1>4, <2>1, <2>2, SameFilesStayShaped DEF FilesKept
  <2>3. CASE macManifest' = [drafted EXCEPT !.limits = @ \cup LineLimits \cup StaticLimits]
    <3>1. /\ macManifest'.artifacts = drafted.artifacts
          /\ macManifest'.limits = drafted.limits \cup LineLimits \cup StaticLimits
      BY <1>3, <2>3 DEF FilesShaped, DraftShaped
    <3>2. \A l \in LineLimits \cup StaticLimits : l.kind # "prebuilt"
      BY DEF LineLimits, StaticLimits, Limit
    <3>3. LimitsShaped(macManifest'.limits)
      BY <1>3, <3>1, <3>2 DEF FilesShaped, LimitsShaped
    <3>4. FilesShaped'
      BY <1>3, <2>1, <3>1, <3>3
      DEF FilesShaped, DraftShaped, SlicesOf, LimitsShaped, Excused, Limit, Dsym
    <3> QED
      BY <1>4, <2>1, <3>4
  <2> QED
    BY <1>9, <2>2, <2>3 DEF Finish
<1>10. CASE Failing \/ Killed \/ \E b : WriteReport(b)
  <2>1. /\ UNCHANGED files /\ macManifest' \in {macManifest, None}
        /\ drafted' = drafted \/ drafted' = NoDraft
        /\ macPc' = "idle" => drafted' = NoDraft
    BY <1>10 DEF Failing, Killed, WriteReport, RemoveManifest
  <2>2. DraftShaped' /\ drafted'.artifacts \subseteq drafted.artifacts /\ drafted'.limits \subseteq drafted.limits
    BY <1>3, <2>1 DEF FilesShaped, DraftShaped, NoDraft
  <2>3. macManifest'.artifacts \subseteq macManifest.artifacts
    BY <2>1 DEF None
  <2>4. macManifest' # None => macManifest' = macManifest
    BY <2>1
  <2>5. FilesShaped'
    BY <1>3, <2>1, <2>2, <2>3, <2>4
    DEF FilesShaped, SlicesOf, LimitsShaped, Excused, Limit, Dsym, None
  <2> QED
    BY <1>4, <2>1, <2>5
<1> QED
  BY <1>5, <1>6, <1>7, <1>8, <1>9, <1>10

(* What happens between the programs. *)
Interferes ==
    \/ \E m \in {"plugin", "runner", "rust"}, debugged \in BOOLEAN : Rebuild(m, debugged)
    \/ \E inv \in Inventories : Phase(inv)
    \/ DisownAll \/ Fill
    \/ \E s \in (DOMAIN files) \cap ({"asset", "plugin", "rust"} \X {"arm64"}), build \in 1..2 :
           Spoil(s, build, build = 2)
    \/ \E m \in {"asset", "plugin", "rust", "core"}, excuse \in BOOLEAN : Hide(m, excuse)

LEMMA InterferenceIsShaped == ASSUME MacInv, Interferes PROVE MacInv'
<1> USE DEF world, work, results
<1>1. verdict = "none" /\ verdict' = "none" /\ UNCHANGED <<macPc, drafted, images>> /\ clean' = FALSE
  BY DEF Interferes, AppChange, Rebuild, Phase, DisownAll, Fill, Spoil, Hide
<1>2. ASSUME WorldIsBuilt', FilesShaped' PROVE MacInv'
  BY <1>1, <1>2, NoVerdictYet DEF MacInv, VerdictIsLast
<1>3. WorldIsBuilt /\ FilesShaped
  BY DEF MacInv
<1>4. ASSUME NEW m, NEW debugged, Rebuild(m, debugged) PROVE MacInv'
  <2>1. FilesKept /\ UNCHANGED receipt /\ DOMAIN app' = DOMAIN app
    BY <1>1, <1>4 DEF Rebuild, FilesKept
  <2>2. WorldIsBuilt'
    BY <1>1, <1>3, <2>1 DEF WorldIsBuilt, Inventories, Debugged
  <2> QED
    BY <1>2, <1>3, <2>1, <2>2, SameFilesStayShaped
<1>5. ASSUME NEW inv \in Inventories, Phase(inv) PROVE MacInv'
  <2>1. FilesKept /\ UNCHANGED app /\ receipt'.inventory = inv
    BY <1>1, <1>5 DEF Phase, Receipt, FilesKept
  <2>2. inv \in Inventories'
    BY DEF Inventories
  <2>3. WorldIsBuilt'
    BY <1>1, <1>3, <2>1, <2>2 DEF WorldIsBuilt, Debugged
  <2> QED
    BY <1>2, <1>3, <2>1, <2>3, SameFilesStayShaped
<1>6. CASE DisownAll \/ Fill
  <2>1. FilesKept /\ UNCHANGED <<app, receipt, images>>
    BY <1>1, <1>6 DEF DisownAll, Fill, FilesKept
  <2> QED
    BY <1>2, <1>3, <2>1, SameFilesStayShaped, SameWorldStaysBuilt
<1>7. ASSUME NEW s \in DOMAIN files, NEW build, NEW usable, Spoil(s, build, usable) PROVE MacInv'
  <2>1. /\ files' = [files EXCEPT ![s] = Dsym(s[1], s[2], build, usable)]
        /\ UNCHANGED <<app, receipt, images, macManifest, drafted>>
    BY <1>1, <1>7 DEF Spoil
  <2>2. \A t \in DOMAIN files' :
           files'[t] = Dsym(t[1], t[2], files'[t].build, files'[t].usable)
    BY <1>3, <2>1 DEF FilesShaped, Dsym
  <2>3. FilesShaped'
    BY <1>3, <2>1, <2>2
    DEF FilesShaped, DraftShaped, SlicesOf, LimitsShaped, Excused, Limit, None
  <2> QED
    BY <1>2, <1>3, <2>1, <2>3, SameWorldStaysBuilt
<1>8. ASSUME NEW m, NEW excuse, Hide(m, excuse) PROVE MacInv'
  <2> DEFINE added == {Limit("prebuilt", m, a, "none") : a \in IF excuse THEN Archs ELSE {}}
  <2>1. /\ macManifest # None /\ UNCHANGED <<app, receipt, images, files, drafted>>
        /\ macManifest'.artifacts = {x \in macManifest.artifacts : x.slice[1] # m}
        /\ macManifest'.limits = macManifest.limits \cup added
    BY <1>1, <1>8 DEF Hide
  <2>2. \A l \in added : Excused(l)
    BY DEF Excused, Limit
  <2>3. LimitsShaped(macManifest'.limits)
    BY <1>3, <2>1, <2>2 DEF FilesShaped, LimitsShaped
  <2>4. SlicesOf(macManifest'.artifacts) \subseteq SlicesOf(macManifest.artifacts)
    BY <2>1 DEF SlicesOf
  <2>5. FilesShaped'
    BY <1>3, <2>1, <2>3, <2>4
    DEF FilesShaped, DraftShaped, SlicesOf, LimitsShaped, Excused, Limit, Dsym
  <2> QED
    BY <1>2, <1>3, <2>1, <2>5, SameWorldStaysBuilt
<1> QED
  BY <1>4, <1>5, <1>6, <1>7, <1>8 DEF Interferes

LEMMA AuditIsShaped == ASSUME MacInv, NEW works \in BOOLEAN, AuditApp(works) PROVE MacInv'
<1> USE DEF world, work, results
<1>1. /\ UNCHANGED <<app, inventory, receipt, empty, images, files, macManifest, drafted, macPc>>
      /\ macPc = "idle"
      /\ verdict' = "accepted" => AppAccepts
  BY DEF AuditApp
<1>2. WorldIsBuilt' /\ FilesShaped'
  BY <1>1, SameWorldStaysBuilt, SameFilesStayShaped DEF MacInv, FilesKept
<1>3. VerdictIsLast'
  BY <1>1, SameAppSameAudit DEF MacInv, VerdictIsLast, NoDraft
<1> QED
  BY <1>2, <1>3 DEF MacInv

LEMMA MacActions ==
    ASSUME MacNext
    PROVE  \/ Construct \/ PrepareApp \/ Load \/ Late \/ Overdue \/ Dart
           \/ Unmatched \/ Finish \/ Failing \/ Killed
           \/ \E b : Generate(b) \/ Normalize(b) \/ WriteReport(b)
           \/ Interferes
           \/ \E works \in BOOLEAN : AuditApp(works)
  BY DEF MacNext, Interferes

LEMMA MacInvNext == MacInv /\ [MacNext]_(macVars) => MacInv'
<1> SUFFICES ASSUME MacInv, [MacNext]_(macVars) PROVE MacInv'
  OBVIOUS
<1>1. CASE UNCHANGED macVars
  <2>1. UNCHANGED <<app, inventory, receipt, empty, images, files, macManifest, drafted, macPc, verdict>>
    BY <1>1 DEF macVars, world, work, results
  <2>2. WorldIsBuilt' /\ FilesShaped'
    BY <2>1, SameWorldStaysBuilt, SameFilesStayShaped DEF MacInv, FilesKept
  <2>3. VerdictIsLast'
    BY <2>1, SameAppSameAudit DEF MacInv, VerdictIsLast, NoDraft
  <2> QED
    BY <2>2, <2>3 DEF MacInv
<1>2. CASE MacNext
  BY <1>2, MacActions, PreparationIsShaped, InterferenceIsShaped, AuditIsShaped
<1> QED
  BY <1>1, <1>2

-----------------------------------------------------------------------------
(* What an accepted audit implies. *)

(* The inventory that belongs to the receipt is one the Xcode phase wrote. *)
LEMMA OwnedModules ==
    ASSUME inventory \in Inventories
    PROVE  /\ \A m \in {"core", "dart", "plugin", "runner", "rust"} : SourceOf(m) # "prebuilt"
           /\ \A p \in inventory.products : p.module = "plugin"
<1>1. PICK manager \in {"pods", "spm"} :
          inventory.products = {[module |-> "plugin", source |-> manager]}
  BY DEF Inventories, Recorded
<1>2. \A m \in {"core", "dart", "runner", "rust"} : SourceOf(m) # "prebuilt"
  BY DEF SourceOf
<1>3. SourceOf("plugin") # "prebuilt"
  <2> DEFINE own == {p \in inventory.products : p.module = "plugin"}
             plugin == [module |-> "plugin", source |-> manager]
  <2>1. own = {plugin}
    BY <1>1
  <2>2. (CHOOSE p \in own : TRUE) = plugin
    BY <2>1
  <2>3. SourceOf("plugin") = (CHOOSE p \in own : TRUE).source
    BY <2>1 DEF SourceOf
  <2> QED
    BY <1>1, <2>2, <2>3
<1>4. \A p \in inventory.products : p.module = "plugin"
  BY <1>1
<1> QED
  BY <1>2, <1>3, <1>4

(* Whatever is listed has a file of this build with lines. *)
LEMMA ListedIsCovered ==
    ASSUME MacInv, AppAccepts, NEW s \in Listed
    PROVE  Covered(s) /\ s \in Slices
<1>1. PICK x \in macManifest.artifacts : x.slice = s
  BY DEF Listed
<1>2. s \in Slices /\ files[s].build = app[s[1]] /\ files[s].usable = TRUE
  <2>1. ArtifactHolds(x)
    BY <1>1 DEF AppAccepts
  <2> QED
    BY <1>1, <2>1 DEF ArtifactHolds
<1>3. s \in DOMAIN files
  BY <1>1 DEF MacInv, FilesShaped, SlicesOf
<1>4. files[s] = Dsym(s[1], s[2], app[s[1]], TRUE)
  BY <1>2, <1>3 DEF MacInv, FilesShaped
<1> QED
  BY <1>1, <1>2, <1>4 DEF Covered

(* A slice the audit found to be compiled here has a file that is covered. *)
LEMMA OwnedSliceIsCovered ==
    ASSUME MacInv, AppAccepts, NEW m \in DOMAIN app, NEW a \in Archs, m # "dart",
           Owned(m, a)
    PROVE  Covered(<<m, a>>)
<1>1. <<m, a>> \in macManifest.required /\ macManifest.required \subseteq Listed
  BY DEF AppAccepts, RequiredAudited, Slices
<1> QED
  BY <1>1, ListedIsCovered

(* What an accepted audit read is what the Xcode phase wrote. *)
LEMMA AcceptedInventory ==
    ASSUME MacInv, AppAccepts
    PROVE  inventory \in Inventories
  BY DEF MacInv, WorldIsBuilt, AppAccepts, AppAudited, Loads

(* Whatever was rebuilt, edited, dropped or declared prebuilt, every slice     *)
(* that was compiled here has a dSYM of this build with lines (audit_macos). *)
THEOREM AcceptedAppIsCovered == MacSpec => []AcceptedIsCovered
<1>1. MacInv => AcceptedIsCovered
  <2> SUFFICES ASSUME MacInv, AppAccepted, NEW m \in DOMAIN app, NEW a \in Archs,
                      m \in {"core", "plugin", "runner", "rust"} \/ Mapped(m, a) # {}
               PROVE  Covered(<<m, a>>)
    BY DEF AcceptedIsCovered
  <2>1. AppAccepts
    BY DEF AppAccepted, MacInv, VerdictIsLast
  <2>2. m # "dart"
    BY DEF MacInv, WorldIsBuilt, Mapped
  <2>3. Owned(m, a)
    BY <2>1, AcceptedInventory, OwnedModules DEF Owned
  <2> QED
    BY <2>1, <2>2, <2>3, OwnedSliceIsCovered
<1> QED
  BY <1>1, MacInvInit, MacInvNext, PTL DEF MacSpec

(* Every gap the audit lets through is stated, and stated truly (audit_macos). *)
THEOREM AcceptedLimitsAreTrue == MacSpec => []LimitsAreTrue
<1>1. ASSUME MacInv, AppAccepted PROVE AppAccepts /\ inventory \in Inventories
  BY <1>1, AcceptedInventory DEF AppAccepted, MacInv, VerdictIsLast
<1>2. ASSUME MacInv, AppAccepted, NEW s \in Slices
      PROVE  \/ Covered(s) \/ s[1] = "dart"
             \/ Limit("prebuilt", s[1], s[2], "none") \in macManifest.limits
  <2>1. CASE s \in Listed
    BY <1>1, <1>2, <2>1, ListedIsCovered
  <2>2. ASSUME NEW l \in macManifest.limits, l.kind \in {"prebuilt", "dart", "go"}, s = <<l.target, l.arch>>
        PROVE  \/ Covered(s) \/ s[1] = "dart"
               \/ Limit("prebuilt", s[1], s[2], "none") \in macManifest.limits
    <3>1. LimitHolds(l) /\ macManifest # None
      BY <1>1, <1>2 DEF AppAccepts, LimitsAudited, AppAudited
    <3>2. CASE l.kind = "prebuilt"
      <4>1. Excused(l)
        BY <1>2, <3>1, <3>2 DEF MacInv, FilesShaped, LimitsShaped
      <4> QED
        BY <2>2, <4>1 DEF Excused
    <3>3. CASE l.kind = "dart"
      BY <2>2, <3>1, <3>3 DEF LimitHolds
    <3>4. CASE l.kind = "go"
      <4>1. s = <<"core", s[2]>> /\ s[2] \in Archs /\ "core" \in DOMAIN app
        BY <1>2, <2>2, <3>1, <3>4 DEF LimitHolds, Slices
      <4>2. Owned("core", s[2])
        BY <1>1, <1>2, OwnedModules DEF Owned
      <4>3. Covered(<<"core", s[2]>>)
        BY <1>1, <1>2, <4>1, <4>2, OwnedSliceIsCovered
      <4> QED
        BY <4>1, <4>3
    <3> QED
      BY <2>2, <3>2, <3>3, <3>4
  <2>3. s \in Listed \cup {<<l.target, l.arch>> : l \in
               {k \in macManifest.limits : k.kind \in {"prebuilt", "dart", "go"}}}
    BY <1>1, <1>2 DEF AppAccepts, LimitsAudited
  <2> QED
    BY <2>1, <2>2, <2>3
<1>3. ASSUME MacInv, AppAccepted, NEW l \in macManifest.limits
      PROVE  /\ l.kind = "prebuilt" => l.target \in {"asset", "vendor"} /\ Mapped(l.target, l.arch) = {}
             /\ l.kind = "linker" => l.target \in empty
  <2>1. LimitHolds(l)
    BY <1>1, <1>3 DEF AppAccepts, LimitsAudited
  <2>2. ASSUME l.kind = "prebuilt"
        PROVE  l.target \in {"asset", "vendor"} /\ Mapped(l.target, l.arch) = {}
    <3>1. l.target \in DOMAIN app /\ ~Owned(l.target, l.arch)
      BY <2>1, <2>2 DEF LimitHolds, Slices
    <3>2. SourceOf(l.target) = "prebuilt" /\ Mapped(l.target, l.arch) = {}
      BY <3>1 DEF Owned
    <3>3. l.target \notin {"core", "dart", "plugin", "runner", "rust"}
      BY <1>1, <1>3, <3>2, OwnedModules
    <3> QED
      BY <1>3, <3>1, <3>2, <3>3 DEF MacInv, WorldIsBuilt, Debugged
  <2>3. ASSUME l.kind = "linker" PROVE l.target \in empty
    <3>1. l.target \in inventory.waived
      BY <2>1, <2>3 DEF LimitHolds, LineLimits, Limit
    <3> QED
      BY <1>1, <1>3, <3>1 DEF AppAccepts, AppAudited, Loads, HelperValid
  <2> QED
    BY <2>2, <2>3
<1>4. ASSUME MacInv, AppAccepted, NEW t \in (DOMAIN inventory.sources) \ empty, NEW a \in Archs,
             NEW h \in inventory.sources[t]
      PROVE  Covered(<<h, a>>) /\ Limit("lines", t, a, h) \in macManifest.limits
  <2>1. t \notin inventory.waived /\ t \in Unwaived(inventory)
    BY <1>1, <1>4 DEF AppAccepts, AppAudited, Loads, HelperValid, Unwaived
  <2>2. h \in DOMAIN app /\ h \in {"plugin", "runner", "rust", "core"}
    BY <1>1, <1>4, <2>1, OwnedModules
    DEF AppAccepts, AppAudited, Loads, OwnedBy, OwnProducts
  <2>3. Covered(<<h, a>>)
    <3>1. Owned(h, a)
      BY <1>1, <1>4, <2>2, OwnedModules DEF Owned
    <3> QED
      BY <1>1, <1>4, <2>2, <3>1, OwnedSliceIsCovered
  <2>4. Limit("lines", t, a, h) \in LineLimits
    BY <2>1 DEF LineLimits
  <2> QED
    BY <1>1, <1>4, <2>3, <2>4 DEF AppAccepts, LimitsAudited
<1>5. MacInv => LimitsAreTrue
  BY <1>2, <1>3, <1>4 DEF LimitsAreTrue
<1> QED
  BY <1>5, MacInvInit, MacInvNext, PTL DEF MacSpec

-----------------------------------------------------------------------------
(* What a preparation completes is accepted.  The rows that are left, and       *)
(* what the draft holds of the others.                                      *)
Members(q) == {q[i] : i \in 1..Len(q)}
Distinct(q) == \A i, j \in 1..Len(q) : q[i] = q[j] => i = j
AllRows == (Debugged \cup {"dart"}) \X Archs
Rowed(q) == q \in Seq(AllRows) /\ Distinct(q)

(* A row that was worked on without a failure. *)
Done(s) ==
    IF s[1] = "dart" THEN Limit("dart", "dart", s[2], "none") \in drafted.limits
    ELSE \/ s \in SlicesOf(drafted.artifacts) /\ (Required(s[1]) => s \in drafted.required)
         \/ ~Required(s[1]) /\ Limit("prebuilt", s[1], s[2], "none") \in drafted.limits
Past(s) == s \in Slices /\ s \notin Members(todo)
LimitDrafted(l) ==
    \/ /\ l.kind = "prebuilt" /\ Past(<<l.target, l.arch>>) /\ ~Required(l.target)
       /\ <<l.target, l.arch>> \notin SlicesOf(drafted.artifacts)
    \/ l.kind = "dart" /\ l.target = "dart"
    \/ l.kind = "go" /\ l.target = "core"

DraftHolds ==
    /\ Rowed(todo) /\ Members(todo) \subseteq Slices
    /\ Loads(inventory, receipt, app, "Release", empty) /\ clean
    /\ \A x \in drafted.artifacts : ArtifactHolds(x) /\ Past(x.slice)
    /\ drafted.required \subseteq SlicesOf(drafted.artifacts)
    /\ \A l \in drafted.limits : LimitDrafted(l)
    /\ ~failed => \A s \in Slices : s \in Members(todo) \/ Done(s)

Prepared ==
    /\ macPc \in {"made", "load"} => drafted = NoDraft
    /\ macPc # "idle" => ended = "never"
    /\ macPc = "failing" => failed
    /\ macPc = "rows" => DraftHolds
    /\ macPc = "report" /\ ~failed => AppAccepts /\ clean
    /\ ended = "complete" /\ clean => AppAccepts
    /\ verdict = "refused" => ~AppAccepts

LEMMA JoinedRows ==
    ASSUME NEW p, NEW q, Rowed(p), Rowed(q), Members(p) \cap Members(q) = {}
    PROVE  Rowed(p \o q) /\ Members(p \o q) = Members(p) \cup Members(q)
<1>1. PICK m \in Nat, n \in Nat : m = Len(p) /\ n = Len(q)
  BY LenProperties DEF Rowed
<1>2. /\ p \o q \in Seq(AllRows) /\ Len(p \o q) = m + n
      /\ \A i \in 1..(m + n) : (p \o q)[i] = IF i <= m THEN p[i] ELSE q[i - m]
  BY <1>1, ConcatProperties DEF Rowed
<1>3. Members(p \o q) \subseteq Members(p) \cup Members(q)
  <2> SUFFICES ASSUME NEW i \in 1..(m + n) PROVE (p \o q)[i] \in Members(p) \cup Members(q)
    BY <1>2 DEF Members
  <2>1. CASE i <= m
    BY <1>1, <1>2, <2>1 DEF Members
  <2>2. CASE i > m
    <3>1. i - m \in 1..n /\ (p \o q)[i] = q[i - m]
      BY <1>2, <2>2
    <3> QED
      BY <1>1, <3>1 DEF Members
  <2> QED
    BY <1>1, <2>1, <2>2
<1>4. Members(p) \subseteq Members(p \o q)
  <2> SUFFICES ASSUME NEW i \in 1..m PROVE p[i] \in Members(p \o q)
    BY <1>1 DEF Members
  <2>1. i \in 1..(m + n) /\ (p \o q)[i] = p[i]
    BY <1>2
  <2> QED
    BY <1>2, <2>1 DEF Members
<1>5. Members(q) \subseteq Members(p \o q)
  <2> SUFFICES ASSUME NEW i \in 1..n PROVE q[i] \in Members(p \o q)
    BY <1>1 DEF Members
  <2>1. m + i \in 1..(m + n) /\ (p \o q)[m + i] = q[i]
    BY <1>2
  <2> QED
    BY <1>2, <2>1 DEF Members
<1>6. Distinct(p \o q)
  <2> SUFFICES ASSUME NEW i \in 1..(m + n), NEW j \in 1..(m + n), (p \o q)[i] = (p \o q)[j]
               PROVE  i = j
    BY <1>2 DEF Distinct
  <2>1. CASE i <= m /\ j <= m
    BY <1>1, <1>2, <2>1 DEF Rowed, Distinct
  <2>2. CASE i > m /\ j > m
    <3>1. i - m \in 1..n /\ j - m \in 1..n /\ q[i - m] = q[j - m]
      BY <1>1, <1>2, <2>2
    <3>2. i - m = j - m
      BY <1>1, <3>1 DEF Rowed, Distinct
    <3> QED
      BY <3>2
  <2>3. ASSUME NEW k \in 1..(m + n), NEW l \in 1..(m + n), k <= m, l > m
        PROVE  (p \o q)[k] # (p \o q)[l]
    <3>1. (p \o q)[k] \in Members(p)
      BY <1>1, <1>2, <2>3 DEF Members
    <3>2. l - m \in 1..n /\ (p \o q)[l] = q[l - m]
      BY <1>1, <1>2, <2>3
    <3>3. (p \o q)[l] \in Members(q)
      BY <1>1, <3>2 DEF Members
    <3> QED
      BY <3>1, <3>3
  <2> QED
    BY <1>1, <2>1, <2>2, <2>3
<1> QED
  BY <1>2, <1>3, <1>4, <1>5, <1>6 DEF Rowed

LEMMA RowsOfModule ==
    ASSUME NEW m \in Debugged \cup {"dart"}
    PROVE  Rowed(RowsOf(m)) /\ Members(RowsOf(m)) = {m} \X Archs
<1> DEFINE q == <<<<m, "arm64">>, <<m, "x86_64">>>>
<1>1. RowsOf(m) = q /\ Len(q) = 2 /\ q[1] = <<m, "arm64">> /\ q[2] = <<m, "x86_64">>
  BY DEF RowsOf
<1>2. q \in Seq(AllRows)
  BY DEF AllRows, Archs
<1>3. 1..2 = {1, 2}
  OBVIOUS
<1> HIDE DEF q
<1>4. Distinct(q)
  BY <1>1, <1>3 DEF Distinct
<1>5. Members(q) = {q[1], q[2]}
  BY <1>1, <1>3 DEF Members
<1>6. {m} \X Archs = {<<m, "arm64">>, <<m, "x86_64">>}
  BY DEF Archs
<1> QED
  BY <1>1, <1>2, <1>4, <1>5, <1>6 DEF Rowed

LEMMA PlannedIsApp ==
    ASSUME WorldIsBuilt
    PROVE  Rowed(Planned) /\ Members(Planned) = Slices
<1> DEFINE R(m) == RowsOf(m)
           own == {"asset", "core", "dart", "plugin", "runner", "rust"}
<1>1. own \cup {"vendor"} = Debugged \cup {"dart"}
  BY DEF Debugged
<1>2. \A m \in own \cup {"vendor"} : Rowed(R(m)) /\ Members(R(m)) = {m} \X Archs
  BY <1>1, RowsOfModule
<1> HIDE DEF R
<1>3. /\ Rowed(R("asset") \o R("core"))
      /\ Members(R("asset") \o R("core")) = {"asset", "core"} \X Archs
  BY <1>2, JoinedRows
<1>4. /\ Rowed(R("asset") \o R("core") \o R("dart"))
      /\ Members(R("asset") \o R("core") \o R("dart")) = {"asset", "core", "dart"} \X Archs
  BY <1>2, <1>3, JoinedRows
<1>5. /\ Rowed(R("asset") \o R("core") \o R("dart") \o R("plugin"))
      /\ Members(R("asset") \o R("core") \o R("dart") \o R("plugin"))
         = {"asset", "core", "dart", "plugin"} \X Archs
  BY <1>2, <1>4, JoinedRows
<1>6. /\ Rowed(R("asset") \o R("core") \o R("dart") \o R("plugin") \o R("runner"))
      /\ Members(R("asset") \o R("core") \o R("dart") \o R("plugin") \o R("runner"))
         = {"asset", "core", "dart", "plugin", "runner"} \X Archs
  BY <1>2, <1>5, JoinedRows
<1>7. Rows = R("asset") \o R("core") \o R("dart") \o R("plugin") \o R("runner") \o R("rust")
  BY DEF Rows, R
<1>8. Rowed(Rows) /\ Members(Rows) = own \X Archs
  <2>1. /\ Rowed(R("rust")) /\ Members(R("rust")) = {"rust"} \X Archs
        /\ ({"asset", "core", "dart", "plugin", "runner"} \X Archs) \cap ({"rust"} \X Archs) = {}
        /\ own \X Archs = ({"asset", "core", "dart", "plugin", "runner"} \X Archs) \cup ({"rust"} \X Archs)
    BY <1>2
  <2> QED
    BY <1>6, <1>7, <2>1, JoinedRows
<1>9. CASE "vendor" \in DOMAIN app
  <2>1. Planned = Rows \o R("vendor")
    BY <1>9 DEF Planned, R
  <2>2. (own \X Archs) \cap ({"vendor"} \X Archs) = {}
    OBVIOUS
  <2>3. Rowed(Planned) /\ Members(Planned) = (own \X Archs) \cup ({"vendor"} \X Archs)
    BY <1>2, <1>8, <2>1, <2>2, JoinedRows
  <2>4. DOMAIN app = own \cup {"vendor"}
    BY <1>1, <1>9 DEF WorldIsBuilt
  <2> QED
    BY <2>3, <2>4 DEF Slices
<1>10. CASE "vendor" \notin DOMAIN app
  <2>1. Planned = Rows
    BY <1>8, <1>10, ConcatEmptySeq DEF Planned, Rowed
  <2>2. DOMAIN app = own
    BY <1>1, <1>10 DEF WorldIsBuilt
  <2> QED
    BY <1>8, <2>1, <2>2 DEF Slices
<1> QED
  BY <1>9, <1>10

(* The next row leaves the others as they are. *)
LEMMA NextRow ==
    ASSUME Rowed(todo), todo # <<>>
    PROVE  /\ Rowed(Tail(todo)) /\ Head(todo) \in Members(todo) /\ Head(todo) \notin Members(Tail(todo))
           /\ Members(todo) = {Head(todo)} \cup Members(Tail(todo))
<1>1. PICK n \in Nat : n = Len(todo) /\ n > 0
  BY LenProperties, EmptySeq DEF Rowed
<1>2. /\ Head(todo) = todo[1] /\ Tail(todo) \in Seq(AllRows) /\ Len(Tail(todo)) = n - 1
      /\ \A i \in 1..(n - 1) : Tail(todo)[i] = todo[i + 1]
  BY <1>1, HeadTailProperties DEF Rowed
<1>3. Distinct(Tail(todo))
  BY <1>1, <1>2 DEF Rowed, Distinct
<1>4. Head(todo) \notin Members(Tail(todo))
  <2> SUFFICES ASSUME NEW i \in 1..(n - 1), Tail(todo)[i] = todo[1] PROVE FALSE
    BY <1>2 DEF Members
  <2>1. i + 1 \in 1..n /\ 1 \in 1..n /\ todo[i + 1] = todo[1]
    BY <1>1, <1>2
  <2>2. i + 1 = 1
    BY <1>1, <2>1 DEF Rowed, Distinct
  <2> QED
    BY <2>2
<1>5. Members(todo) \subseteq {Head(todo)} \cup Members(Tail(todo))
  <2> SUFFICES ASSUME NEW i \in 1..n, i # 1 PROVE todo[i] \in Members(Tail(todo))
    BY <1>1, <1>2 DEF Members
  <2>1. i - 1 \in 1..(n - 1) /\ Tail(todo)[i - 1] = todo[i]
    BY <1>2
  <2> QED
    BY <1>2, <2>1 DEF Members
<1>6. {Head(todo)} \cup Members(Tail(todo)) \subseteq Members(todo)
  <2>1. Head(todo) \in Members(todo)
    BY <1>1, <1>2 DEF Members
  <2>2. ASSUME NEW i \in 1..(n - 1) PROVE Tail(todo)[i] \in Members(todo)
    <3>1. i + 1 \in 1..n /\ Tail(todo)[i] = todo[i + 1]
      BY <1>2
    <3> QED
      BY <1>1, <3>1 DEF Members
  <2> QED
    BY <1>2, <2>1, <2>2 DEF Members
<1> QED
  BY <1>2, <1>3, <1>4, <1>5, <1>6 DEF Rowed

SameWorld == UNCHANGED <<app, inventory, receipt, empty, images, clean>>
LEMMA SameWorldSameRows ==
    ASSUME SameWorld
    PROVE  /\ \A m : SourceOf(m)' = SourceOf(m)
           /\ \A m : Required(m)' <=> Required(m)
           /\ Slices' = Slices
           /\ Loads(inventory, receipt, app, "Release", empty)'
              <=> Loads(inventory, receipt, app, "Release", empty)
<1> USE DEF SameWorld
<1>1. \A m : SourceOf(m)' = SourceOf(m)
  BY DEF SourceOf
<1>2. \A m : Promoted(m)' <=> Promoted(m)
  BY DEF Promoted, Mapped
<1>3. \A m : Required(m)' <=> Required(m)
  BY <1>1, <1>2 DEF Required
<1> QED
  BY <1>1, <1>3 DEF Slices

(* A row ends: what the draft has of it is checked, the others stay. *)
LEMMA RowKeepsDraft ==
    ASSUME DraftHolds, SameWorld, todo # <<>>, NEW h, h = Head(todo), todo' = Tail(todo),
           \A s \in DOMAIN files : s # h => s \in DOMAIN files' /\ files'[s] = files[s],
           SlicesOf(drafted.artifacts) \subseteq DOMAIN files,
           drafted.artifacts \subseteq drafted'.artifacts,
           drafted.limits \subseteq drafted'.limits,
           drafted.required \subseteq drafted'.required,
           \A x \in drafted'.artifacts \ drafted.artifacts :
               ArtifactHolds(x)' /\ x.slice = h,
           \A s \in drafted'.required \ drafted.required : s \in SlicesOf(drafted'.artifacts),
           \A l \in drafted'.limits \ drafted.limits :
               \/ /\ l.kind = "prebuilt" /\ <<l.target, l.arch>> = h
                  /\ ~Required(l.target)
                  /\ drafted'.artifacts = drafted.artifacts
               \/ l.kind = "dart" /\ l.target = "dart"
               \/ l.kind = "go" /\ l.target = "core",
           ~failed' => ~failed /\ Done(h)'
    PROVE  DraftHolds'
<1>1. /\ Rowed(todo) /\ Members(todo) \subseteq Slices
      /\ \A x \in drafted.artifacts : ArtifactHolds(x) /\ Past(x.slice)
      /\ drafted.required \subseteq SlicesOf(drafted.artifacts)
      /\ \A l \in drafted.limits : LimitDrafted(l)
      /\ ~failed => \A s \in Slices : s \in Members(todo) \/ Done(s)
  BY DEF DraftHolds
<1>2. /\ Rowed(todo') /\ h \in Members(todo) /\ h \notin Members(todo')
      /\ Members(todo) = {h} \cup Members(todo')
  BY <1>1, NextRow
<1>3. \A s : Past(s) => Past(s)' /\ s # h
  BY <1>2, SameWorldSameRows DEF Past
<1>4. Past(h)'
  BY <1>1, <1>2, SameWorldSameRows DEF Past
<1>5. SlicesOf(drafted.artifacts) \subseteq SlicesOf(drafted'.artifacts)
  BY DEF SlicesOf
<1>6. \A x \in drafted'.artifacts : ArtifactHolds(x)' /\ Past(x.slice)'
  <2> SUFFICES ASSUME NEW x \in drafted'.artifacts PROVE ArtifactHolds(x)' /\ Past(x.slice)'
    OBVIOUS
  <2>1. CASE x \in drafted.artifacts
    <3>1. ArtifactHolds(x) /\ Past(x.slice) /\ x.slice \in DOMAIN files
      BY <1>1, <2>1 DEF SlicesOf
    <3>2. x.slice # h /\ Past(x.slice)' /\ files'[x.slice] = files[x.slice]
      BY <1>3, <3>1
    <3>3. ArtifactHolds(x)'
      BY <3>1, <3>2, SameWorldSameRows DEF ArtifactHolds, SameWorld
    <3> QED
      BY <3>2, <3>3
  <2>2. CASE x \notin drafted.artifacts
    BY <1>4, <2>2
  <2> QED
    BY <2>1, <2>2
<1>7. drafted'.required \subseteq SlicesOf(drafted'.artifacts)
  BY <1>1, <1>5
<1>8. ASSUME NEW l \in drafted'.limits PROVE LimitDrafted(l)'
  <2> DEFINE sl == <<l.target, l.arch>>
  <2>1. CASE l \in drafted.limits
    <3>1. CASE /\ l.kind = "prebuilt" /\ Past(sl) /\ ~Required(l.target)
               /\ sl \notin SlicesOf(drafted.artifacts)
      <4>1. Past(sl)' /\ sl # h /\ ~Required(l.target)'
        BY <1>3, <3>1, SameWorldSameRows
      <4>2. sl \notin SlicesOf(drafted'.artifacts)
        BY <3>1, <4>1 DEF SlicesOf
      <4> QED
        BY <3>1, <4>1, <4>2 DEF LimitDrafted
    <3> QED
      BY <1>1, <2>1, <3>1 DEF LimitDrafted
  <2>2. CASE l \notin drafted.limits
    <3>1. CASE /\ l.kind = "prebuilt" /\ sl = h /\ ~Required(l.target)
               /\ drafted'.artifacts = drafted.artifacts
      <4>1. h \notin SlicesOf(drafted'.artifacts)
        BY <1>1, <1>3, <3>1 DEF SlicesOf
      <4> QED
        BY <1>4, <3>1, <4>1, SameWorldSameRows DEF LimitDrafted
    <3> QED
      BY <1>8, <2>2, <3>1 DEF LimitDrafted
  <2> QED
    BY <2>1, <2>2
<1>9. ASSUME ~failed', NEW s \in Slices PROVE s \in Members(todo') \/ Done(s)'
  <2>1. CASE s = h
    BY <1>9, <2>1
  <2>2. CASE Done(s)
    BY <1>5, <2>2, SameWorldSameRows DEF Done
  <2> QED
    BY <1>1, <1>2, <1>9, <2>1, <2>2
<1>10. Members(todo') \subseteq Slices'
  BY <1>1, <1>2, SameWorldSameRows
<1>11. Loads(inventory, receipt, app, "Release", empty)' /\ clean'
  BY SameWorldSameRows DEF DraftHolds, SameWorld
<1> QED
  BY <1>2, <1>6, <1>7, <1>8, <1>9, <1>10, <1>11, SameWorldSameRows DEF DraftHolds

(* A complete draft is accepted. *)
LEMMA CompleteDraftIsAccepted ==
    ASSUME MacInv, DraftHolds, ~failed, todo = <<>>, SameWorld, UNCHANGED files,
           {"rust", "core", "dart"} \subseteq DOMAIN app,
           HostsWithin({s[1] : s \in drafted.required}),
           macManifest' = [drafted EXCEPT !.limits = @ \cup LineLimits \cup StaticLimits]
    PROVE  AppAccepts'
<1>1. /\ \A x \in drafted.artifacts : ArtifactHolds(x)
      /\ drafted.required \subseteq SlicesOf(drafted.artifacts)
      /\ \A l \in drafted.limits : LimitDrafted(l)
  BY DEF DraftHolds
<1>2. Members(todo) = {}
  BY EmptySeq DEF Members
<1>3. \A s \in Slices : Done(s)
  BY <1>2 DEF DraftHolds
<1>4. /\ macManifest'.artifacts = drafted.artifacts /\ macManifest'.required = drafted.required
      /\ macManifest'.limits = drafted.limits \cup LineLimits \cup StaticLimits
      /\ macManifest' # None
  <2>1. DraftShaped
    BY DEF MacInv, FilesShaped
  <2>2. "limits" \in DOMAIN macManifest' /\ "limits" \notin DOMAIN None
    BY <2>1 DEF DraftShaped, None
  <2> QED
    BY <2>1, <2>2 DEF DraftShaped
<1>5. Listed' = SlicesOf(drafted.artifacts)
  BY <1>4 DEF Listed, SlicesOf
<1>6. /\ \A m, a : Mapped(m, a)' = Mapped(m, a)
      /\ \A m, a : Owned(m, a)' <=> Owned(m, a)
  BY SameWorldSameRows DEF Owned, Mapped, SameWorld
<1>7. \A m : \A a \in Archs : Owned(m, a) => Required(m)
  BY DEF Owned, Required, Promoted
<1>8. \A s \in Slices : s[1] # "dart" /\ Required(s[1]) =>
          s \in drafted.required /\ s \in SlicesOf(drafted.artifacts)
  BY <1>3 DEF Done
<1>9. AppAudited'
  <2>1. <<"rust", "arm64">> \in Slices /\ Required("rust")
    BY DEF Slices, Archs, Required, SourceOf
  <2>2. <<"rust", "arm64">> \in drafted.required /\ <<"rust", "arm64">> \in SlicesOf(drafted.artifacts)
    BY <1>8, <2>1
  <2>3. {"runner", "rust"} \subseteq DOMAIN app'
    BY DEF MacInv, WorldIsBuilt, SameWorld
  <2>4. Loads(inventory, receipt, app, "Release", empty)'
    BY SameWorldSameRows DEF DraftHolds
  <2> QED
    BY <1>4, <1>5, <2>2, <2>3, <2>4 DEF AppAudited
<1>10. RequiredAudited'
  <2>1. HostsWithin({s[1] : s \in macManifest.required})'
    BY <1>4 DEF HostsWithin, SameWorld
  <2>2. \A s \in Slices' : s[1] # "dart" /\ Owned(s[1], s[2])' => s \in macManifest'.required
    <3> SUFFICES ASSUME NEW s \in Slices, s[1] # "dart", Owned(s[1], s[2])
                 PROVE  s \in drafted.required
      BY <1>4, <1>6, SameWorldSameRows
    <3>1. s[2] \in Archs
      BY DEF Slices
    <3> QED
      BY <1>7, <1>8, <3>1
  <2> QED
    BY <1>1, <1>4, <1>5, <2>1, <2>2 DEF RequiredAudited
<1>11. LineLimits' = LineLimits /\ StaticLimits' = StaticLimits
  BY DEF LineLimits, StaticLimits, SameWorld
<1>12. ASSUME NEW l \in macManifest'.limits PROVE LimitHolds(l)'
  <2>1. CASE l \in LineLimits
    <3>1. l.kind \in {"lines", "linker"}
      BY <2>1 DEF LineLimits, Limit
    <3> QED
      BY <1>11, <2>1, <3>1 DEF LimitHolds
  <2>2. CASE l \in StaticLimits
    <3>1. l.kind = "static"
      BY <2>2 DEF StaticLimits, Limit
    <3> QED
      BY <1>11, <2>2, <3>1 DEF LimitHolds
  <2>3. CASE l \in drafted.limits
    <3>1. CASE /\ l.kind = "prebuilt" /\ Past(<<l.target, l.arch>>) /\ ~Required(l.target)
               /\ <<l.target, l.arch>> \notin SlicesOf(drafted.artifacts)
      <4>1. <<l.target, l.arch>> \in Slices /\ l.arch \in Archs
        BY <3>1 DEF Past, Slices
      <4>2. ~Owned(l.target, l.arch)'
        BY <1>6, <1>7, <3>1, <4>1
      <4> QED
        BY <1>5, <3>1, <4>1, <4>2, SameWorldSameRows DEF LimitHolds
    <3>2. CASE (l.kind = "dart" /\ l.target = "dart") \/ (l.kind = "go" /\ l.target = "core")
      BY <3>2 DEF LimitHolds
    <3> QED
      BY <1>1, <2>3, <3>1, <3>2 DEF LimitDrafted
  <2> QED
    BY <1>4, <1>12, <2>1, <2>2, <2>3
<1>13. LimitsAudited'
  <2>1. ASSUME NEW s \in Slices
        PROVE  s \in Listed' \cup {<<l.target, l.arch>> : l \in
                   {k \in macManifest'.limits : k.kind \in {"prebuilt", "dart", "go"}}}
    <3>1. s = <<s[1], s[2]>>
      BY DEF Slices
    <3>2. CASE s \in SlicesOf(drafted.artifacts)
      BY <1>5, <3>2
    <3>3. ASSUME NEW kind \in {"prebuilt", "dart"}, Limit(kind, s[1], s[2], "none") \in drafted.limits
          PROVE  s \in {<<l.target, l.arch>> : l \in
                     {k \in macManifest'.limits : k.kind \in {"prebuilt", "dart", "go"}}}
      <4> DEFINE l == Limit(kind, s[1], s[2], "none")
      <4>1. l \in macManifest'.limits /\ l.kind = kind /\ s = <<l.target, l.arch>>
        BY <1>4, <3>1, <3>3 DEF Limit
      <4> QED
        BY <4>1
    <3>4. s[1] = "dart" => Limit("dart", s[1], s[2], "none") \in drafted.limits
      BY <1>3 DEF Done
    <3> QED
      BY <1>3, <3>2, <3>3, <3>4 DEF Done
  <2> QED
    BY <1>4, <1>11, <1>12, <2>1, SameWorldSameRows DEF LimitsAudited
<1>14. \A x \in macManifest'.artifacts : ArtifactHolds(x)'
  BY <1>1, <1>4, SameWorldSameRows DEF ArtifactHolds, SameWorld
<1> QED
  BY <1>9, <1>10, <1>13, <1>14 DEF AppAccepts

(* One row of the preparation. *)
LEMMA RowPreparesWell ==
    ASSUME MacInv, macPc = "rows", DraftHolds,
           \/ Turn /\ RowFails /\ UNCHANGED files
           \/ Dart \/ Unmatched \/ \E b : Normalize(b)
    PROVE  DraftHolds'
<1> USE DEF world
<1>1. /\ SameWorld /\ todo # <<>> /\ todo' = Tail(todo)
  BY DEF Dart, Unmatched, Normalize, Turn, TurnOf, RowFails, RowEnds,
     SameWorld
<1>2. PICK h : h = Head(todo) /\ h \in Slices /\ h = <<Module, Arch>> /\ Arch \in Archs
  <2>1. Head(todo) \in Slices
    BY <1>1, NextRow DEF DraftHolds
  <2> QED
    BY <2>1 DEF Slices, Module, Arch
<1>3. SlicesOf(drafted.artifacts) \subseteq DOMAIN files /\ DraftShaped
  BY DEF MacInv, FilesShaped
<1>4. CASE drafted' = drafted /\ failed' = TRUE /\ UNCHANGED files
  BY <1>1, <1>2, <1>3, <1>4, RowKeepsDraft
<1>5. CASE Dart
  <2> DEFINE l == Limit("dart", "dart", Arch, "none")
  <2>1. /\ UNCHANGED <<files, failed>> /\ Module = "dart"
        /\ drafted' = [drafted EXCEPT !.limits = @ \cup {l}]
    BY <1>5 DEF Dart
  <2>2. /\ drafted'.artifacts = drafted.artifacts /\ drafted'.required = drafted.required
        /\ drafted'.limits = drafted.limits \cup {l}
    BY <1>3, <2>1 DEF DraftShaped
  <2>3. l.kind = "dart" /\ l.target = "dart"
    BY DEF Limit
  <2>4. Done(h)'
    BY <1>2, <2>1, <2>2 DEF Done
  <2> QED
    BY <1>1, <1>2, <1>3, <2>1, <2>2, <2>3, <2>4, RowKeepsDraft
<1>6. CASE Unmatched /\ ~Required(Module)
  <2> DEFINE l == Limit("prebuilt", Module, Arch, "none")
  <2>1. /\ UNCHANGED <<files, failed>> /\ Module # "dart"
        /\ drafted' = [drafted EXCEPT !.limits = @ \cup {l}]
    BY <1>6 DEF Unmatched, TurnOf
  <2>2. /\ drafted'.artifacts = drafted.artifacts /\ drafted'.required = drafted.required
        /\ drafted'.limits = drafted.limits \cup {l}
    BY <1>3, <2>1 DEF DraftShaped
  <2>3. l.kind = "prebuilt" /\ <<l.target, l.arch>> = h /\ ~Required(l.target)
    BY <1>2, <1>6 DEF Limit
  <2>4. Done(h)'
    <3>1. ~Required(h[1])' /\ Limit("prebuilt", h[1], h[2], "none") \in drafted'.limits /\ h[1] # "dart"
      BY <1>1, <1>2, <1>6, <2>1, <2>2, SameWorldSameRows
    <3> QED
      BY <3>1 DEF Done
  <2> QED
    BY <1>1, <1>2, <1>3, <2>1, <2>2, <2>3, <2>4, RowKeepsDraft
<1>7. ASSUME NEW b, Normalize(b) PROVE DraftHolds'
  <2>1. /\ files' = [t \in DOMAIN files \cup {h} |-> IF t = h THEN Normalized(h) ELSE files[t]]
        /\ Module # "dart"
    BY <1>2, <1>7 DEF Normalize, TurnOf
  <2>2. \A t \in DOMAIN files : t # h => t \in DOMAIN files' /\ files'[t] = files[t]
    BY <2>1
  <2>3. CASE drafted' = drafted /\ failed' = TRUE
    BY <1>1, <1>2, <1>3, <2>2, <2>3, RowKeepsDraft
  <2>4. CASE /\ failed' = failed
             /\ drafted' = [artifacts |-> drafted.artifacts \cup {[slice |-> h, source |-> SourceOf(Module)]},
                          required |-> drafted.required \cup (IF Required(Module) THEN {h} ELSE {}),
                          limits |-> drafted.limits \cup
                              (IF Module = "core" THEN {Limit("go", "core", Arch, "none")} ELSE {})]
    <3> PICK x : x = [slice |-> h, source |-> SourceOf(Module)]
      OBVIOUS
    <3>1. /\ drafted'.artifacts = drafted.artifacts \cup {x}
          /\ drafted'.required = drafted.required \cup (IF Required(Module) THEN {h} ELSE {})
      BY <2>4
    <3>2. ArtifactHolds(x)'
      <4>1. h \in DOMAIN files' /\ files'[h] = Dsym(h[1], h[2], app[h[1]], TRUE)
        BY <2>1 DEF Normalized
      <4>2. files'[h].build = app'[h[1]] /\ files'[h].usable
        BY <1>1, <4>1 DEF Dsym, SameWorld
      <4>3. h \in Slices' /\ SourceOf(Module) = SourceOf(h[1])'
        BY <1>1, <1>2, SameWorldSameRows
      <4> QED
        BY <4>2, <4>3 DEF ArtifactHolds
    <3>3. h \in SlicesOf(drafted'.artifacts)
      BY <3>1 DEF SlicesOf
    <3>4. \A l \in drafted'.limits \ drafted.limits : l.kind = "go" /\ l.target = "core"
      BY <2>4 DEF Limit
    <3>5. Done(h)'
      BY <1>1, <1>2, <2>1, <3>1, <3>3, SameWorldSameRows DEF Done
    <3>6. /\ drafted.artifacts \subseteq drafted'.artifacts /\ drafted.limits \subseteq drafted'.limits
          /\ drafted.required \subseteq drafted'.required
          /\ \A y \in drafted'.artifacts \ drafted.artifacts : ArtifactHolds(y)' /\ y.slice = h
          /\ \A s \in drafted'.required \ drafted.required : s \in SlicesOf(drafted'.artifacts)
      BY <2>4, <3>1, <3>2, <3>3
    <3> QED
      BY <1>1, <1>2, <1>3, <2>2, <2>4, <3>4, <3>5, <3>6, RowKeepsDraft
  <2> QED
    BY <1>2, <1>7, <2>3, <2>4 DEF Normalize
<1>8. RowFails => drafted' = drafted /\ failed' = TRUE
  BY DEF RowFails
<1>9. Unmatched /\ Required(Module) => drafted' = drafted /\ failed' = TRUE /\ UNCHANGED files
  BY DEF Unmatched
<1> QED
  BY <1>4, <1>5, <1>6, <1>7, <1>8, <1>9

LEMMA PreparedInit == MacInit => Prepared
  BY DEF MacInit, Prepared

LEMMA PreparedNext == MacInv /\ Prepared /\ [MacNext]_(macVars) => Prepared'
<1> SUFFICES ASSUME MacInv, Prepared, [MacNext]_(macVars) PROVE Prepared'
  OBVIOUS
<1> USE DEF world, work, results
<1>1. CASE UNCHANGED macVars
  <2>1. SameWorld /\ UNCHANGED <<macPc, failed, todo, drafted, files, macManifest, ended, verdict>>
    BY <1>1 DEF macVars, SameWorld
  <2>2. AppAccepts' <=> AppAccepts
    BY <2>1, SameAppSameAudit DEF SameWorld
  <2>3. DraftHolds => DraftHolds'
    BY <2>1, SameWorldSameRows
    DEF DraftHolds, LimitDrafted, Done, Past, ArtifactHolds, SameWorld
  <2> QED
    BY <2>1, <2>2, <2>3 DEF Prepared, SameWorld, NoDraft
<1>2. CASE Construct
  <2>1. drafted = NoDraft /\ verdict = "none" /\ UNCHANGED <<drafted, verdict>> /\ ended' = "never"
        /\ macPc' \in {"idle", "made"}
    BY <1>2 DEF Construct, MacInv, VerdictIsLast
  <2> QED
    BY <2>1 DEF Prepared, NoDraft
<1>3. CASE PrepareApp
  BY <1>3 DEF PrepareApp, Prepared, MacInv, VerdictIsLast, NoDraft
<1>4. CASE Load
  <2>1. /\ macPc = "load" /\ clean' = TRUE /\ drafted = NoDraft /\ UNCHANGED <<drafted, ended, verdict>>
        /\ ended = "never" /\ verdict = "none"
    BY <1>4 DEF Load, Prepared, MacInv, VerdictIsLast
  <2>2. CASE macPc' = "failing" /\ failed' = TRUE
    BY <2>1, <2>2 DEF Prepared
  <2>3. CASE /\ Loads(inventory, receipt, app, "Release", empty)
             /\ macPc' = "rows" /\ todo' = Planned
    <3>1. Rowed(todo') /\ Members(todo') = Slices
      BY <2>3, PlannedIsApp DEF MacInv
    <3>2. UNCHANGED <<app, inventory, receipt, empty>>
      BY <1>4 DEF Load
    <3>3. Slices' = Slices
      BY <3>2 DEF Slices
    <3>4. drafted'.artifacts = {} /\ drafted'.required = {} /\ drafted'.limits = {}
      BY <2>1 DEF NoDraft
    <3>5. DraftHolds'
      BY <2>1, <2>3, <3>1, <3>2, <3>3, <3>4 DEF DraftHolds, SlicesOf
    <3> QED
      BY <2>1, <2>3, <3>5 DEF Prepared
  <2> QED
    BY <1>4, <2>2, <2>3 DEF Load
<1>5. CASE Late \/ \E b : Generate(b) \/ Normalize(b)
           \/ Overdue \/ Dart \/ Unmatched
  <2>1. /\ macPc = "rows" /\ macPc' = "rows" /\ UNCHANGED <<ended, verdict>>
        /\ ended = "never" /\ verdict = "none" /\ DraftHolds
    BY <1>5 DEF Late, Generate, Normalize, Overdue, Dart, Unmatched, Turn,
       TurnOf, RowFails, RowEnds, Prepared, MacInv, VerdictIsLast
  <2>2. CASE SameWorld /\ UNCHANGED <<failed, todo, drafted, files>>
    <3>1. DraftHolds'
      BY <2>1, <2>2, SameWorldSameRows
      DEF DraftHolds, LimitDrafted, Done, Past, ArtifactHolds, SameWorld
    <3> QED
      BY <2>1, <3>1 DEF Prepared
  <2>3. CASE \/ Turn /\ RowFails /\ UNCHANGED files
             \/ Dart \/ Unmatched \/ \E b : Normalize(b)
    BY <2>1, <2>3, RowPreparesWell DEF Prepared
  <2>4. Late => SameWorld /\ UNCHANGED <<failed, todo, drafted, files>>
    BY DEF Late, SameWorld
  <2>5. ASSUME NEW b, Generate(b)
        PROVE  \/ Turn /\ RowFails /\ UNCHANGED files
               \/ SameWorld /\ UNCHANGED <<failed, todo, drafted, files>>
    BY <2>5 DEF Generate, TurnOf, SameWorld
  <2>6. Overdue => Turn /\ RowFails /\ UNCHANGED files
    BY DEF Overdue
  <2> QED
    BY <1>5, <2>2, <2>3, <2>4, <2>5, <2>6
<1>6. CASE Finish
  <2>1. /\ macPc = "rows" /\ todo = <<>> /\ DraftHolds /\ SameWorld /\ UNCHANGED <<files, ended, verdict>>
        /\ ended = "never" /\ verdict = "none"
    BY <1>6 DEF Finish, Prepared, MacInv, VerdictIsLast, SameWorld
  <2>2. CASE macPc' = "failing" /\ failed' = TRUE
    BY <2>1, <2>2 DEF Prepared
  <2>3. CASE macPc' = "report" /\ failed' = failed
    <3>1. /\ ~failed /\ {"rust", "core", "dart"} \subseteq DOMAIN app
          /\ HostsWithin({s[1] : s \in drafted.required})
          /\ macManifest' = [drafted EXCEPT !.limits = @ \cup LineLimits \cup StaticLimits]
      BY <1>6, <2>3 DEF Finish
    <3>2. AppAccepts'
      BY <2>1, <3>1, CompleteDraftIsAccepted
    <3>3. clean'
      BY <2>1 DEF DraftHolds, SameWorld
    <3> QED
      BY <2>1, <2>3, <3>2, <3>3 DEF Prepared
  <2> QED
    BY <1>6, <2>2, <2>3 DEF Finish
<1>7. CASE Failing
  BY <1>7 DEF Failing, Prepared, MacInv, VerdictIsLast
<1>8. CASE Killed
  BY <1>8 DEF Killed, Prepared, MacInv, VerdictIsLast
<1>9. ASSUME NEW b, WriteReport(b) PROVE Prepared'
  <2>1. /\ macPc = "report" /\ macPc' = "idle" /\ verdict = "none" /\ verdict' = "none"
        /\ ended' = "complete" => ~failed /\ UNCHANGED macManifest
    BY <1>9 DEF WriteReport, MacInv, VerdictIsLast
  <2>2. UNCHANGED <<app, inventory, receipt, empty, images, files, clean>>
    BY <1>9 DEF WriteReport
  <2>3. ended' = "complete" => AppAccepts'
    BY <2>1, <2>2, SameAppSameAudit DEF Prepared
  <2> QED
    BY <2>1, <2>3 DEF Prepared
<1>10. CASE Interferes
  <2>1. /\ macPc = "idle" /\ macPc' = "idle" /\ clean' = FALSE /\ verdict' = "none"
    BY <1>10 DEF Interferes, AppChange, Rebuild, Phase, DisownAll, Fill, Spoil, Hide
  <2> QED
    BY <2>1 DEF Prepared
<1>11. ASSUME NEW works, AuditApp(works) PROVE Prepared'
  <2>1. /\ UNCHANGED <<app, inventory, receipt, empty, images, files, macManifest, macPc, ended, clean>>
        /\ macPc = "idle"
    BY <1>11 DEF AuditApp
  <2>2. verdict' = "refused" => ~AppAccepts
    BY <1>11 DEF AuditApp
  <2>3. AppAccepts' <=> AppAccepts
    BY <2>1, SameAppSameAudit
  <2> QED
    BY <2>1, <2>2, <2>3 DEF Prepared
<1>12. CASE MacNext
  BY <1>2, <1>3, <1>4, <1>5, <1>6, <1>7, <1>8, <1>9, <1>10, <1>11, <1>12, MacActions
<1> QED
  BY <1>1, <1>12

(* The audit refuses nothing a complete preparation of the same app left, if   *)
(* nothing happened in between (Preparer, audit_macos).                     *)
THEOREM PreparationsAreAccepted == MacSpec => []PreparedIsAccepted
<1>1. Prepared => PreparedIsAccepted
  BY DEF Prepared, PreparedIsAccepted
<1> QED
  BY <1>1, MacInvInit, MacInvNext, PreparedInit, PreparedNext, PTL DEF MacSpec

-----------------------------------------------------------------------------
(* The targets of a product, and the products a target needs. *)
Within(p) ==
    CASE p = "Root" -> {"root"} [] p = "Plugin" -> {"plugin"} [] p = "Shared" -> {"shared"}
      [] p = "Vendor" -> {"helper", "vendor"}
Needed(t) ==
    CASE t = "root" -> {"Plugin"} \cup (IF graph.declares = "yes" THEN {"Shared"} ELSE {})
      [] t = "plugin" -> {"Shared", "Vendor"}
      [] t = "helper" -> IF graph.helper = "needy" THEN {"Shared"} ELSE {}
      [] t = "shared" -> {}

LEMMA GraphParts ==
    ASSUME graph \in Graphs
    PROVE  /\ graph.direct \in {{}, {"Root"}, {"Root", "Vendor"}}
           /\ graph.images \subseteq {"plugin", "shared", "vendor", "engine"}
           /\ graph.payload \in {"archive", "vendor", "engine", "other"}
           /\ graph.declares \in {"no", "elsewhere", "yes"}
           /\ graph.helper \in {"comments", "code", "needy"}
           /\ graph.backwards \in BOOLEAN
BY DEF Graphs

LEMMA Turned ==
    ASSUME NEW a, NEW b
    PROVE  Reverse(<<a, b>>) = <<b, a>>
<1>1. Reverse(<<a, b>>) = [i \in 1..2 |-> <<a, b>>[(2 - i) + 1]]
  BY DEF Reverse
<1>2. <<b, a>> = [i \in 1..2 |-> <<b, a>>[i]]
  BY SMT
<1>3. \A i \in 1..2 : <<a, b>>[(2 - i) + 1] = <<b, a>>[i]
  <2>1. <<a, b>>[2] = b /\ <<a, b>>[1] = a /\ <<b, a>>[1] = b /\ <<b, a>>[2] = a
    OBVIOUS
  <2>2. \A i \in 1..2 : i = 1 \/ i = 2
    OBVIOUS
  <2>3. (2 - 1) + 1 = 2 /\ (2 - 2) + 1 = 1
    OBVIOUS
  <2>4. ASSUME NEW i \in 1..2 PROVE <<a, b>>[(2 - i) + 1] = <<b, a>>[i]
    BY <2>1, <2>2, <2>3
  <2> QED
    BY <2>4
<1> QED
  BY <1>1, <1>2, <1>3

LEMMA Joined ==
    ASSUME NEW a, NEW b
    PROVE  <<a>> \o <<b>> = <<a, b>>
<1>1. /\ <<a>> \in Seq({a, b}) /\ <<b>> \in Seq({a, b}) /\ <<a, b>> \in Seq({a, b})
      /\ Len(<<a>>) = 1 /\ Len(<<b>>) = 1 /\ Len(<<a, b>>) = 2
      /\ <<a>>[1] = a /\ <<b>>[1] = b /\ <<a, b>>[1] = a /\ <<a, b>>[2] = b
  OBVIOUS
<1>2. /\ <<a>> \o <<b>> \in Seq({a, b}) /\ Len(<<a>> \o <<b>>) = 2
      /\ \A i \in 1..2 : (<<a>> \o <<b>>)[i] = IF i <= 1 THEN <<a>>[i] ELSE <<b>>[i - 1]
  BY <1>1, ConcatProperties
<1>3. \A i \in 1..2 : (<<a>> \o <<b>>)[i] = <<a, b>>[i]
  <2>1. \A i \in 1..2 : i = 1 \/ (i = 2 /\ ~(i <= 1) /\ i - 1 = 1)
    OBVIOUS
  <2> QED
    BY <1>1, <1>2, <2>1
<1> QED
  BY <1>1, <1>2, <1>3, SeqEqual

LEMMA Shortest ==
    /\ \A a : Reverse(<<a>>) = <<a>> /\ ToSet(<<a>>) = {a}
    /\ \A a, b : ToSet(<<a, b>>) = {a, b}
    /\ ToSet(<<>>) = {}
<1>1. ASSUME NEW a
      PROVE  Reverse(<<a>>) = <<a>> /\ ToSet(<<a>>) = {a}
  <2>1. Reverse(<<a>>) = [i \in 1..1 |-> <<a>>[(1 - i) + 1]]
    BY DEF Reverse
  <2>2. <<a>> = [i \in 1..1 |-> <<a>>[i]]
    BY SMT
  <2>3. \A i \in 1..1 : i = 1 /\ (1 - i) + 1 = 1
    OBVIOUS
  <2>4. Reverse(<<a>>) = <<a>>
    BY <2>1, <2>2, <2>3
  <2>5. DOMAIN <<a>> = {1} /\ <<a>>[1] = a
    OBVIOUS
  <2> QED
    BY <2>4, <2>5 DEF ToSet
<1>2. ASSUME NEW a, NEW b
      PROVE  ToSet(<<a, b>>) = {a, b}
  <2>1. DOMAIN <<a, b>> = {1, 2} /\ <<a, b>>[1] = a /\ <<a, b>>[2] = b
    OBVIOUS
  <2> QED
    BY <2>1 DEF ToSet
<1>3. DOMAIN <<>> = {}
  OBVIOUS
<1> QED
  BY <1>1, <1>2, <1>3 DEF ToSet

LEMMA InsideProduct ==
    ASSUME graph \in Graphs, NEW p \in Products
    PROVE  TargetsOf(p) \in Seq(Within(p)) /\ ToSet(TargetsOf(p)) = Within(p)
<1>1. CASE p = "Vendor"
  <2>1. TargetsOf(p) = <<"helper", "vendor">> \/ TargetsOf(p) = <<"vendor", "helper">>
    BY <1>1, Turned DEF TargetsOf, Ordered
  <2>2. Within(p) = {"helper", "vendor"}
    BY <1>1 DEF Within
  <2>3. <<"helper", "vendor">> \in Seq(Within(p)) /\ <<"vendor", "helper">> \in Seq(Within(p))
    BY <2>2
  <2>4. ToSet(<<"helper", "vendor">>) = Within(p) /\ ToSet(<<"vendor", "helper">>) = Within(p)
    BY <2>2, Shortest
  <2> QED
    BY <2>1, <2>3, <2>4
<1>2. ASSUME NEW t, p # "Vendor", TargetsOf(p) = <<t>>, Within(p) = {t}
      PROVE  TargetsOf(p) \in Seq(Within(p)) /\ ToSet(TargetsOf(p)) = Within(p)
  BY <1>2, Shortest
<1>3. CASE p = "Root"
  BY <1>2, <1>3 DEF TargetsOf, Within
<1>4. CASE p = "Plugin"
  BY <1>2, <1>4 DEF TargetsOf, Within
<1>5. CASE p = "Shared"
  BY <1>2, <1>5 DEF TargetsOf, Within
<1> QED
  BY <1>1, <1>3, <1>4, <1>5 DEF Products

LEMMA NeededByTarget ==
    ASSUME graph \in Graphs, NEW t \in SourceTargets
    PROVE  Needs(t) \in Seq(Needed(t)) /\ ToSet(Needs(t)) = Needed(t)
<1>1. ASSUME NEW a, NEW b, Needed(t) = {a, b}, Needs(t) \in {<<a, b>>, Reverse(<<a, b>>)}
      PROVE  Needs(t) \in Seq(Needed(t)) /\ ToSet(Needs(t)) = Needed(t)
  <2>1. Needs(t) = <<a, b>> \/ Needs(t) = <<b, a>>
    BY <1>1, Turned
  <2>2. <<a, b>> \in Seq(Needed(t)) /\ <<b, a>> \in Seq(Needed(t))
    BY <1>1
  <2>3. ToSet(<<a, b>>) = Needed(t) /\ ToSet(<<b, a>>) = Needed(t)
    BY <1>1, Shortest
  <2> QED
    BY <2>1, <2>2, <2>3
<1>2. ASSUME NEW a, Needed(t) = {a}, Needs(t) \in {<<a>>, Reverse(<<a>>)}
      PROVE  Needs(t) \in Seq(Needed(t)) /\ ToSet(Needs(t)) = Needed(t)
  <2>1. Needs(t) = <<a>> /\ ToSet(<<a>>) = {a}
    BY <1>2, Shortest
  <2> QED
    BY <1>2, <2>1
<1>3. ASSUME Needed(t) = {}, Needs(t) = <<>>
      PROVE  Needs(t) \in Seq(Needed(t)) /\ ToSet(Needs(t)) = Needed(t)
  BY <1>3, Shortest
<1>4. CASE t = "root"
  <2>1. CASE graph.declares = "yes"
    <3>1. <<"Plugin">> \o <<"Shared">> = <<"Plugin", "Shared">>
      BY Joined
    <3>2. Needs(t) \in {<<"Plugin", "Shared">>, Reverse(<<"Plugin", "Shared">>)}
      BY <1>4, <2>1, <3>1 DEF Needs, Ordered
    <3>3. Needed(t) = {"Plugin", "Shared"}
      BY <1>4, <2>1 DEF Needed
    <3> QED
      BY <1>1, <3>2, <3>3
  <2>2. CASE graph.declares # "yes"
    <3>1. <<"Plugin">> \o <<>> = <<"Plugin">>
      <4>1. <<"Plugin">> \in Seq({"Plugin"})
        OBVIOUS
      <4> QED
        BY <4>1, ConcatEmptySeq
    <3>2. Needs(t) \in {<<"Plugin">>, Reverse(<<"Plugin">>)}
      BY <1>4, <2>2, <3>1 DEF Needs, Ordered
    <3>3. Needed(t) = {"Plugin"}
      BY <1>4, <2>2 DEF Needed
    <3> QED
      BY <1>2, <3>2, <3>3
  <2> QED
    BY <2>1, <2>2
<1>5. CASE t = "plugin"
  <2>1. Needs(t) \in {<<"Shared", "Vendor">>, Reverse(<<"Shared", "Vendor">>)}
    BY <1>5 DEF Needs, Ordered
  <2>2. Needed(t) = {"Shared", "Vendor"}
    BY <1>5 DEF Needed
  <2> QED
    BY <1>1, <2>1, <2>2
<1>6. CASE t = "helper"
  <2>1. CASE graph.helper = "needy"
    <3>1. Needs(t) \in {<<"Shared">>, Reverse(<<"Shared">>)} /\ Needed(t) = {"Shared"}
      BY <1>6, <2>1 DEF Needs, Needed
    <3> QED
      BY <1>2, <3>1
  <2>2. CASE graph.helper # "needy"
    BY <1>3, <1>6, <2>2 DEF Needs, Needed
  <2> QED
    BY <2>1, <2>2
<1>7. CASE t = "shared"
  BY <1>3, <1>7 DEF Needs, Needed
<1> QED
  BY <1>4, <1>5, <1>6, <1>7 DEF SourceTargets

ImageName(p) ==
    CASE p = "Plugin" -> "plugin" [] p = "Shared" -> "shared" [] p = "Vendor" -> "vendor"
      [] p = "Root" -> "root"

(* Where products end up: the image of their own, or their host's. *)
Into(p, h) == IF ImageOf(p) = {} THEN h ELSE ImageName(p)
IntoAll(p, hosts) == {Into(p, h) : h \in hosts}
Linked(p) == IF p \in graph.direct THEN {"runner"} ELSE {}
InRoot == IntoAll("Root", Linked("Root"))
InPlugin == IntoAll("Plugin", InRoot)
FromVendor == InPlugin \cup Linked("Vendor")
InVendor == IntoAll("Vendor", FromVendor)
FromShared ==
    (IF graph.declares = "yes" THEN InRoot ELSE {}) \cup InPlugin
    \cup (IF graph.helper = "needy" THEN InVendor ELSE {})
HostsFrom(p) ==
    CASE p = "Root" -> Linked("Root") [] p = "Plugin" -> InRoot
      [] p = "Vendor" -> FromVendor [] p = "Shared" -> FromShared
HostsIn(p) == IntoAll(p, HostsFrom(p))

LEMMA OneImage ==
    ASSUME graph \in Graphs, NEW p \in Products
    PROVE  /\ ImageOf(p) = {} \/ (ImageOf(p) = {ImageName(p)} /\ ImageName(p) \in graph.images)
           /\ ImageOf(p) # {} => (CHOOSE m \in ImageOf(p) : TRUE) = ImageName(p)
           /\ ImageOf("Root") = {}
<1>1. ImageOf(p) \subseteq {ImageName(p)} /\ ImageOf(p) \subseteq graph.images
  BY DEF ImageOf, ImageName, Products
<1>2. ImageOf("Root") = {}
  BY GraphParts DEF ImageOf
<1>3. ImageOf(p) = {} \/ (ImageOf(p) = {ImageName(p)} /\ ImageName(p) \in graph.images)
  BY <1>1
<1>4. \A m : (CHOOSE x \in {m} : TRUE) = m
  OBVIOUS
<1> QED
  BY <1>2, <1>3, <1>4

(* A target a product holds ends up where the product does, and what it needs *)
(* is reached from there.                                                   *)
ProductOf(t) ==
    CASE t = "root" -> "Root" [] t = "plugin" -> "Plugin" [] t = "shared" -> "Shared"
      [] t \in {"helper", "vendor"} -> "Vendor"
AllTargets == SourceTargets \cup {"vendor"}

LEMMA TargetsAreInside ==
    /\ \A p \in Products : Within(p) \subseteq AllTargets /\ \A t \in Within(p) : ProductOf(t) = p
    /\ \A t \in AllTargets : ProductOf(t) \in Products /\ t \in Within(ProductOf(t))
    /\ \A t \in SourceTargets : Needed(t) \subseteq Products
BY DEF Products, Within, AllTargets, SourceTargets, ProductOf, Needed

LEMMA NeedsAreFrom ==
    ASSUME graph \in Graphs, NEW t \in SourceTargets, NEW h \in HostsIn(ProductOf(t)), NEW p \in Needed(t)
    PROVE  h \in HostsFrom(p)
<1>1. CASE t = "root"
  BY <1>1 DEF ProductOf, HostsIn, HostsFrom, InRoot, Needed, FromShared
<1>2. CASE t = "plugin"
  BY <1>2 DEF ProductOf, HostsIn, HostsFrom, InPlugin, Needed, FromShared, FromVendor
<1>3. CASE t \in {"helper", "shared"}
  BY <1>3 DEF ProductOf, HostsIn, HostsFrom, InVendor, Needed, FromShared
<1> QED
  BY <1>1, <1>2, <1>3 DEF SourceTargets

LEMMA HostsAreModules ==
    ASSUME graph \in Graphs
    PROVE  /\ InRoot \subseteq {"runner"} /\ InPlugin \subseteq {"runner", "plugin"}
           /\ FromVendor \subseteq {"runner", "plugin"}
           /\ FromVendor \subseteq {"runner"} \cup graph.images
           /\ \A p \in Products :
                 /\ HostsFrom(p) \subseteq AppModules /\ HostsIn(p) \subseteq AppModules
                 /\ HostsIn(p) \subseteq {"runner"} \cup graph.images
                 /\ "engine" \notin HostsIn(p) /\ "engine" \notin HostsFrom(p)
<1>1. InRoot \subseteq {"runner"}
  BY OneImage DEF InRoot, IntoAll, Into, Linked, Products
<1>2. InPlugin \subseteq {"runner"} \cup ({"plugin"} \cap graph.images)
  BY <1>1, OneImage DEF InPlugin, IntoAll, Into, Products, ImageName
<1>3. FromVendor \subseteq {"runner"} \cup ({"plugin"} \cap graph.images)
  BY <1>2 DEF FromVendor, Linked
<1>4. InVendor \subseteq {"runner"} \cup ({"plugin", "vendor"} \cap graph.images)
  BY <1>3, OneImage DEF InVendor, IntoAll, Into, Products, ImageName
<1>5. FromShared \subseteq {"runner"} \cup ({"plugin", "vendor"} \cap graph.images)
  BY <1>1, <1>2, <1>4 DEF FromShared
<1>6. HostsIn("Shared") \subseteq {"runner"} \cup ({"plugin", "vendor", "shared"} \cap graph.images)
  BY <1>5, OneImage DEF HostsIn, HostsFrom, IntoAll, Into, Products, ImageName
<1>7. \A p \in Products :
         /\ HostsFrom(p) \subseteq {"runner"} \cup ({"plugin", "vendor", "shared"} \cap graph.images)
         /\ HostsIn(p) \subseteq {"runner"} \cup ({"plugin", "vendor", "shared"} \cap graph.images)
  <2>1. /\ HostsIn("Root") = InRoot /\ HostsIn("Plugin") = InPlugin /\ HostsIn("Vendor") = InVendor
        /\ HostsFrom("Root") = Linked("Root") /\ HostsFrom("Plugin") = InRoot
        /\ HostsFrom("Vendor") = FromVendor /\ HostsFrom("Shared") = FromShared
    BY DEF HostsIn, HostsFrom, InRoot, InPlugin, InVendor
  <2> QED
    BY <1>1, <1>2, <1>3, <1>4, <1>5, <1>6, <2>1 DEF Products, Linked
<1> QED
  BY <1>1, <1>2, <1>3, <1>7 DEF AppModules

(* A frame of the walk: a product or target still to be walked, or the image  *)
(* of a product to be claimed when the product is done.                      *)
Frames ==
    {c \in [op : {"product", "target", "own"}, name : Products \cup AllTargets,
            host : AppModules, owner : Products] :
        /\ c.op = "product" => c.name \in Products /\ c.host \in HostsFrom(c.name)
        /\ c.op = "target" => c.name \in Within(c.owner) /\ c.host \in HostsIn(c.owner)
        /\ c.op = "own" => /\ c.name \in Products /\ ImageOf(c.name) # {}
                           /\ c.host = ImageName(c.name)}

Waits(s, op, name, host) ==
    \E i \in DOMAIN s : s[i].op = op /\ s[i].name = name /\ s[i].host = host
Claimed(s, host) == \E i \in DOMAIN s : s[i].op = "own" /\ s[i].host = host

(* What is walked in an image is walked before the image is claimed. *)
ClaimedLater(s) ==
    \A i \in DOMAIN s :
        s[i].host = "runner" \/ \E j \in DOMAIN s : j >= i /\ s[j].op = "own" /\ s[j].host = s[i].host

(* The call of a product from a host has been made. *)
Reached(p, host) ==
    /\ <<p, Into(p, host)>> \in selected
    /\ ImageOf(p) # {} => ImageName(p) \in DOMAIN parents /\ host \in parents[ImageName(p)]

(* Nothing is walked where it is not linked. *)
WalkIsSound ==
    /\ stack \in Seq(Frames) /\ ClaimedLater(stack)
    /\ visited \subseteq AllTargets \X AppModules
    /\ \A v \in visited : v[2] \in HostsIn(ProductOf(v[1]))
    /\ selected \subseteq Products \X AppModules
    /\ \A c \in selected : c[2] \in HostsIn(c[1])
    /\ \A p \in Products : ImageName(p) \in DOMAIN parents => parents[ImageName(p)] \subseteq HostsFrom(p)

(* What is linked has been walked or waits on the stack. *)
WalkIsComplete ==
    /\ \A p \in graph.direct : Waits(stack, "product", p, "runner") \/ Reached(p, "runner")
    /\ \A c \in selected : \A t \in Within(c[1]) : Waits(stack, "target", t, c[2]) \/ <<t, c[2]>> \in visited
    /\ \A v \in visited : v[1] \in SourceTargets =>
           \A p \in Needed(v[1]) : Waits(stack, "product", p, v[2]) \/ Reached(p, v[2])

IsOwned(host) == \E p \in products : p.module = host
ProductsAreImages ==
    \A p \in products : p = [module |-> p.module, source |-> "spm"] /\ p.module \in graph.images

(* What the walk has written down so far. *)
WalkIsRecorded ==
    /\ DOMAIN sources = {t \in SourceTargets : \E h \in AppModules : <<t, h>> \in visited}
    /\ \A t \in DOMAIN sources : sources[t] = {h \in AppModules : <<t, h>> \in visited}
    /\ sources = [t \in DOMAIN sources |-> sources[t]]
    /\ binary = {h \in AppModules : <<"vendor", h>> \in visited}
    /\ \A v \in visited : v[1] \in SourceTargets =>
           v[2] = "runner" \/ IsOwned(v[2]) \/ Claimed(stack, v[2])
    /\ ProductsAreImages
    /\ dynamic = {} /\ waived = {}

AtStart ==
    /\ walk = <<<<>>, {}, [m \in {} |-> {}], {}>>
    /\ found = <<[t \in {} |-> {}], {}, {}, {}, {}>>

AtWalk == graph.direct # {} /\ WalkIsSound /\ WalkIsComplete /\ WalkIsRecorded

(* The end of the walk. *)
ParentsAreKnown ==
    ImageOf("Vendor") # {} => "vendor" \in DOMAIN parents /\ parents["vendor"] = FromVendor
WalkedSources == [t \in SourceTargets |-> HostsIn(ProductOf(t))]
OwnedOr(modules) == \A t \in SourceTargets : \A h \in HostsIn(ProductOf(t)) : h \in modules \/ IsOwned(h)

AtVendor ==
    /\ graph.direct # {} /\ ParentsAreKnown /\ ProductsAreImages
    /\ sources = WalkedSources /\ binary = InVendor /\ OwnedOr({"runner"})
    /\ dynamic = {} /\ waived = {}

VendorIsKnown ==
    /\ dynamic \subseteq graph.images \cap {graph.payload}
    /\ ProductsAreImages /\ \A p \in products : p.module \notin dynamic
    /\ dynamic # {} => binary = dynamic
    /\ dynamic = {} => binary = IF graph.direct = {} THEN {} ELSE InVendor

AtHosts ==
    /\ graph.direct # {} /\ ParentsAreKnown /\ VendorIsKnown
    /\ sources = WalkedSources /\ OwnedOr({"runner"} \cup dynamic)
    /\ waived = {}

(* Where the code of each target is, by the rules of the walk. *)
CodeIn(t) == UNION {IF h \in dynamic THEN FromVendor ELSE {h} : h \in HostsIn(ProductOf(t))}
CodeIsKnown ==
    sources = [t \in IF graph.direct = {} THEN {} ELSE SourceTargets |-> CodeIn(t)]

AtHelpers ==
    /\ graph.direct # {} /\ VendorIsKnown /\ CodeIsKnown
    /\ \A t \in DOMAIN sources : \A h \in sources[t] : h = "runner" \/ IsOwned(h)
    /\ waived = {}

AtPods ==
    /\ VendorIsKnown /\ CodeIsKnown
    /\ graph.direct = {} => products = {} /\ dynamic = {}
    /\ waived \subseteq DOMAIN sources /\ \A t \in waived : t \in EmptyTargets /\ sources[t] \subseteq binary
    /\ \A t \in DOMAIN sources \ waived : \A h \in sources[t] : h = "runner" \/ IsOwned(h)

InventoryInv ==
    /\ graph \in Graphs
    /\ walkPc \in {"start", "walk", "vendor", "hosts", "helpers", "pods", "written", "failed"}
    /\ walkPc = "start" => AtStart
    /\ walkPc = "walk" => AtWalk
    /\ walkPc = "vendor" => AtVendor
    /\ walkPc = "hosts" => AtHosts
    /\ walkPc = "helpers" => AtHelpers
    /\ walkPc = "pods" => AtPods
    /\ walkPc = "written" => EverySourceIsHosted /\ OwnershipIsTrue /\ WrittenIsAccepted

-----------------------------------------------------------------------------
(* Calls pushed before the rest of a stack. *)
Pushes(p, s, r) ==
    /\ \A i \in DOMAIN p : i \in DOMAIN r /\ r[i] = p[i]
    /\ \A i \in DOMAIN s : i # 1 => (Len(p) + i) - 1 \in DOMAIN r /\ r[(Len(p) + i) - 1] = s[i]
    /\ \A i \in DOMAIN r :
           \/ i \in DOMAIN p
           \/ \E j \in DOMAIN s : j # 1 /\ i = (Len(p) + j) - 1 /\ r[i] = s[j]

LEMMA CallsFirst ==
    ASSUME NEW S, NEW p \in Seq(S), NEW s \in Seq(S), s # <<>>, NEW r, r = p \o Tail(s)
    PROVE  /\ Len(p) \in Nat /\ DOMAIN p = 1..Len(p) /\ Len(s) \in Nat /\ DOMAIN s = 1..Len(s)
           /\ 1 \in DOMAIN s /\ Head(s) = s[1] /\ Head(s) \in S
           /\ r \in Seq(S)
           /\ Pushes(p, s, r)
<1>1. /\ Len(p) \in Nat /\ DOMAIN p = 1..Len(p)
      /\ Len(s) \in Nat /\ DOMAIN s = 1..Len(s) /\ Len(s) > 0
  BY LenProperties
<1>2. /\ Tail(s) \in Seq(S) /\ Len(Tail(s)) = Len(s) - 1
      /\ \A i \in 1..(Len(s) - 1) : Tail(s)[i] = s[i + 1]
      /\ Head(s) = s[1] /\ Head(s) \in S
  BY HeadTailProperties
<1>3. /\ r \in Seq(S) /\ Len(r) = Len(p) + (Len(s) - 1)
      /\ \A i \in 1..(Len(p) + (Len(s) - 1)) : r[i] = IF i <= Len(p) THEN p[i] ELSE Tail(s)[i - Len(p)]
  BY <1>2, ConcatProperties
<1>4. DOMAIN r = 1..(Len(p) + (Len(s) - 1))
  BY <1>3, LenProperties
<1>5. \A i \in DOMAIN p : i \in DOMAIN r /\ r[i] = p[i]
  <2> SUFFICES ASSUME NEW i \in DOMAIN p PROVE i \in DOMAIN r /\ r[i] = p[i]
    OBVIOUS
  <2>1. i \in 1..(Len(p) + (Len(s) - 1)) /\ i <= Len(p)
    BY <1>1
  <2> QED
    BY <1>3, <1>4, <2>1
<1>6. ASSUME NEW i \in DOMAIN s, i # 1
      PROVE  /\ (Len(p) + i) - 1 \in DOMAIN r
             /\ r[(Len(p) + i) - 1] = s[i]
  <2>1. /\ (Len(p) + i) - 1 \in 1..(Len(p) + (Len(s) - 1)) /\ ~((Len(p) + i) - 1 <= Len(p))
        /\ ((Len(p) + i) - 1) - Len(p) = i - 1 /\ i - 1 \in 1..(Len(s) - 1) /\ (i - 1) + 1 = i
    BY <1>1, <1>6
  <2> QED
    BY <1>2, <1>3, <1>4, <2>1
<1>7. ASSUME NEW i \in DOMAIN r, i \notin DOMAIN p
      PROVE  \E j \in DOMAIN s : j # 1 /\ i = (Len(p) + j) - 1 /\ r[i] = s[j]
  <2>1. /\ (i - Len(p)) + 1 \in DOMAIN s /\ (i - Len(p)) + 1 # 1
        /\ i = (Len(p) + ((i - Len(p)) + 1)) - 1
    BY <1>1, <1>4, <1>7
  <2> QED
    BY <1>6, <2>1
<1>8. 1 \in DOMAIN s
  BY <1>1
<1> QED
  BY <1>1, <1>2, <1>3, <1>5, <1>6, <1>7, <1>8 DEF Pushes

(* What waited waits behind the new calls. *)
Behind(p, s, r) ==
    /\ \A op, name, host :
          /\ Waits(p, op, name, host) => Waits(r, op, name, host)
          /\ Waits(s, op, name, host) =>
                 \/ Waits(r, op, name, host)
                 \/ Head(s).op = op /\ Head(s).name = name /\ Head(s).host = host
    /\ \A host :
          Claimed(s, host) => Claimed(r, host) \/ (Head(s).op = "own" /\ Head(s).host = host)

LEMMA StillWaits ==
    ASSUME NEW p \in Seq(Frames), NEW s \in Seq(Frames), s # <<>>, NEW r, r = p \o Tail(s)
    PROVE  Head(s) \in Frames /\ r \in Seq(Frames) /\ Behind(p, s, r)
<1>1. /\ Head(s) \in Frames /\ r \in Seq(Frames) /\ Head(s) = s[1]
      /\ \A i \in DOMAIN p : i \in DOMAIN r /\ r[i] = p[i]
      /\ \A i \in DOMAIN s : i # 1 => \E j \in DOMAIN r : r[j] = s[i]
  <2>1. Head(s) \in Frames /\ r \in Seq(Frames) /\ Head(s) = s[1] /\ Pushes(p, s, r)
    BY CallsFirst
  <2> QED
    BY <2>1 DEF Pushes
<1>2. \A op, name, host : Waits(p, op, name, host) => Waits(r, op, name, host)
  BY <1>1 DEF Waits
<1>3. ASSUME NEW op, NEW name, NEW host, Waits(s, op, name, host)
      PROVE  \/ Waits(r, op, name, host)
             \/ Head(s).op = op /\ Head(s).name = name /\ Head(s).host = host
  BY <1>1, <1>3 DEF Waits
<1>4. ASSUME NEW host, Claimed(s, host)
      PROVE  Claimed(r, host) \/ (Head(s).op = "own" /\ Head(s).host = host)
  BY <1>1, <1>4 DEF Claimed
<1> QED
  BY <1>1, <1>2, <1>3, <1>4 DEF Behind

LEMMA StillClaimed ==
    ASSUME NEW p \in Seq(Frames), NEW s \in Seq(Frames), s # <<>>, ClaimedLater(s),
           NEW r, r = p \o Tail(s),
           \A i \in DOMAIN p :
               \/ p[i].host = "runner"
               \/ \E j \in DOMAIN p : j >= i /\ p[j].op = "own" /\ p[j].host = p[i].host
               \/ \E j \in DOMAIN s : j # 1 /\ s[j].op = "own" /\ s[j].host = p[i].host
    PROVE  ClaimedLater(r)
<1>0. /\ Len(p) \in Nat /\ DOMAIN p = 1..Len(p) /\ Len(s) \in Nat /\ DOMAIN s = 1..Len(s)
      /\ Pushes(p, s, r)
  BY CallsFirst
<1>1. /\ \A i \in DOMAIN p : i \in DOMAIN r /\ r[i] = p[i]
      /\ \A i \in DOMAIN s : i # 1 => (Len(p) + i) - 1 \in DOMAIN r /\ r[(Len(p) + i) - 1] = s[i]
      /\ \A i \in DOMAIN r :
             \/ i \in DOMAIN p
             \/ \E j \in DOMAIN s : j # 1 /\ i = (Len(p) + j) - 1 /\ r[i] = s[j]
  BY <1>0 DEF Pushes
<1> SUFFICES ASSUME NEW i \in DOMAIN r, r[i].host # "runner"
             PROVE  \E j \in DOMAIN r : j >= i /\ r[j].op = "own" /\ r[j].host = r[i].host
  BY DEF ClaimedLater
<1>2. CASE i \in DOMAIN p
  <2>1. CASE \E j \in DOMAIN p : j >= i /\ p[j].op = "own" /\ p[j].host = p[i].host
    BY <1>1, <1>2, <2>1
  <2>2. CASE \E j \in DOMAIN s : j # 1 /\ s[j].op = "own" /\ s[j].host = p[i].host
    <3>1. PICK j \in DOMAIN s : j # 1 /\ s[j].op = "own" /\ s[j].host = p[i].host
      BY <2>2
    <3>2. (Len(p) + j) - 1 >= i
      BY <1>0, <1>2, <3>1
    <3>3. (Len(p) + j) - 1 \in DOMAIN r /\ r[(Len(p) + j) - 1] = s[j]
      BY <1>1, <3>1
    <3>4. r[i] = p[i]
      BY <1>1, <1>2
    <3> QED
      BY <3>1, <3>2, <3>3, <3>4
  <2> QED
    BY <1>1, <1>2, <2>1, <2>2
<1>3. CASE i \notin DOMAIN p
  <2>1. PICK j \in DOMAIN s : j # 1 /\ i = (Len(p) + j) - 1 /\ r[i] = s[j]
    BY <1>1, <1>3
  <2>2. PICK k \in DOMAIN s : k >= j /\ s[k].op = "own" /\ s[k].host = s[j].host
    BY <2>1 DEF ClaimedLater
  <2>3. k # 1 /\ (Len(p) + k) - 1 >= i
    <3>1. Len(p) \in Nat /\ Len(s) \in Nat /\ j \in 1..Len(s) /\ k \in 1..Len(s)
      BY <1>0
    <3>2. j # 1 /\ k >= j /\ i = (Len(p) + j) - 1
      BY <2>1, <2>2
    <3> QED
      BY <3>1, <3>2
  <2>4. (Len(p) + k) - 1 \in DOMAIN r /\ r[(Len(p) + k) - 1] = s[k]
    BY <1>1, <2>2, <2>3
  <2>5. \E m \in DOMAIN r : m >= i /\ r[m] = s[k]
    BY <2>3, <2>4
  <2>6. s[k].op = "own" /\ s[k].host = r[i].host
    BY <2>1, <2>2
  <2> QED
    BY <2>5, <2>6
<1> QED
  BY <1>2, <1>3

(* The calls for every element of a list. *)
CallsOf(calls, q, op, host, owner) ==
    /\ calls \in [DOMAIN q -> Frames]
    /\ \A i \in DOMAIN q : calls[i] = Call(op, q[i], host, owner)

LEMMA CallsFor ==
    ASSUME NEW X, NEW q \in Seq(X), NEW op, NEW host, NEW owner,
           NEW calls, CallsOf(calls, q, op, host, owner)
    PROVE  /\ calls \in Seq(Frames)
           /\ \A i \in DOMAIN calls : calls[i].op = op /\ calls[i].host = host
           /\ \A x \in ToSet(q) : Waits(calls, op, x, host)
<1>1. Len(q) \in Nat /\ DOMAIN q = 1..Len(q)
  BY LenProperties
<1>3. calls \in [1..Len(q) -> Frames]
  BY <1>1 DEF CallsOf
<1>4. calls \in Seq(Frames) /\ Len(calls) = Len(q)
  BY <1>1, <1>3, SeqDef
<1>5. \A i \in DOMAIN q : calls[i].op = op /\ calls[i].name = q[i] /\ calls[i].host = host
  BY DEF Call, CallsOf
<1>6. \A x \in ToSet(q) : Waits(calls, op, x, host)
  <2>1. DOMAIN calls = DOMAIN q
    BY DEF CallsOf
  <2> QED
    BY <1>5, <2>1 DEF ToSet, Waits
<1> QED
  BY <1>4, <1>5, <1>6 DEF CallsOf

-----------------------------------------------------------------------------
(* What depends on the graph only never changes. *)
LEMMA GraphStays ==
    ASSUME UNCHANGED graph
    PROVE  /\ Frames' = Frames /\ FromVendor' = FromVendor /\ InVendor' = InVendor
           /\ \A p : /\ HostsFrom(p)' = HostsFrom(p) /\ HostsIn(p)' = HostsIn(p)
                     /\ ImageOf(p)' = ImageOf(p)
           /\ \A t : Needed(t)' = Needed(t)
           /\ \A p, h : Into(p, h)' = Into(p, h)
<1>1. /\ \A p : ImageOf(p)' = ImageOf(p) /\ Linked(p)' = Linked(p)
      /\ \A t : Needed(t)' = Needed(t)
  BY DEF ImageOf, Linked, Needed
<1>2. ASSUME NEW p, NEW h
      PROVE  Into(p, h)' = Into(p, h)
  <2>1. ImageOf(p)' = ImageOf(p)
    BY <1>1
  <2>2. Into(p, h)' = IF ImageOf(p)' = {} THEN h ELSE ImageName(p)
    BY DEF Into
  <2> QED
    BY <2>1, <2>2 DEF Into
<1>3. InRoot' = InRoot
  BY <1>1, <1>2 DEF InRoot, IntoAll
<1>4. InPlugin' = InPlugin
  BY <1>2, <1>3 DEF InPlugin, IntoAll
<1>5. FromVendor' = FromVendor
  BY <1>1, <1>4 DEF FromVendor
<1>6. InVendor' = InVendor
  BY <1>2, <1>5 DEF InVendor, IntoAll
<1>7. FromShared' = FromShared
  BY <1>3, <1>4, <1>6 DEF FromShared
<1>8. \A p : HostsFrom(p)' = HostsFrom(p)
  BY <1>1, <1>3, <1>5, <1>7 DEF HostsFrom
<1>9. \A p : HostsIn(p)' = HostsIn(p)
  BY <1>2, <1>8 DEF HostsIn, IntoAll
<1>10. Frames' = Frames
  BY <1>1, <1>8, <1>9 DEF Frames
<1> QED
  BY <1>1, <1>2, <1>5, <1>6, <1>8, <1>9, <1>10

(* The calls of a product: its targets, and the claim of its image behind. *)
TargetCalls(p, host) == [i \in DOMAIN TargetsOf(p) |-> Call("target", TargetsOf(p)[i], host, p)]
ProductCalls(p, host) ==
    TargetCalls(p, host) \o (IF ImageOf(p) = {} THEN <<>> ELSE <<Call("own", p, host, p)>>)

LEMMA CallsOfProduct ==
    ASSUME graph \in Graphs, NEW p \in Products, NEW h \in HostsFrom(p), NEW host, host = Into(p, h),
           NEW pushed, pushed = ProductCalls(p, host)
    PROVE  /\ pushed \in Seq(Frames)
           /\ \A t \in Within(p) : Waits(pushed, "target", t, host)
           /\ \A i \in DOMAIN pushed :
                  IF ImageOf(p) = {} THEN pushed[i].host = h
                  ELSE \E j \in DOMAIN pushed :
                           j >= i /\ pushed[j].op = "own" /\ pushed[j].host = pushed[i].host
<1> DEFINE calls == TargetCalls(p, host)
<1>1. TargetsOf(p) \in Seq(Within(p)) /\ ToSet(TargetsOf(p)) = Within(p)
  BY InsideProduct
<1>2. host \in HostsIn(p) /\ host \in AppModules
  BY HostsAreModules DEF HostsIn, IntoAll
<1>3. \A t \in Within(p) : Call("target", t, host, p) \in Frames
  BY <1>2, TargetsAreInside DEF Frames, Call
<1>4. /\ calls \in Seq(Frames)
      /\ \A i \in DOMAIN calls : calls[i].op = "target" /\ calls[i].host = host
      /\ \A t \in Within(p) : Waits(calls, "target", t, host)
  <2> DEFINE q == TargetsOf(p)
  <2>1. q \in Seq(Within(p)) /\ ToSet(q) = Within(p)
    BY <1>1
  <2>2. \A i \in DOMAIN q : q[i] \in Within(p)
    BY <2>1 DEF ToSet
  <2>3. CallsOf(calls, q, "target", host, p)
    BY <1>3, <2>2 DEF CallsOf, TargetCalls
  <2> HIDE DEF q, calls
  <2> QED
    BY <2>1, <2>3, CallsFor
<1>0. pushed = calls \o (IF ImageOf(p) = {} THEN <<>> ELSE <<Call("own", p, host, p)>>)
  BY DEF ProductCalls
<1> HIDE DEF calls
<1>5. CASE ImageOf(p) = {}
  <2>1. pushed = calls
    BY <1>0, <1>4, <1>5, ConcatEmptySeq
  <2>2. host = h
    BY <1>5 DEF Into
  <2> QED
    BY <1>4, <1>5, <2>1, <2>2
<1>6. CASE ImageOf(p) # {}
  <2> DEFINE own == Call("own", p, host, p)
  <2>1. host = ImageName(p)
    BY <1>6 DEF Into
  <2>2. own \in Frames /\ own.op = "own" /\ own.host = host
    BY <1>2, <1>6, <2>1 DEF Frames, Call
  <2> HIDE DEF own
  <2>3. /\ <<own>> \in Seq(Frames) /\ Len(<<own>>) = 1 /\ <<own>>[1] = own
        /\ Len(calls) \in Nat /\ DOMAIN calls = 1..Len(calls)
    BY <1>4, <2>2, LenProperties
  <2>4. pushed = calls \o <<own>>
    BY <1>0, <1>6 DEF own
  <2>5. /\ pushed \in Seq(Frames) /\ Len(pushed) = Len(calls) + 1
        /\ \A i \in 1..(Len(calls) + 1) : pushed[i] = IF i <= Len(calls) THEN calls[i] ELSE <<own>>[i - Len(calls)]
    BY <1>4, <2>3, <2>4, ConcatProperties
  <2>6. DOMAIN pushed = 1..(Len(calls) + 1)
    BY <2>5, LenProperties
  <2>7. \A i \in DOMAIN calls : i \in DOMAIN pushed /\ pushed[i] = calls[i]
    BY <2>3, <2>5, <2>6
  <2>8. Len(calls) + 1 \in DOMAIN pushed /\ pushed[Len(calls) + 1] = own
    <3>1. Len(calls) + 1 \in 1..(Len(calls) + 1) /\ ~(Len(calls) + 1 <= Len(calls))
          /\ (Len(calls) + 1) - Len(calls) = 1
      BY <2>3
    <3> QED
      BY <2>3, <2>5, <2>6, <3>1
  <2>9. \A i \in DOMAIN pushed : Len(calls) + 1 >= i /\ pushed[i].host = host
    <3>1. \A i \in DOMAIN pushed : Len(calls) + 1 >= i /\ (i \in DOMAIN calls \/ i = Len(calls) + 1)
      BY <2>3, <2>6
    <3> QED
      BY <1>4, <2>2, <2>7, <2>8, <3>1
  <2>10. \A t \in Within(p) : Waits(pushed, "target", t, host)
    <3> SUFFICES ASSUME NEW t \in Within(p) PROVE Waits(pushed, "target", t, host)
      OBVIOUS
    <3>1. PICK i \in DOMAIN calls : calls[i].op = "target" /\ calls[i].name = t /\ calls[i].host = host
      BY <1>4 DEF Waits
    <3>2. i \in DOMAIN pushed /\ pushed[i] = calls[i]
      BY <2>7
    <3> QED
      BY <3>1, <3>2 DEF Waits
  <2>11. ASSUME NEW i \in DOMAIN pushed
         PROVE  \E j \in DOMAIN pushed :
                    j >= i /\ pushed[j].op = "own" /\ pushed[j].host = pushed[i].host
    <3>1. Len(calls) + 1 >= i /\ pushed[i].host = host
      BY <2>9
    <3>2. \E j \in DOMAIN pushed : j >= i /\ pushed[j] = own
      BY <2>8, <3>1
    <3> QED
      BY <2>2, <3>1, <3>2
  <2> QED
    BY <1>6, <2>5, <2>10, <2>11
<1> QED
  BY <1>5, <1>6

(* What has been reached stays reached. *)
LEMMA ReachedStays ==
    ASSUME UNCHANGED graph, selected \subseteq selected',
           \A m \in DOMAIN parents : m \in DOMAIN parents' /\ parents[m] \subseteq parents'[m],
           NEW p, NEW h, Reached(p, h)
    PROVE  Reached(p, h)'
BY GraphStays DEF Reached, ImageName

LEMMA ProductStep ==
    ASSUME graph \in Graphs, AtWalk, Product
    PROVE  walkPc' = "failed" \/ (walkPc' = "walk" /\ AtWalk')
<1>0. PICK c : c = Head(stack)
  OBVIOUS
<1> DEFINE p == c.name
           h == c.host
           host == Into(p, h)
           pushed == ProductCalls(p, host)
<1>1. /\ stack \in Seq(Frames) /\ stack # <<>> /\ c.op = "product"
      /\ c = stack[1] /\ 1 \in DOMAIN stack /\ c \in Frames
  <2>1. stack \in Seq(Frames) /\ stack # <<>> /\ c.op = "product"
    BY <1>0 DEF AtWalk, WalkIsSound, Product
  <2> QED
    BY <1>0, <2>1, HeadTailProperties, LenProperties
<1>2. p \in Products /\ h \in HostsFrom(p) /\ host \in HostsIn(p)
  BY <1>1 DEF Frames, HostsIn, IntoAll
<1>3. SUFFICES ASSUME ~(graph.linkage[p] = "dynamic" /\ ImageOf(p) = {})
               PROVE  walkPc' = "walk" /\ AtWalk'
  BY <1>0 DEF Product, PhaseFails
<1>4. /\ parents' = IF ImageOf(p) = {} THEN parents ELSE Put(parents, host, h)
      /\ selected' = selected \cup {<<p, host>>}
      /\ stack' = pushed \o Tail(stack)
      /\ UNCHANGED <<graph, visited, sources, binary, dynamic, products, waived>>
      /\ walkPc' = "walk"
  <2>1. ImageOf(p) # {} => (CHOOSE m \in ImageOf(p) : TRUE) = ImageName(p)
    BY <1>2, OneImage
  <2>2. host = IF ImageOf(p) = {} THEN h ELSE CHOOSE m \in ImageOf(p) : TRUE
    BY <2>1 DEF Into
  <2> QED
    BY <1>0, <1>3, <2>2 DEF Product, Rest, found, ProductCalls, TargetCalls
<1>5. /\ pushed \in Seq(Frames)
      /\ \A t \in Within(p) : Waits(pushed, "target", t, host)
      /\ \A i \in DOMAIN pushed :
             IF ImageOf(p) = {} THEN pushed[i].host = h
             ELSE \E j \in DOMAIN pushed :
                      j >= i /\ pushed[j].op = "own" /\ pushed[j].host = pushed[i].host
  BY <1>2, CallsOfProduct
<1> HIDE DEF pushed, host
<1>6. /\ stack' \in Seq(Frames)
      /\ \A op, name, at :
            /\ Waits(pushed, op, name, at) => Waits(stack', op, name, at)
            /\ Waits(stack, op, name, at) => Waits(stack', op, name, at) \/ (op = "product" /\ name = p /\ at = h)
      /\ \A at : Claimed(stack, at) => Claimed(stack', at)
  <2>1. /\ stack' \in Seq(Frames)
        /\ \A op, name, at :
              /\ Waits(pushed, op, name, at) => Waits(stack', op, name, at)
              /\ Waits(stack, op, name, at) =>
                     Waits(stack', op, name, at) \/ (c.op = op /\ c.name = name /\ c.host = at)
        /\ \A at : Claimed(stack, at) => Claimed(stack', at) \/ (c.op = "own" /\ c.host = at)
    <3>1. stack' \in Seq(Frames) /\ Behind(pushed, stack, stack')
      BY <1>1, <1>4, <1>5, StillWaits
    <3> QED
      BY <1>0, <3>1 DEF Behind
  <2> QED
    BY <1>1, <2>1
<1>7. \A m \in DOMAIN parents : m \in DOMAIN parents' /\ parents[m] \subseteq parents'[m]
  BY <1>4 DEF Put
<1>8. \A q, at : Reached(q, at) => Reached(q, at)'
  BY <1>4, <1>7, ReachedStays
<1>9. Reached(p, h)'
  <2>1. <<p, Into(p, h)>> \in selected'
    BY <1>4 DEF host
  <2>2. ASSUME ImageOf(p) # {}
        PROVE  ImageName(p) \in DOMAIN parents' /\ h \in parents'[ImageName(p)]
    <3>1. host = ImageName(p) /\ parents' = Put(parents, host, h)
      BY <1>4, <2>2 DEF host, Into
    <3> QED
      BY <3>1 DEF Put
  <2>3. Into(p, h)' = Into(p, h) /\ ImageOf(p)' = ImageOf(p)
    BY <1>4, GraphStays
  <2> QED
    BY <2>1, <2>2, <2>3 DEF Reached
<1>10. WalkIsSound'
  <2>1. ClaimedLater(stack')
    <3>1. ASSUME NEW i \in DOMAIN pushed
          PROVE  \/ pushed[i].host = "runner"
                 \/ \E j \in DOMAIN pushed :
                        j >= i /\ pushed[j].op = "own" /\ pushed[j].host = pushed[i].host
                 \/ \E j \in DOMAIN stack : j # 1 /\ stack[j].op = "own" /\ stack[j].host = pushed[i].host
      <4>1. CASE ImageOf(p) # {}
        BY <1>5, <4>1
      <4>2. CASE ImageOf(p) = {}
        <5>1. pushed[i].host = h
          BY <1>5, <4>2
        <5>2. h = "runner" \/ \E j \in DOMAIN stack : j >= 1 /\ stack[j].op = "own" /\ stack[j].host = h
          BY <1>1 DEF AtWalk, WalkIsSound, ClaimedLater
        <5>3. \A j \in DOMAIN stack : stack[j].op = "own" => j # 1
          BY <1>1
        <5> QED
          BY <5>1, <5>2, <5>3
      <4> QED
        BY <4>1, <4>2
    <3>2. ClaimedLater(stack)
      BY DEF AtWalk, WalkIsSound
    <3> QED
      BY <1>1, <1>4, <1>5, <3>1, <3>2, StillClaimed
  <2>2. ASSUME NEW q \in Products, ImageName(q) \in DOMAIN parents'
        PROVE  parents'[ImageName(q)] \subseteq HostsFrom(q)
    <3>1. CASE parents' = parents
      BY <2>2, <3>1 DEF AtWalk, WalkIsSound
    <3>2. CASE parents' # parents
      <4>1. host = ImageName(p) /\ parents' = Put(parents, host, h)
        BY <1>4, <3>2 DEF host, Into
      <4>2. CASE q = p
        BY <1>2, <2>2, <4>1, <4>2 DEF Put, AtWalk, WalkIsSound
      <4>3. CASE q # p
        <5>1. ImageName(q) # host
          BY <1>2, <4>1, <4>3 DEF Products, ImageName
        <5>2. ImageName(q) \in DOMAIN parents /\ parents'[ImageName(q)] = parents[ImageName(q)]
          BY <2>2, <4>1, <5>1 DEF Put
        <5> QED
          BY <5>2 DEF AtWalk, WalkIsSound
      <4> QED
        BY <4>2, <4>3
    <3> QED
      BY <3>1, <3>2
  <2>3. \A v \in selected' : v \in Products \X AppModules /\ v[2] \in HostsIn(v[1])
    <3>1. \A v \in selected : v \in Products \X AppModules /\ v[2] \in HostsIn(v[1])
      BY DEF AtWalk, WalkIsSound
    <3>2. host \in AppModules
      BY <1>2, HostsAreModules
    <3> QED
      BY <1>2, <1>4, <3>1, <3>2
  <2>4. /\ Frames' = Frames
        /\ \A q : HostsFrom(q)' = HostsFrom(q) /\ HostsIn(q)' = HostsIn(q)
    BY <1>4, GraphStays
  <2>5. visited' = visited
    BY <1>4
  <2> QED
    BY <1>6, <2>1, <2>2, <2>3, <2>4, <2>5 DEF AtWalk, WalkIsSound
<1>11. WalkIsComplete'
  <2>1. \A q \in graph.direct : Waits(stack', "product", q, "runner") \/ Reached(q, "runner")'
    BY <1>6, <1>8, <1>9 DEF AtWalk, WalkIsComplete
  <2>2. \A v \in visited : v[1] \in SourceTargets =>
            \A q \in Needed(v[1]) : Waits(stack', "product", q, v[2]) \/ Reached(q, v[2])'
    BY <1>6, <1>8, <1>9 DEF AtWalk, WalkIsComplete
  <2>3. ASSUME NEW v \in selected', NEW t \in Within(v[1])
        PROVE  Waits(stack', "target", t, v[2]) \/ <<t, v[2]>> \in visited
    <3>1. CASE v \in selected
      BY <1>6, <3>1 DEF AtWalk, WalkIsComplete
    <3>2. CASE v = <<p, host>>
      BY <1>5, <1>6, <3>2
    <3> QED
      BY <1>4, <3>1, <3>2
  <2>4. \A t : Needed(t)' = Needed(t)
    BY <1>4, GraphStays
  <2>5. graph' = graph /\ visited' = visited
    BY <1>4
  <2> QED
    BY <2>1, <2>2, <2>3, <2>4, <2>5 DEF WalkIsComplete
<1>12. WalkIsRecorded'
  BY <1>4, <1>6 DEF AtWalk, WalkIsRecorded, IsOwned, ProductsAreImages
<1> QED
  BY <1>4, <1>10, <1>11, <1>12 DEF AtWalk

(* The calls of a target: the products it needs. *)
NeedCalls(t, host, owner) == [i \in DOMAIN Needs(t) |-> Call("product", Needs(t)[i], host, owner)]

LEMMA CallsOfTarget ==
    ASSUME graph \in Graphs, NEW t \in SourceTargets, NEW h \in HostsIn(ProductOf(t)),
           NEW owner \in Products, NEW pushed, pushed = NeedCalls(t, h, owner)
    PROVE  /\ pushed \in Seq(Frames)
           /\ \A q \in Needed(t) : Waits(pushed, "product", q, h)
           /\ \A i \in DOMAIN pushed : pushed[i].host = h
<1>1. Needs(t) \in Seq(Needed(t)) /\ ToSet(Needs(t)) = Needed(t)
  BY NeededByTarget
<1>2. \A q \in Needed(t) : Call("product", q, h, owner) \in Frames
  <2> SUFFICES ASSUME NEW q \in Needed(t) PROVE Call("product", q, h, owner) \in Frames
    OBVIOUS
  <2>1. h \in HostsFrom(q) /\ q \in Products
    BY NeedsAreFrom, TargetsAreInside
  <2>2. h \in AppModules
    BY <2>1, HostsAreModules
  <2> QED
    BY <2>1, <2>2 DEF Frames, Call
<1> DEFINE q == Needs(t)
<1>3. q \in Seq(Needed(t)) /\ ToSet(q) = Needed(t)
  BY <1>1
<1>4. \A i \in DOMAIN q : q[i] \in Needed(t)
  BY <1>3 DEF ToSet
<1>5. CallsOf(pushed, q, "product", h, owner)
  BY <1>2, <1>4 DEF CallsOf, NeedCalls
<1> HIDE DEF q
<1> QED
  BY <1>3, <1>5, CallsFor

LEMMA TargetStep ==
    ASSUME graph \in Graphs, AtWalk, Target
    PROVE  walkPc' = "failed" \/ (walkPc' = "walk" /\ AtWalk')
<1>0. PICK c : c = Head(stack)
  OBVIOUS
<1> DEFINE t == c.name
           h == c.host
<1>1. /\ stack \in Seq(Frames) /\ stack # <<>> /\ c.op = "target"
      /\ c = stack[1] /\ 1 \in DOMAIN stack /\ c \in Frames
  <2>1. stack \in Seq(Frames) /\ stack # <<>> /\ c.op = "target"
    BY <1>0 DEF AtWalk, WalkIsSound, Target
  <2> QED
    BY <1>0, <2>1, HeadTailProperties, LenProperties
<1>2. /\ c.owner \in Products /\ t \in Within(c.owner) /\ h \in HostsIn(c.owner)
      /\ t \in AllTargets /\ ProductOf(t) = c.owner /\ h \in AppModules
  <2>1. c.owner \in Products /\ t \in Within(c.owner) /\ h \in HostsIn(c.owner)
    BY <1>1 DEF Frames
  <2>2. h \in AppModules
    BY <2>1, HostsAreModules
  <2> QED
    BY <2>1, <2>2, TargetsAreInside
<1>3. SUFFICES ASSUME ~(t # "vendor" /\ ~Walked(t, h) /\ RootDisagrees(t))
               PROVE  walkPc' = "walk" /\ AtWalk'
  BY <1>0 DEF Target, PhaseFails
<1>4. /\ walkPc' = "walk" /\ UNCHANGED <<graph, parents, selected, dynamic, products, waived>>
      /\ visited' = visited \cup {<<t, h>>}
      /\ \E pushed : /\ stack' = pushed \o Tail(stack)
                     /\ pushed \in Seq(Frames) /\ \A i \in DOMAIN pushed : pushed[i].host = h
                     /\ t \in SourceTargets /\ <<t, h>> \notin visited =>
                            \A q \in Needed(t) : Waits(pushed, "product", q, h)
      /\ \/ t \in SourceTargets /\ sources' = Put(sources, t, h) /\ binary' = binary
         \/ <<t, h>> \in visited /\ sources' = sources /\ binary' = binary
         \/ t = "vendor" /\ sources' = sources /\ binary' = binary \cup {h}
  <2>0. /\ <<>> \in Seq(Frames) /\ Tail(stack) = <<>> \o Tail(stack)
        /\ \A i \in DOMAIN <<>> : FALSE
    BY <1>1, HeadTailProperties, ConcatEmptySeq
  <2>1. CASE Walked(t, h)
    <3>1. walkPc' = walkPc /\ stack' = Tail(stack)
          /\ UNCHANGED <<graph, visited, parents, selected, dynamic, products, waived, sources, binary>>
      BY <1>0, <2>1 DEF Target, Rest, found
    <3>2. <<t, h>> \in visited
      BY <2>1 DEF Walked
    <3>3. walkPc = "walk"
      BY DEF Target
    <3>4. stack' = <<>> \o Tail(stack)
      BY <2>0, <3>1
    <3> QED
      BY <2>0, <3>1, <3>2, <3>3, <3>4
  <2>2. CASE ~Walked(t, h) /\ t = "vendor"
    <3>1. walkPc' = walkPc /\ stack' = Tail(stack) /\ binary' = binary \cup {h}
          /\ visited' = visited \cup {<<t, h>>}
          /\ UNCHANGED <<graph, parents, selected, dynamic, products, waived, sources>>
      BY <1>0, <2>2 DEF Target, Rest, found
    <3>2. t \notin SourceTargets
      BY <2>2 DEF SourceTargets
    <3>3. walkPc = "walk"
      BY DEF Target
    <3>4. stack' = <<>> \o Tail(stack)
      BY <2>0, <3>1
    <3> QED
      BY <2>0, <2>2, <3>1, <3>2, <3>3, <3>4
  <2>3. CASE ~Walked(t, h) /\ t # "vendor"
    <3>1. walkPc' = walkPc /\ stack' = NeedCalls(t, h, c.owner) \o Tail(stack) /\ binary' = binary
          /\ visited' = visited \cup {<<t, h>>} /\ sources' = Put(sources, t, h)
          /\ UNCHANGED <<graph, parents, selected, dynamic, products, waived>>
      BY <1>0, <1>3, <2>3 DEF Target, Rest, found, NeedCalls
    <3>2. t \in SourceTargets
      BY <1>2, <2>3 DEF AllTargets
    <3>3. walkPc = "walk"
      BY DEF Target
    <3> DEFINE pushed == NeedCalls(t, h, c.owner)
    <3>4. /\ pushed \in Seq(Frames) /\ \A q \in Needed(t) : Waits(pushed, "product", q, h)
          /\ \A i \in DOMAIN pushed : pushed[i].host = h
      BY <1>2, <3>2, CallsOfTarget
    <3> QED
      BY <3>1, <3>2, <3>3, <3>4
  <2> QED
    BY <2>1, <2>2, <2>3
<1>5. PICK pushed : /\ stack' = pushed \o Tail(stack)
                    /\ pushed \in Seq(Frames) /\ \A i \in DOMAIN pushed : pushed[i].host = h
                    /\ t \in SourceTargets /\ <<t, h>> \notin visited =>
                           \A q \in Needed(t) : Waits(pushed, "product", q, h)
  BY <1>4
<1>6. /\ stack' \in Seq(Frames)
      /\ \A op, name, at :
            /\ Waits(pushed, op, name, at) => Waits(stack', op, name, at)
            /\ Waits(stack, op, name, at) => Waits(stack', op, name, at) \/ (op = "target" /\ name = t /\ at = h)
      /\ \A at : Claimed(stack, at) => Claimed(stack', at)
  <2>1. stack' \in Seq(Frames) /\ Behind(pushed, stack, stack')
    BY <1>1, <1>5, StillWaits
  <2> QED
    BY <1>0, <1>1, <2>1 DEF Behind
<1>7. \A q, at : Reached(q, at) => Reached(q, at)'
  BY <1>4, ReachedStays
<1>8. h = "runner" \/ \E j \in DOMAIN stack : j # 1 /\ stack[j].op = "own" /\ stack[j].host = h
  <2>1. h = "runner" \/ \E j \in DOMAIN stack : j >= 1 /\ stack[j].op = "own" /\ stack[j].host = h
    BY <1>1 DEF AtWalk, WalkIsSound, ClaimedLater
  <2>2. \A j \in DOMAIN stack : stack[j].op = "own" => j # 1
    BY <1>1
  <2> QED
    BY <2>1, <2>2
<1>9. WalkIsSound'
  <2>1. ClaimedLater(stack')
    <3>1. ClaimedLater(stack)
      BY DEF AtWalk, WalkIsSound
    <3>2. \A i \in DOMAIN pushed :
              \/ pushed[i].host = "runner"
              \/ \E j \in DOMAIN pushed :
                     j >= i /\ pushed[j].op = "own" /\ pushed[j].host = pushed[i].host
              \/ \E j \in DOMAIN stack : j # 1 /\ stack[j].op = "own" /\ stack[j].host = pushed[i].host
      BY <1>5, <1>8
    <3> QED
      BY <1>1, <1>5, <3>1, <3>2, StillClaimed
  <2>2. \A v \in visited' : v \in AllTargets \X AppModules /\ v[2] \in HostsIn(ProductOf(v[1]))
    <3>1. \A v \in visited : v \in AllTargets \X AppModules /\ v[2] \in HostsIn(ProductOf(v[1]))
      BY DEF AtWalk, WalkIsSound
    <3> QED
      BY <1>2, <1>4, <3>1
  <2>3. /\ Frames' = Frames
        /\ \A q : HostsFrom(q)' = HostsFrom(q) /\ HostsIn(q)' = HostsIn(q)
    BY <1>4, GraphStays
  <2>4. selected' = selected /\ parents' = parents
    BY <1>4
  <2> QED
    BY <1>6, <2>1, <2>2, <2>3, <2>4 DEF AtWalk, WalkIsSound
<1>10. WalkIsComplete'
  <2>1. \A q \in graph.direct : Waits(stack', "product", q, "runner") \/ Reached(q, "runner")'
    BY <1>6, <1>7 DEF AtWalk, WalkIsComplete
  <2>2. ASSUME NEW v \in visited', v[1] \in SourceTargets, NEW q \in Needed(v[1])
        PROVE  Waits(stack', "product", q, v[2]) \/ Reached(q, v[2])'
    <3>1. CASE v \in visited
      BY <1>6, <1>7, <2>2, <3>1 DEF AtWalk, WalkIsComplete
    <3>2. CASE v = <<t, h>> /\ v \notin visited
      BY <1>5, <1>6, <2>2, <3>2
    <3> QED
      BY <1>4, <3>1, <3>2
  <2>3. ASSUME NEW v \in selected, NEW u \in Within(v[1])
        PROVE  Waits(stack', "target", u, v[2]) \/ <<u, v[2]>> \in visited'
    BY <1>4, <1>6 DEF AtWalk, WalkIsComplete
  <2>4. \A u : Needed(u)' = Needed(u)
    BY <1>4, GraphStays
  <2>5. graph' = graph /\ selected' = selected
    BY <1>4
  <2> QED
    BY <2>1, <2>2, <2>3, <2>4, <2>5 DEF WalkIsComplete
<1>11. WalkIsRecorded'
  <2>0. /\ DOMAIN sources = {u \in SourceTargets : \E at \in AppModules : <<u, at>> \in visited}
        /\ \A u \in DOMAIN sources : sources[u] = {at \in AppModules : <<u, at>> \in visited}
        /\ sources = [u \in DOMAIN sources |-> sources[u]]
        /\ binary = {at \in AppModules : <<"vendor", at>> \in visited}
    BY DEF AtWalk, WalkIsRecorded
  <2>1. /\ DOMAIN sources' = {u \in SourceTargets : \E at \in AppModules : <<u, at>> \in visited'}
        /\ \A u \in DOMAIN sources' : sources'[u] = {at \in AppModules : <<u, at>> \in visited'}
        /\ sources' = [u \in DOMAIN sources' |-> sources'[u]]
        /\ binary' = {at \in AppModules : <<"vendor", at>> \in visited'}
    <3>1. CASE t \in SourceTargets /\ sources' = Put(sources, t, h) /\ binary' = binary
      <4>1. /\ DOMAIN sources' = DOMAIN sources \cup {t}
            /\ \A u \in DOMAIN sources : u # t => sources'[u] = sources[u]
            /\ sources'[t] = (IF t \in DOMAIN sources THEN sources[t] ELSE {}) \cup {h}
            /\ sources' = [u \in DOMAIN sources' |-> sources'[u]]
        BY <3>1 DEF Put
      <4>2. t # "vendor"
        BY <3>1 DEF SourceTargets
      <4>3. \A u \in SourceTargets :
                {at \in AppModules : <<u, at>> \in visited'} =
                    {at \in AppModules : <<u, at>> \in visited} \cup (IF u = t THEN {h} ELSE {})
        BY <1>2, <1>4
      <4>4. DOMAIN sources' = {u \in SourceTargets : \E at \in AppModules : <<u, at>> \in visited'}
        BY <1>2, <1>4, <2>0, <3>1, <4>1
      <4>5. ASSUME NEW u \in DOMAIN sources'
            PROVE  sources'[u] = {at \in AppModules : <<u, at>> \in visited'}
        <5>1. u \in SourceTargets
          BY <4>4
        <5>2. CASE u # t
          <6>1. u \in DOMAIN sources /\ sources'[u] = sources[u]
            BY <4>1, <5>2
          <6>2. {at \in AppModules : <<u, at>> \in visited'} = {at \in AppModules : <<u, at>> \in visited}
            BY <4>3, <5>1, <5>2
          <6> QED
            BY <2>0, <6>1, <6>2
        <5>3. CASE u = t /\ t \in DOMAIN sources
          BY <2>0, <4>1, <4>3, <5>1, <5>3
        <5>4. CASE u = t /\ t \notin DOMAIN sources
          BY <2>0, <4>1, <4>3, <5>1, <5>4
        <5> QED
          BY <5>2, <5>3, <5>4
      <4>6. binary' = {at \in AppModules : <<"vendor", at>> \in visited'}
        BY <1>4, <2>0, <3>1, <4>2
      <4> QED
        BY <4>1, <4>4, <4>5, <4>6
    <3>2. CASE <<t, h>> \in visited /\ sources' = sources /\ binary' = binary
      <4>1. visited' = visited
        BY <1>4, <3>2
      <4> QED
        BY <2>0, <3>2, <4>1
    <3>3. CASE t = "vendor" /\ sources' = sources /\ binary' = binary \cup {h}
      <4>1. t \notin SourceTargets
        BY <3>3 DEF SourceTargets
      <4>2. \A u \in SourceTargets : \A at : <<u, at>> \in visited' <=> <<u, at>> \in visited
        BY <1>4, <4>1
      <4>3. \A at : <<"vendor", at>> \in visited' <=> <<"vendor", at>> \in visited \/ at = h
        BY <1>4, <3>3
      <4> QED
        BY <1>2, <2>0, <3>3, <4>2, <4>3
    <3> QED
      BY <1>4, <3>1, <3>2, <3>3
  <2>2. ASSUME NEW v \in visited', v[1] \in SourceTargets
        PROVE  v[2] = "runner" \/ IsOwned(v[2]) \/ Claimed(stack', v[2])
    <3>1. CASE v \in visited
      BY <1>6, <2>2, <3>1 DEF AtWalk, WalkIsRecorded
    <3>2. CASE v = <<t, h>>
      BY <1>6, <1>8, <3>2 DEF Claimed
    <3> QED
      BY <1>4, <3>1, <3>2
  <2>3. /\ \A at : IsOwned(at)' = IsOwned(at)
        /\ ProductsAreImages' = ProductsAreImages /\ dynamic' = dynamic /\ waived' = waived
    BY <1>4 DEF IsOwned, ProductsAreImages
  <2> QED
    BY <2>1, <2>2, <2>3 DEF AtWalk, WalkIsRecorded
<1> QED
  BY <1>4, <1>9, <1>10, <1>11 DEF AtWalk

LEMMA OwnStep ==
    ASSUME graph \in Graphs, AtWalk, Own
    PROVE  walkPc' = "walk" /\ AtWalk'
<1>0. PICK c : c = Head(stack)
  OBVIOUS
<1> DEFINE h == c.host
<1>1. /\ stack \in Seq(Frames) /\ stack # <<>> /\ c.op = "own" /\ c \in Frames
      /\ <<>> \in Seq(Frames) /\ \A i \in DOMAIN <<>> : FALSE
      /\ stack' = <<>> \o Tail(stack)
  <2>1. stack \in Seq(Frames) /\ stack # <<>> /\ c.op = "own" /\ stack' = Tail(stack)
    BY <1>0 DEF AtWalk, WalkIsSound, Own, Rest
  <2> QED
    BY <1>0, <2>1, HeadTailProperties, ConcatEmptySeq
<1>2. c.name \in Products /\ ImageOf(c.name) # {} /\ h = ImageName(c.name) /\ h \in graph.images
  <2>1. c.name \in Products /\ ImageOf(c.name) # {} /\ h = ImageName(c.name)
    BY <1>1 DEF Frames
  <2> QED
    BY <2>1, OneImage
<1>3. /\ walkPc' = "walk"
      /\ UNCHANGED <<graph, visited, parents, selected, sources, binary, dynamic, waived>>
      /\ products' = products \cup {p \in {[module |-> h, source |-> "spm"]} :
                                        \E t \in DOMAIN sources : p.module \in sources[t]}
  BY <1>0 DEF Own
<1>4. /\ stack' \in Seq(Frames)
      /\ \A op, name, at : op # "own" /\ Waits(stack, op, name, at) => Waits(stack', op, name, at)
      /\ \A at : Claimed(stack, at) => Claimed(stack', at) \/ at = h
  <2>1. stack' \in Seq(Frames) /\ Behind(<<>>, stack, stack')
    BY <1>1, StillWaits
  <2> QED
    BY <1>0, <1>1, <2>1 DEF Behind
<1>5. \A q, at : Reached(q, at) => Reached(q, at)'
  BY <1>3, ReachedStays
<1>6. WalkIsSound'
  <2>1. ClaimedLater(stack')
    <3>1. ClaimedLater(stack)
      BY DEF AtWalk, WalkIsSound
    <3> QED
      BY <1>1, <3>1, StillClaimed
  <2>2. /\ Frames' = Frames
        /\ \A q : HostsFrom(q)' = HostsFrom(q) /\ HostsIn(q)' = HostsIn(q)
    BY <1>3, GraphStays
  <2> QED
    BY <1>3, <1>4, <2>1, <2>2 DEF AtWalk, WalkIsSound
<1>7. WalkIsComplete'
  <2>1. \A q \in graph.direct : Waits(stack', "product", q, "runner") \/ Reached(q, "runner")'
    BY <1>4, <1>5 DEF AtWalk, WalkIsComplete
  <2>2. ASSUME NEW v \in visited, v[1] \in SourceTargets, NEW q \in Needed(v[1])
        PROVE  Waits(stack', "product", q, v[2]) \/ Reached(q, v[2])'
    BY <1>4, <1>5, <2>2 DEF AtWalk, WalkIsComplete
  <2>3. ASSUME NEW v \in selected, NEW u \in Within(v[1])
        PROVE  Waits(stack', "target", u, v[2]) \/ <<u, v[2]>> \in visited
    BY <1>4 DEF AtWalk, WalkIsComplete
  <2>4. \A u : Needed(u)' = Needed(u)
    BY <1>3, GraphStays
  <2>5. graph' = graph /\ selected' = selected /\ visited' = visited
    BY <1>3
  <2> QED
    BY <2>1, <2>2, <2>3, <2>4, <2>5 DEF WalkIsComplete
<1>8. WalkIsRecorded'
  <2>1. \A at : IsOwned(at) => IsOwned(at)'
    BY <1>3 DEF IsOwned
  <2>2. ASSUME NEW v \in visited, v[1] \in SourceTargets
        PROVE  v[2] = "runner" \/ IsOwned(v[2])' \/ Claimed(stack', v[2])
    <3>1. CASE v[2] # h
      BY <1>4, <2>1, <2>2, <3>1 DEF AtWalk, WalkIsRecorded
    <3>2. CASE v[2] = h
      <4>1. v \in AllTargets \X AppModules
        BY <2>2 DEF AtWalk, WalkIsSound
      <4>2. v[1] \in DOMAIN sources /\ h \in sources[v[1]]
        BY <2>2, <3>2, <4>1 DEF AtWalk, WalkIsRecorded
      <4>3. [module |-> h, source |-> "spm"] \in products'
        BY <1>3, <4>2
      <4> QED
        BY <3>2, <4>3 DEF IsOwned
    <3> QED
      BY <3>1, <3>2
  <2>3. ProductsAreImages'
    <3>1. \A p \in products : p = [module |-> p.module, source |-> "spm"] /\ p.module \in graph.images
      BY DEF AtWalk, WalkIsRecorded, ProductsAreImages
    <3>2. \A p \in products' : p \in products \/ p = [module |-> h, source |-> "spm"]
      BY <1>3
    <3> QED
      BY <1>2, <1>3, <3>1, <3>2 DEF ProductsAreImages
  <2> QED
    BY <1>3, <2>2, <2>3 DEF AtWalk, WalkIsRecorded
<1> QED
  BY <1>3, <1>6, <1>7, <1>8 DEF AtWalk

LEMMA StartWalkStep ==
    ASSUME graph \in Graphs, AtStart, StartWalk
    PROVE  \/ walkPc' = "failed" \/ (walkPc' = "walk" /\ AtWalk') \/ (walkPc' = "pods" /\ AtPods')
<1>1. /\ visited' = {} /\ selected' = {} /\ parents' = [m \in {} |-> {}]
      /\ sources' = [t \in {} |-> {}] /\ binary' = {} /\ dynamic' = {} /\ products' = {} /\ waived' = {}
      /\ graph' = graph
  BY DEF AtStart, StartWalk, walk, found
<1>2. CASE walkPc' # "failed" /\ graph.direct = {}
  <2>1. walkPc' = "pods"
    BY <1>2 DEF StartWalk
  <2>2. VendorIsKnown'
    BY <1>1, <1>2 DEF VendorIsKnown, ProductsAreImages
  <2>3. CodeIsKnown'
    BY <1>1, <1>2 DEF CodeIsKnown
  <2> QED
    BY <1>1, <2>1, <2>2, <2>3 DEF AtPods
<1>3. CASE walkPc' # "failed" /\ graph.direct # {}
  <2>1. /\ walkPc' = "walk"
        /\ stack' = [i \in 1..Cardinality(graph.direct) |->
                        Call("product", IF i = 1 THEN "Root" ELSE "Vendor", "runner", "Root")]
    BY <1>3 DEF StartWalk
  <2> DEFINE n == Cardinality(graph.direct)
  <2>2. n \in Nat /\ \A i \in 1..n : i = 1 \/ "Vendor" \in graph.direct
    <3>1. CASE graph.direct = {"Root"}
      <4>1. n = 1
        BY <3>1, FS_Singleton
      <4> QED
        BY <4>1
    <3>2. CASE graph.direct = {"Root", "Vendor"}
      <4>1. IsFiniteSet({"Root"}) /\ Cardinality({"Root"}) = 1
        BY FS_Singleton
      <4>2. n = 2
        <5>1. graph.direct = {"Root"} \cup {"Vendor"} /\ "Vendor" \notin {"Root"}
          BY <3>2
        <5> QED
          BY <4>1, <5>1, FS_AddElement
      <4> QED
        BY <3>2, <4>2
    <3> QED
      BY <1>3, <3>1, <3>2, GraphParts
  <2>3. \A p \in graph.direct : p \in Products /\ Waits(stack', "product", p, "runner")
    <3>1. "Root" \in graph.direct /\ graph.direct \subseteq {"Root", "Vendor"}
      BY <1>3, GraphParts
    <3>2. 1 \in 1..n /\ ("Vendor" \in graph.direct => 2 \in 1..n)
      <4>1. CASE graph.direct = {"Root"}
        BY <4>1, FS_Singleton
      <4>2. CASE graph.direct = {"Root", "Vendor"}
        <5>1. IsFiniteSet({"Root"}) /\ Cardinality({"Root"}) = 1
          BY FS_Singleton
        <5>2. graph.direct = {"Root"} \cup {"Vendor"} /\ "Vendor" \notin {"Root"}
          BY <4>2
        <5>3. n = 2
          BY <5>1, <5>2, FS_AddElement
        <5> QED
          BY <5>3
      <4> QED
        BY <1>3, <4>1, <4>2, GraphParts
    <3> HIDE DEF n
    <3>3. /\ DOMAIN stack' = 1..n
          /\ \A i \in 1..n : stack'[i] = Call("product", IF i = 1 THEN "Root" ELSE "Vendor", "runner", "Root")
      BY <2>1 DEF n
    <3>4. Waits(stack', "product", "Root", "runner")
      BY <3>2, <3>3 DEF Waits, Call
    <3>5. "Vendor" \in graph.direct => Waits(stack', "product", "Vendor", "runner")
      BY <3>2, <3>3 DEF Waits, Call
    <3> QED
      BY <3>1, <3>4, <3>5 DEF Products
  <2>4. stack' \in Seq(Frames) /\ \A i \in DOMAIN stack' : stack'[i].host = "runner"
    <3>1. Call("product", "Root", "runner", "Root") \in Frames
      <4>1. "runner" \in HostsFrom("Root")
        BY <1>3, GraphParts DEF HostsFrom, Linked
      <4> QED
        BY <4>1 DEF Frames, Call, Products, AppModules
    <3>2. "Vendor" \in graph.direct => Call("product", "Vendor", "runner", "Root") \in Frames
      <4>1. "Vendor" \in graph.direct => "runner" \in HostsFrom("Vendor")
        BY DEF HostsFrom, Linked, FromVendor
      <4> QED
        BY <4>1 DEF Frames, Call, Products, AppModules
    <3>3. \A i \in 1..n : Call("product", IF i = 1 THEN "Root" ELSE "Vendor", "runner", "Root") \in Frames
      BY <2>2, <3>1, <3>2
    <3> HIDE DEF n
    <3>4. stack' \in [1..n -> Frames]
      BY <2>1, <3>3 DEF n
    <3>5. stack' \in Seq(Frames)
      BY <2>2, <3>4, SeqDef
    <3>6. \A i \in DOMAIN stack' : stack'[i].host = "runner"
      BY <2>1 DEF Call
    <3> QED
      BY <3>5, <3>6
  <2>5. Frames' = Frames
    BY <1>1, GraphStays
  <2>6. WalkIsSound'
    BY <1>1, <2>4, <2>5 DEF WalkIsSound, ClaimedLater
  <2>7. WalkIsComplete'
    BY <1>1, <2>3 DEF WalkIsComplete
  <2>8. WalkIsRecorded'
    BY <1>1 DEF WalkIsRecorded, ProductsAreImages
  <2> QED
    BY <1>1, <1>3, <2>1, <2>6, <2>7, <2>8 DEF AtWalk
<1> QED
  BY <1>2, <1>3

LEMMA HostsAreSome ==
    ASSUME graph \in Graphs, graph.direct # {}
    PROVE  FromVendor # {} /\ \A p \in Products : HostsIn(p) # {}
<1>1. InRoot # {}
  BY GraphParts DEF InRoot, IntoAll, Linked
<1>2. InPlugin # {}
  BY <1>1 DEF InPlugin, IntoAll
<1>3. FromVendor # {} /\ FromShared # {}
  BY <1>2 DEF FromVendor, FromShared
<1>4. \A p \in Products : HostsFrom(p) # {}
  BY <1>1, <1>3, GraphParts DEF HostsFrom, Products, Linked
<1> QED
  BY <1>3, <1>4 DEF HostsIn, IntoAll

LEMMA VendorStays ==
    ASSUME UNCHANGED <<graph, walk, found>>
    PROVE  AtVendor' = AtVendor
<1>1. \A p : HostsIn(p)' = HostsIn(p)
  BY GraphStays
<1>2. FromVendor' = FromVendor /\ InVendor' = InVendor /\ ImageOf("Vendor")' = ImageOf("Vendor")
  BY GraphStays
<1>3. WalkedSources' = WalkedSources
  BY <1>1 DEF WalkedSources
<1>4. \A m : OwnedOr(m)' = OwnedOr(m)
  BY <1>1 DEF OwnedOr, IsOwned, found
<1>5. ParentsAreKnown' = ParentsAreKnown
  BY <1>2 DEF ParentsAreKnown, walk
<1>6. ProductsAreImages' = ProductsAreImages
  BY DEF ProductsAreImages, found
<1>7. OwnedOr({"runner"})' = OwnedOr({"runner"})
  BY <1>4
<1> QED
  BY <1>2, <1>3, <1>5, <1>6, <1>7 DEF AtVendor, found

-----------------------------------------------------------------------------
(* At the end of the walk every product has been reached from every image     *)
(* that links it, and every target been walked in every image.              *)
LEMMA AllReached ==
    ASSUME graph \in Graphs, AtWalk, stack = <<>>
    PROVE  /\ \A p \in Products : \A h \in HostsFrom(p) : Reached(p, h)
           /\ \A t \in AllTargets : \A h \in AppModules :
                  <<t, h>> \in visited <=> h \in HostsIn(ProductOf(t))
<1>1. \A op, name, host : ~Waits(stack, op, name, host)
  BY DEF Waits
<1>2. /\ \A p \in graph.direct : Reached(p, "runner")
      /\ \A c \in selected : \A t \in Within(c[1]) : <<t, c[2]>> \in visited
      /\ \A v \in visited : v[1] \in SourceTargets => \A p \in Needed(v[1]) : Reached(p, v[2])
  BY <1>1 DEF AtWalk, WalkIsComplete
<1>3. ASSUME NEW p, NEW h, Reached(p, h), NEW t \in Within(p)
      PROVE  <<t, Into(p, h)>> \in visited
  BY <1>2, <1>3 DEF Reached
<1>4. ASSUME NEW p, NEW h, Reached(p, h), NEW t \in Within(p), t \in SourceTargets, NEW q \in Needed(t)
      PROVE  Reached(q, Into(p, h))
  <2> DEFINE v == <<t, Into(p, h)>>
  <2>1. v \in visited
    BY <1>3, <1>4
  <2>2. v[1] = t /\ v[2] = Into(p, h)
    OBVIOUS
  <2> HIDE DEF v
  <2>3. Reached(q, v[2])
    BY <1>2, <1>4, <2>1, <2>2
  <2> QED
    BY <2>2, <2>3
<1>5. \A h \in HostsFrom("Root") : Reached("Root", h)
  BY <1>2 DEF HostsFrom, Linked
<1>6. \A h \in InRoot : Reached("Plugin", h) /\ (graph.declares = "yes" => Reached("Shared", h))
  <2> SUFFICES ASSUME NEW h \in HostsFrom("Root")
               PROVE  /\ Reached("Plugin", Into("Root", h))
                      /\ graph.declares = "yes" => Reached("Shared", Into("Root", h))
    BY DEF InRoot, IntoAll, HostsFrom
  <2>1. "root" \in Within("Root") /\ "root" \in SourceTargets
    BY DEF Within, SourceTargets
  <2>2. "Plugin" \in Needed("root") /\ (graph.declares = "yes" => "Shared" \in Needed("root"))
    BY DEF Needed
  <2> QED
    BY <1>4, <1>5, <2>1, <2>2
<1>7. \A h \in InPlugin : Reached("Vendor", h) /\ Reached("Shared", h)
  <2> SUFFICES ASSUME NEW h \in InRoot
               PROVE  Reached("Vendor", Into("Plugin", h)) /\ Reached("Shared", Into("Plugin", h))
    BY DEF InPlugin, IntoAll
  <2>1. "plugin" \in Within("Plugin") /\ "plugin" \in SourceTargets
    BY DEF Within, SourceTargets
  <2>2. "Vendor" \in Needed("plugin") /\ "Shared" \in Needed("plugin")
    BY DEF Needed
  <2> QED
    BY <1>4, <1>6, <2>1, <2>2
<1>8. \A h \in FromVendor : Reached("Vendor", h)
  BY <1>2, <1>7 DEF FromVendor, Linked
<1>9. graph.helper = "needy" => \A h \in InVendor : Reached("Shared", h)
  <2> SUFFICES ASSUME graph.helper = "needy", NEW h \in FromVendor
               PROVE  Reached("Shared", Into("Vendor", h))
    BY DEF InVendor, IntoAll
  <2>1. "helper" \in Within("Vendor") /\ "helper" \in SourceTargets
    BY DEF Within, SourceTargets
  <2>2. "Shared" \in Needed("helper")
    BY DEF Needed
  <2> QED
    BY <1>4, <1>8, <2>1, <2>2
<1>10. \A h \in FromShared : Reached("Shared", h)
  BY <1>6, <1>7, <1>9 DEF FromShared
<1>11. \A p \in Products : \A h \in HostsFrom(p) : Reached(p, h)
  BY <1>5, <1>6, <1>8, <1>10 DEF Products, HostsFrom
<1>12. ASSUME NEW t \in AllTargets, NEW h \in HostsIn(ProductOf(t))
       PROVE  <<t, h>> \in visited
  <2>1. ProductOf(t) \in Products /\ t \in Within(ProductOf(t))
    BY TargetsAreInside
  <2>2. PICK at \in HostsFrom(ProductOf(t)) : h = Into(ProductOf(t), at)
    BY DEF HostsIn, IntoAll
  <2> QED
    BY <1>3, <1>11, <2>1, <2>2
<1>13. \A t, h : <<t, h>> \in visited => h \in HostsIn(ProductOf(t))
  BY DEF AtWalk, WalkIsSound
<1> QED
  BY <1>11, <1>12, <1>13

LEMMA WalkEndsStep ==
    ASSUME graph \in Graphs, AtWalk, WalkEnds
    PROVE  walkPc' = "vendor" /\ AtVendor'
<1>1. stack = <<>> /\ walkPc' = "vendor" /\ UNCHANGED <<graph, walk, found>>
  BY DEF WalkEnds
<1>2. /\ \A p \in Products : \A h \in HostsFrom(p) : Reached(p, h)
      /\ \A t \in AllTargets : \A h \in AppModules :
             <<t, h>> \in visited <=> h \in HostsIn(ProductOf(t))
  BY <1>1, AllReached
<1>3. ParentsAreKnown
  <2> SUFFICES ASSUME ImageOf("Vendor") # {}
               PROVE  "vendor" \in DOMAIN parents /\ parents["vendor"] = FromVendor
    BY DEF ParentsAreKnown
  <2>1. "Vendor" \in Products /\ ImageName("Vendor") = "vendor" /\ HostsFrom("Vendor") = FromVendor
    BY DEF Products, ImageName, HostsFrom
  <2>2. \A h \in FromVendor : "vendor" \in DOMAIN parents /\ h \in parents["vendor"]
    BY <1>2, <2>1 DEF Reached
  <2>3. FromVendor # {}
    BY HostsAreSome DEF AtWalk
  <2>4. parents["vendor"] \subseteq FromVendor
    BY <2>1, <2>2, <2>3 DEF AtWalk, WalkIsSound
  <2> QED
    BY <2>2, <2>3, <2>4
<1>4. \A t \in SourceTargets : HostsIn(ProductOf(t)) \subseteq AppModules /\ HostsIn(ProductOf(t)) # {}
  BY HostsAreModules, TargetsAreInside, HostsAreSome DEF AtWalk, AllTargets
<1>5. sources = WalkedSources
  <2>1. DOMAIN sources = SourceTargets
    BY <1>2, <1>4 DEF AtWalk, WalkIsRecorded, AllTargets
  <2>2. ASSUME NEW t \in SourceTargets
        PROVE  sources[t] = HostsIn(ProductOf(t))
    <3>1. sources[t] = {h \in AppModules : <<t, h>> \in visited}
      BY <2>1 DEF AtWalk, WalkIsRecorded
    <3> QED
      BY <1>2, <1>4, <3>1 DEF AllTargets
  <2>3. sources = [t \in DOMAIN sources |-> sources[t]]
    BY DEF AtWalk, WalkIsRecorded
  <2> QED
    BY <2>1, <2>2, <2>3 DEF WalkedSources
<1>6. binary = InVendor
  <2>1. binary = {h \in AppModules : <<"vendor", h>> \in visited}
    BY DEF AtWalk, WalkIsRecorded
  <2>2. HostsIn("Vendor") = InVendor /\ ProductOf("vendor") = "Vendor"
    BY DEF HostsIn, InVendor, HostsFrom, ProductOf
  <2>3. InVendor \subseteq AppModules
    BY <2>2, HostsAreModules DEF Products
  <2> QED
    BY <1>2, <2>1, <2>2, <2>3 DEF AllTargets
<1>7. OwnedOr({"runner"})
  <2> SUFFICES ASSUME NEW t \in SourceTargets, NEW h \in HostsIn(ProductOf(t))
               PROVE  h = "runner" \/ IsOwned(h)
    BY DEF OwnedOr
  <2>1. <<t, h>> \in visited
    BY <1>2, <1>4 DEF AllTargets
  <2>2. ~Claimed(stack, h)
    BY <1>1 DEF Claimed
  <2>3. h = "runner" \/ IsOwned(h) \/ Claimed(stack, h)
    BY <2>1 DEF AtWalk, WalkIsRecorded
  <2> QED
    BY <2>2, <2>3
<1>8. AtVendor
  BY <1>3, <1>5, <1>6, <1>7 DEF AtVendor, AtWalk, WalkIsRecorded
<1>9. AtVendor' = AtVendor
  BY <1>1, VendorStays
<1> QED
  BY <1>1, <1>8, <1>9

-----------------------------------------------------------------------------
(* Of the images that the walk knows, only Vendor's can be the vendor's. *)
LEMMA DynamicIsVendor ==
    ASSUME graph \in Graphs, dynamic \subseteq graph.images \cap {graph.payload}
    PROVE  dynamic \subseteq {"vendor", "engine"}
BY GraphParts

LEMMA VendorHosts ==
    ASSUME graph \in Graphs, NEW p \in Products, "vendor" \in HostsIn(p)
    PROVE  ImageOf("Vendor") # {}
<1>1. InRoot \subseteq {"runner"} /\ InPlugin \subseteq {"runner", "plugin"}
      /\ FromVendor \subseteq {"runner", "plugin"}
  BY HostsAreModules
<1>2. "vendor" \in InVendor => ImageOf("Vendor") # {}
  BY <1>1 DEF InVendor, IntoAll, Into
<1>3. \A q \in Products : "vendor" \in HostsFrom(q) => ImageOf("Vendor") # {}
  BY <1>1, <1>2 DEF HostsFrom, FromShared, Products, Linked
<1>4. "vendor" \in HostsFrom(p) \/ (ImageOf(p) # {} /\ ImageName(p) = "vendor")
  BY DEF HostsIn, IntoAll, Into
<1>5. ImageName(p) = "vendor" => p = "Vendor"
  BY DEF Products, ImageName
<1> QED
  BY <1>3, <1>4, <1>5

LEMMA VendorStep ==
    ASSUME graph \in Graphs, AtVendor, Vendor
    PROVE  walkPc' = "failed" \/ (walkPc' = "hosts" /\ AtHosts')
<1> DEFINE matched == graph.images \cap {graph.payload}
<1>1. SUFFICES ASSUME walkPc' # "failed"
               PROVE  walkPc' = "hosts" /\ AtHosts'
  OBVIOUS
<1>2. /\ walkPc' = "hosts" /\ UNCHANGED <<graph, walk, sources, waived>>
      /\ dynamic' \subseteq matched
      /\ binary' = IF dynamic' = {} THEN binary ELSE dynamic'
      /\ products' = Disown(dynamic')
  BY <1>1 DEF Vendor, PhaseFails
<1>3. products' = {p \in products : p.module \notin dynamic'}
  BY <1>2 DEF Disown
<1>4. /\ \A p : HostsIn(p)' = HostsIn(p)
      /\ FromVendor' = FromVendor /\ InVendor' = InVendor /\ ImageOf("Vendor")' = ImageOf("Vendor")
  BY <1>2, GraphStays
<1>5. ParentsAreKnown'
  BY <1>2, <1>4 DEF AtVendor, ParentsAreKnown, walk
<1>6. ProductsAreImages'
  BY <1>2, <1>3 DEF AtVendor, ProductsAreImages
<1>7. VendorIsKnown'
  BY <1>2, <1>3, <1>4, <1>6 DEF AtVendor, VendorIsKnown
<1>8. sources' = WalkedSources'
  BY <1>2, <1>4 DEF AtVendor, WalkedSources
<1>9. OwnedOr({"runner"} \cup dynamic)'
  BY <1>2, <1>3, <1>4 DEF AtVendor, OwnedOr, IsOwned
<1> QED
  BY <1>2, <1>5, <1>7, <1>8, <1>9 DEF AtVendor, AtHosts

LEMMA SourceHostsStep ==
    ASSUME graph \in Graphs, AtHosts, SourceHosts
    PROVE  walkPc' = "helpers" /\ AtHelpers'
<1>1. /\ walkPc' = "helpers" /\ UNCHANGED <<graph, walk, binary, dynamic, products, waived>>
      /\ sources' = [t \in DOMAIN sources |-> UNION {RealHosts(h) : h \in sources[t]}]
      /\ sources = [t \in SourceTargets |-> HostsIn(ProductOf(t))]
      /\ graph.direct # {} /\ VendorIsKnown /\ ParentsAreKnown /\ OwnedOr({"runner"} \cup dynamic)
      /\ waived = {}
  BY DEF SourceHosts, AtHosts, WalkedSources
<1>2. dynamic \subseteq {"vendor", "engine"}
  BY <1>1, DynamicIsVendor DEF VendorIsKnown
<1>3. ASSUME NEW t \in SourceTargets, NEW h \in HostsIn(ProductOf(t))
      PROVE  RealHosts(h) = IF h \in dynamic THEN FromVendor ELSE {h}
  <2>1. CASE h \notin dynamic
    BY <2>1 DEF RealHosts
  <2>2. CASE h \in dynamic
    <3>1. ProductOf(t) \in Products /\ h # "engine"
      BY HostsAreModules, TargetsAreInside DEF AllTargets
    <3>2. h = "vendor"
      BY <1>2, <2>2, <3>1
    <3>3. "vendor" \in DOMAIN parents /\ parents["vendor"] = FromVendor
      BY <1>1, <3>1, <3>2, VendorHosts DEF ParentsAreKnown
    <3>4. "vendor" \notin FromVendor
      BY HostsAreModules
    <3> QED
      BY <2>2, <3>2, <3>3, <3>4 DEF RealHosts
  <2> QED
    BY <2>1, <2>2
<1>4. sources' = [t \in SourceTargets |-> CodeIn(t)]
  <2>1. \A t \in SourceTargets : UNION {RealHosts(h) : h \in HostsIn(ProductOf(t))} = CodeIn(t)
    BY <1>3 DEF CodeIn
  <2> QED
    BY <1>1, <2>1
<1>5. /\ \A p : HostsIn(p)' = HostsIn(p)
      /\ FromVendor' = FromVendor /\ InVendor' = InVendor
  BY <1>1, GraphStays
<1>6. \A t : CodeIn(t)' = CodeIn(t)
  BY <1>1, <1>5 DEF CodeIn
<1>7. CodeIsKnown'
  BY <1>1, <1>4, <1>6 DEF CodeIsKnown
<1>8. VendorIsKnown'
  BY <1>1, <1>5 DEF VendorIsKnown, ProductsAreImages
<1>9. ASSUME NEW t \in SourceTargets, NEW h \in CodeIn(t)
      PROVE  h = "runner" \/ IsOwned(h)
  <2>1. PICK at \in HostsIn(ProductOf(t)) : h \in IF at \in dynamic THEN FromVendor ELSE {at}
    BY DEF CodeIn
  <2>2. CASE at \notin dynamic
    BY <1>1, <2>1, <2>2 DEF OwnedOr
  <2>3. CASE at \in dynamic
    <3>1. h \in FromVendor /\ h \in {"runner", "plugin"}
      BY <2>1, <2>3, HostsAreModules
    <3>2. h = "runner" \/ h \in InPlugin
      BY <3>1 DEF FromVendor, Linked
    <3>3. HostsIn(ProductOf("plugin")) = InPlugin
      BY DEF HostsIn, ProductOf, HostsFrom, InPlugin
    <3>4. h \notin dynamic
      BY <1>2, <3>1
    <3> QED
      BY <1>1, <3>2, <3>3, <3>4 DEF OwnedOr, SourceTargets
  <2> QED
    BY <2>2, <2>3
<1>10. \A h : IsOwned(h)' = IsOwned(h)
  BY <1>1 DEF IsOwned
<1> QED
  BY <1>1, <1>4, <1>7, <1>8, <1>9, <1>10 DEF AtHelpers

LEMMA LinkHelpersStep ==
    ASSUME graph \in Graphs, AtHelpers, LinkHelpers
    PROVE  walkPc' = "pods" /\ AtPods'
<1> DEFINE excused == {p.module : p \in {q \in products :
                LET inside == {t \in DOMAIN sources : q.module \in sources[t]}
                IN  inside # {} /\ inside \subseteq waived'}}
<1>1. /\ walkPc' = "pods" /\ UNCHANGED <<graph, walk, sources, binary, dynamic>>
      /\ waived' = {t \in DOMAIN sources : LinkerOnly(t)}
      /\ products' = {p \in products : p.module \notin excused}
  BY DEF LinkHelpers, Disown
<1>2. /\ \A p : HostsIn(p)' = HostsIn(p)
      /\ FromVendor' = FromVendor /\ InVendor' = InVendor
  BY <1>1, GraphStays
<1>3. \A t : CodeIn(t)' = CodeIn(t)
  BY <1>1, <1>2 DEF CodeIn
<1>4. CodeIsKnown'
  BY <1>1, <1>3 DEF AtHelpers, CodeIsKnown
<1>5. VendorIsKnown'
  BY <1>1, <1>2 DEF AtHelpers, VendorIsKnown, ProductsAreImages
<1>6. ASSUME NEW t \in waived'
      PROVE  t \in DOMAIN sources /\ t \in EmptyTargets /\ sources[t] \subseteq binary
  BY <1>1 DEF LinkerOnly
<1>7. ASSUME NEW t \in DOMAIN sources \ waived', NEW h \in sources[t]
      PROVE  h = "runner" \/ IsOwned(h)'
  <2>1. h = "runner" \/ IsOwned(h)
    BY DEF AtHelpers
  <2>2. ASSUME NEW p \in products, p.module = h
        PROVE  p.module \notin excused
    <3> SUFFICES ASSUME NEW q \in products, q.module = h,
                        {u \in DOMAIN sources : q.module \in sources[u]} \subseteq waived'
                 PROVE  FALSE
      BY <2>2
    <3> QED
      OBVIOUS
  <2> QED
    BY <1>1, <2>1, <2>2 DEF IsOwned
<1>8. EmptyTargets' = EmptyTargets
  BY <1>1 DEF EmptyTargets
<1>9. graph.direct # {} /\ graph' = graph
  BY <1>1 DEF AtHelpers
<1> QED
  BY <1>1, <1>4, <1>5, <1>6, <1>7, <1>8, <1>9 DEF AtPods

-----------------------------------------------------------------------------
(* The same hosts by definition: the chains of products from the runner.     *)
ImagesOn(c) == {i \in DOMAIN c : ImageOf(c[i]) \ dynamic # {}}
Topped(c) == ImagesOn(c) = {} \/ \E i \in ImagesOn(c) : \A j \in ImagesOn(c) : j <= i
Linkable(C) == \A c \in C : c \in Seq(Products) /\ c # <<>> /\ Topped(c)
Via(p, hosts) == IF hosts = {} \/ ImageOf(p) \ dynamic = {} THEN hosts ELSE ImageOf(p)
ChainEnds(C, p) == UNION {HostOn(c) : c \in {d \in C : d[Len(d)] = p}}
EndsBefore(C, q) == UNION {ChainEnds(C, p) : p \in {x \in Products : <<x, q>> \in Edges}}

LEMMA TopOf ==
    ASSUME NEW c \in Seq(Products), c # <<>>, Topped(c)
    PROVE  HostOn(c) # {} /\ c[Len(c)] \in Products
<1>1. c[Len(c)] \in Products
  BY LenProperties
<1>2. CASE ImagesOn(c) = {}
  BY <1>1, <1>2 DEF ImagesOn, HostOn
<1>3. CASE ImagesOn(c) # {}
  <2>1. PICK i \in ImagesOn(c) : \A j \in ImagesOn(c) : j <= i
    BY <1>3 DEF Topped
  <2> DEFINE m == CHOOSE k \in ImagesOn(c) : \A j \in ImagesOn(c) : j <= k
  <2>2. m \in ImagesOn(c)
    BY <2>1
  <2>3. HostOn(c) = ImageOf(c[m])
    BY <1>3 DEF HostOn, ImagesOn
  <2> HIDE DEF m
  <2>4. ImageOf(c[m]) # {}
    BY <2>2 DEF ImagesOn
  <2> QED
    BY <1>1, <2>3, <2>4
<1> QED
  BY <1>2, <1>3

LEMMA FirstHost ==
    ASSUME NEW p \in Products
    PROVE  Topped(<<p>>) /\ HostOn(<<p>>) = Via(p, {"runner"})
<1>1. DOMAIN <<p>> = {1} /\ <<p>>[1] = p
  OBVIOUS
<1>2. ImagesOn(<<p>>) = IF ImageOf(p) \ dynamic = {} THEN {} ELSE {1}
  BY <1>1 DEF ImagesOn
<1>3. Topped(<<p>>)
  BY <1>2 DEF Topped
<1>4. CASE ImageOf(p) \ dynamic = {}
  <2>1. ImagesOn(<<p>>) = {}
    BY <1>2, <1>4
  <2>2. HostOn(<<p>>) = {"runner"}
    BY <2>1 DEF HostOn, ImagesOn
  <2> QED
    BY <1>3, <1>4, <2>2 DEF Via
<1>5. CASE ImageOf(p) \ dynamic # {}
  <2>1. ImagesOn(<<p>>) = {1}
    BY <1>2, <1>5
  <2> DEFINE m == CHOOSE k \in ImagesOn(<<p>>) : \A j \in ImagesOn(<<p>>) : j <= k
  <2>2. m = 1
    BY <2>1
  <2>3. HostOn(<<p>>) = ImageOf(<<p>>[m])
    BY <2>1 DEF HostOn, ImagesOn
  <2> HIDE DEF m
  <2>4. HostOn(<<p>>) = ImageOf(p)
    BY <1>1, <2>2, <2>3
  <2> QED
    BY <1>3, <1>5, <2>4 DEF Via
<1> QED
  BY <1>4, <1>5

Lengthens(d, c, q) ==
    /\ d \in Seq(Products) /\ d # <<>> /\ Topped(d) /\ d[Len(d)] = q
    /\ HostOn(d) = Via(q, HostOn(c))

LEMMA NextHost ==
    ASSUME NEW c \in Seq(Products), c # <<>>, Topped(c), NEW q \in Products, NEW d, d = Append(c, q)
    PROVE  Lengthens(d, c, q)
<1>1. /\ d \in Seq(Products) /\ d # <<>> /\ Len(d) = Len(c) + 1 /\ d[Len(d)] = q
      /\ \A i \in 1..Len(c) : d[i] = c[i]
      /\ Len(c) \in Nat /\ DOMAIN c = 1..Len(c) /\ DOMAIN d = 1..Len(d)
  BY AppendProperties, LenProperties
<1> DEFINE n == Len(d)
<1>2. /\ DOMAIN d = DOMAIN c \cup {n} /\ n \notin DOMAIN c /\ n \in Nat
      /\ \A i \in DOMAIN c : i \in Nat /\ i < n /\ d[i] = c[i]
  BY <1>1
<1> HIDE DEF n
<1>3. HostOn(c) # {}
  BY TopOf
<1>4. CASE ImageOf(q) \ dynamic = {}
  <2>1. ImagesOn(d) = ImagesOn(c)
    BY <1>1, <1>2, <1>4 DEF ImagesOn, n
  <2>2. Topped(d)
    BY <2>1 DEF Topped
  <2> DEFINE m == CHOOSE k \in ImagesOn(c) : \A j \in ImagesOn(c) : j <= k
             md == CHOOSE k \in ImagesOn(d) : \A j \in ImagesOn(d) : j <= k
  <2>3. HostOn(c) = IF ImagesOn(c) = {} THEN {"runner"} ELSE ImageOf(c[m])
    BY DEF HostOn, ImagesOn
  <2>4. HostOn(d) = IF ImagesOn(d) = {} THEN {"runner"} ELSE ImageOf(d[md])
    BY DEF HostOn, ImagesOn
  <2>5. ImagesOn(c) # {} => m \in ImagesOn(c)
    BY DEF Topped
  <2>6. md = m
    BY <2>1, Zenon
  <2> HIDE DEF m, md
  <2>7. ImagesOn(c) # {} => d[m] = c[m]
    BY <1>2, <2>5 DEF ImagesOn
  <2>8. HostOn(d) = HostOn(c)
    BY <2>1, <2>3, <2>4, <2>6, <2>7
  <2> QED
    BY <1>1, <1>4, <2>2, <2>8 DEF Via, Lengthens
<1>5. CASE ImageOf(q) \ dynamic # {}
  <2>1. n \in ImagesOn(d) /\ \A j \in ImagesOn(d) : j <= n /\ j \in Nat
    BY <1>1, <1>2, <1>5 DEF ImagesOn, n
  <2>2. Topped(d)
    BY <2>1 DEF Topped
  <2> DEFINE md == CHOOSE k \in ImagesOn(d) : \A j \in ImagesOn(d) : j <= k
  <2>3. HostOn(d) = ImageOf(d[md])
    BY <2>1 DEF HostOn, ImagesOn
  <2>4. md \in ImagesOn(d) /\ \A j \in ImagesOn(d) : j <= md
    BY <2>1
  <2> HIDE DEF md
  <2>5. md = n
    BY <1>2, <2>1, <2>4
  <2>6. HostOn(d) = ImageOf(q)
    BY <1>1, <2>3, <2>5 DEF n
  <2> QED
    BY <1>1, <1>3, <1>5, <2>2, <2>6 DEF Via, Lengthens
<1> QED
  BY <1>4, <1>5

LEMMA AllEdges ==
    ASSUME graph \in Graphs
    PROVE  /\ \A e \in Edges : e[1] \in Products /\ e[2] \in Products /\ e = <<e[1], e[2]>>
           /\ \A q : <<"Root", q>> \in Edges <=> q = "Plugin" \/ (q = "Shared" /\ graph.declares = "yes")
           /\ \A q : <<"Plugin", q>> \in Edges <=> q \in {"Shared", "Vendor"}
           /\ \A q : <<"Vendor", q>> \in Edges <=> q = "Shared" /\ graph.helper = "needy"
           /\ \A q : <<"Shared", q>> \notin Edges
<1> DEFINE After(p) == UNION {ToSet(Needs(t)) : t \in ToSet(TargetsOf(p)) \ {"vendor"}}
<1>1. \A p \in Products : After(p) = UNION {Needed(t) : t \in Within(p) \ {"vendor"}}
  <2> SUFFICES ASSUME NEW p \in Products
               PROVE  After(p) = UNION {Needed(t) : t \in Within(p) \ {"vendor"}}
    OBVIOUS
  <2>1. ToSet(TargetsOf(p)) = Within(p)
    BY InsideProduct
  <2>2. \A t \in Within(p) \ {"vendor"} : t \in SourceTargets
    BY TargetsAreInside DEF AllTargets
  <2>3. \A t \in Within(p) \ {"vendor"} : ToSet(Needs(t)) = Needed(t)
    BY <2>2, NeededByTarget
  <2> QED
    BY <2>1, <2>3
<1>2. /\ After("Root") = Needed("root") /\ After("Plugin") = Needed("plugin")
      /\ After("Vendor") = Needed("helper") /\ After("Shared") = Needed("shared")
  <2>1. /\ Within("Root") \ {"vendor"} = {"root"} /\ Within("Plugin") \ {"vendor"} = {"plugin"}
        /\ Within("Vendor") \ {"vendor"} = {"helper"} /\ Within("Shared") \ {"vendor"} = {"shared"}
    BY DEF Within
  <2> QED
    BY <1>1, <2>1 DEF Products
<1>3. Edges = UNION {{<<p, q>> : q \in After(p)} : p \in Products}
  BY DEF Edges
<1> HIDE DEF After
<1>4. \A p, q : <<p, q>> \in Edges <=> p \in Products /\ q \in After(p)
  BY <1>3
<1>5. \A e \in Edges : \E p \in Products : \E q \in After(p) : e = <<p, q>>
  BY <1>3
<1>6. \A p \in Products : After(p) \subseteq Products
  BY <1>2, TargetsAreInside DEF Products, SourceTargets
<1>7. \A e \in Edges : e[1] \in Products /\ e[2] \in Products /\ e = <<e[1], e[2]>>
  BY <1>5, <1>6
<1> QED
  BY <1>2, <1>4, <1>7 DEF Products, Needed

LEMMA LongerChains ==
    ASSUME graph \in Graphs, NEW C, Linkable(C), NEW L, L = Longer(C)
    PROVE  /\ Linkable(L)
           /\ \A q \in Products : ChainEnds(L, q) = Via(q, EndsBefore(C, q))
<1>1. \A d : d \in L <=> \E c \in C : \E e \in Edges : e[1] = c[Len(c)] /\ d = Append(c, e[2])
  BY DEF Longer
<1>2. \A e \in Edges : e[1] \in Products /\ e[2] \in Products /\ e = <<e[1], e[2]>>
  BY AllEdges
<1>3. ASSUME NEW c \in C, NEW e \in Edges, NEW d, d = Append(c, e[2])
      PROVE  Lengthens(d, c, e[2])
  <2>1. c \in Seq(Products) /\ c # <<>> /\ Topped(c) /\ e[2] \in Products
    BY <1>2 DEF Linkable
  <2> QED
    BY <1>3, <2>1, NextHost
<1>4. Linkable(L)
  BY <1>1, <1>3 DEF Linkable, Lengthens
<1>5. ASSUME NEW q \in Products
      PROVE  ChainEnds(L, q) = Via(q, EndsBefore(C, q))
  <2> DEFINE H == UNION {ChainEnds(C, p) : p \in {x \in Products : <<x, q>> \in Edges}}
  <2>1. \A h : h \in ChainEnds(L, q) <=>
            \E c \in C : <<c[Len(c)], q>> \in Edges /\ h \in Via(q, HostOn(c))
    <3>1. ASSUME NEW h, h \in ChainEnds(L, q)
          PROVE  \E c \in C : <<c[Len(c)], q>> \in Edges /\ h \in Via(q, HostOn(c))
      <4>1. PICK d \in L : d[Len(d)] = q /\ h \in HostOn(d)
        BY <3>1 DEF ChainEnds
      <4>2. PICK c \in C, e \in Edges : e[1] = c[Len(c)] /\ d = Append(c, e[2])
        BY <1>1
      <4>3. e[2] = q /\ HostOn(d) = Via(q, HostOn(c))
        <5>1. Lengthens(d, c, e[2])
          BY <1>3, <4>2
        <5>2. d[Len(d)] = e[2] /\ HostOn(d) = Via(e[2], HostOn(c))
          BY <5>1 DEF Lengthens
        <5> QED
          BY <4>1, <5>2
      <4>4. e = <<c[Len(c)], q>>
        BY <1>2, <4>2, <4>3
      <4> QED
        BY <4>1, <4>3, <4>4
    <3>2. ASSUME NEW h, NEW c \in C, <<c[Len(c)], q>> \in Edges, h \in Via(q, HostOn(c))
          PROVE  h \in ChainEnds(L, q)
      <4> DEFINE e == <<c[Len(c)], q>>
                 d == Append(c, q)
      <4>1. e[1] = c[Len(c)] /\ e[2] = q /\ e \in Edges
        BY <3>2
      <4> HIDE DEF e
      <4>2. d = Append(c, e[2])
        BY <4>1
      <4> HIDE DEF d
      <4>3. d \in L /\ d[Len(d)] = q /\ HostOn(d) = Via(q, HostOn(c))
        BY <1>1, <1>3, <4>1, <4>2 DEF Lengthens
      <4> QED
        BY <3>2, <4>3 DEF ChainEnds
    <3> QED
      BY <3>1, <3>2
  <2>2. \A h : h \in H <=> \E c \in C : <<c[Len(c)], q>> \in Edges /\ h \in HostOn(c)
    <3>1. \A h, p : h \in ChainEnds(C, p) <=> \E c \in C : c[Len(c)] = p /\ h \in HostOn(c)
      BY DEF ChainEnds
    <3>2. \A c \in C : c[Len(c)] \in Products
      BY TopOf DEF Linkable
    <3> QED
      BY <3>1, <3>2
  <2>3. \A c \in C : HostOn(c) # {}
    BY TopOf DEF Linkable
  <2> HIDE DEF H
  <2>4. ChainEnds(L, q) = Via(q, H)
    <3>1. CASE ImageOf(q) \ dynamic = {}
      <4>1. \A h : h \in ChainEnds(L, q) <=> h \in H
        BY <2>1, <2>2, <3>1 DEF Via
      <4>2. ChainEnds(L, q) = H
        BY <4>1 DEF ChainEnds
      <4> QED
        BY <3>1, <4>2 DEF Via
    <3>2. CASE ImageOf(q) \ dynamic # {} /\ H = {}
      <4>1. \A c \in C : <<c[Len(c)], q>> \notin Edges
        BY <2>2, <2>3, <3>2
      <4>2. ChainEnds(L, q) = {}
        BY <2>1, <4>1
      <4> QED
        BY <3>2, <4>2 DEF Via
    <3>3. CASE ImageOf(q) \ dynamic # {} /\ H # {}
      <4>1. PICK c \in C : <<c[Len(c)], q>> \in Edges
        BY <2>2, <3>3
      <4>2. \A b \in C : Via(q, HostOn(b)) = ImageOf(q)
        BY <2>3, <3>3 DEF Via
      <4>3. \A h : h \in ChainEnds(L, q) <=> h \in ImageOf(q)
        BY <2>1, <4>1, <4>2
      <4>4. ChainEnds(L, q) = ImageOf(q)
        BY <4>3 DEF ChainEnds
      <4> QED
        BY <3>3, <4>4 DEF Via
    <3> QED
      BY <3>1, <3>2, <3>3
  <2> QED
    BY <2>4 DEF H, EndsBefore
<1> QED
  BY <1>4, <1>5

LEMMA HostsByChains ==
    ASSUME graph \in Graphs, "plugin" \notin dynamic
    PROVE  /\ ChainEnds(Chains, "Root") = InRoot /\ ChainEnds(Chains, "Plugin") = InPlugin
           /\ ChainEnds(Chains, "Vendor") = Via("Vendor", FromVendor)
           /\ ChainEnds(Chains, "Shared") =
                  Via("Shared", (IF graph.declares = "yes" THEN InRoot ELSE {}) \cup InPlugin
                                \cup (IF graph.helper = "needy" THEN Via("Vendor", FromVendor) ELSE {}))
           /\ Linkable(Chains)
<1> DEFINE one == {<<p>> : p \in graph.direct}
           two == Longer(one)
           three == Longer(two)
           four == Longer(three)
<1>0. two = Longer(one) /\ three = Longer(two) /\ four = Longer(three)
  OBVIOUS
<1>1. Linkable(one)
  <2> SUFFICES ASSUME NEW p \in graph.direct PROVE <<p>> \in Seq(Products) /\ <<p>> # <<>> /\ Topped(<<p>>)
    BY DEF Linkable
  <2>1. p \in Products
    BY GraphParts DEF Products
  <2> QED
    BY <2>1, FirstHost
<1>2. \A p \in Products : ChainEnds(one, p) = Via(p, Linked(p))
  <2> SUFFICES ASSUME NEW p \in Products PROVE ChainEnds(one, p) = Via(p, Linked(p))
    OBVIOUS
  <2>1. \A q : <<q>>[Len(<<q>>)] = q
    OBVIOUS
  <2>2. \A c \in one : \E q \in graph.direct : c = <<q>>
    OBVIOUS
  <2>3. CASE p \in graph.direct
    <3>1. {c \in one : c[Len(c)] = p} = {<<p>>}
      BY <2>1, <2>2, <2>3
    <3>2. ChainEnds(one, p) = HostOn(<<p>>)
      BY <3>1 DEF ChainEnds
    <3> QED
      BY <2>3, <3>2, FirstHost DEF Linked
  <2>4. CASE p \notin graph.direct
    <3>1. {c \in one : c[Len(c)] = p} = {}
      BY <2>1, <2>2, <2>4
    <3> QED
      BY <2>4, <3>1 DEF ChainEnds, Linked, Via
  <2> QED
    BY <2>3, <2>4
<1>6. Chains = one \cup two \cup three \cup four
  BY DEF Chains
<1> HIDE DEF one, two, three, four
<1>3. Linkable(two) /\ \A q \in Products : ChainEnds(two, q) = Via(q, EndsBefore(one, q))
  BY <1>0, <1>1, LongerChains
<1>4. Linkable(three) /\ \A q \in Products : ChainEnds(three, q) = Via(q, EndsBefore(two, q))
  BY <1>0, <1>3, LongerChains
<1>5. Linkable(four) /\ \A q \in Products : ChainEnds(four, q) = Via(q, EndsBefore(three, q))
  BY <1>0, <1>4, LongerChains
<1>7. \A p : ChainEnds(Chains, p)
              = ChainEnds(one, p) \cup ChainEnds(two, p) \cup ChainEnds(three, p) \cup ChainEnds(four, p)
  BY <1>6 DEF ChainEnds
<1>8. ASSUME NEW C
      PROVE  /\ EndsBefore(C, "Root") = {} /\ EndsBefore(C, "Plugin") = ChainEnds(C, "Root")
             /\ EndsBefore(C, "Vendor") = ChainEnds(C, "Plugin")
             /\ EndsBefore(C, "Shared") = (IF graph.declares = "yes" THEN ChainEnds(C, "Root") ELSE {})
                                      \cup ChainEnds(C, "Plugin")
                                      \cup (IF graph.helper = "needy" THEN ChainEnds(C, "Vendor") ELSE {})
  <2>1. /\ {x \in Products : <<x, "Root">> \in Edges} = {}
        /\ {x \in Products : <<x, "Plugin">> \in Edges} = {"Root"}
        /\ {x \in Products : <<x, "Vendor">> \in Edges} = {"Plugin"}
        /\ {x \in Products : <<x, "Shared">> \in Edges} =
               (IF graph.declares = "yes" THEN {"Root"} ELSE {}) \cup {"Plugin"}
               \cup (IF graph.helper = "needy" THEN {"Vendor"} ELSE {})
    BY AllEdges DEF Products
  <2>2. /\ UNION {ChainEnds(C, p) : p \in {}} = {}
        /\ \A q : UNION {ChainEnds(C, p) : p \in {q}} = ChainEnds(C, q)
    OBVIOUS
  <2>3. /\ EndsBefore(C, "Root") = {} /\ EndsBefore(C, "Plugin") = ChainEnds(C, "Root")
        /\ EndsBefore(C, "Vendor") = ChainEnds(C, "Plugin")
    BY <2>1, <2>2 DEF EndsBefore
  <2>4. EndsBefore(C, "Shared") =
            UNION {ChainEnds(C, p) : p \in (IF graph.declares = "yes" THEN {"Root"} ELSE {}) \cup {"Plugin"}
                                       \cup (IF graph.helper = "needy" THEN {"Vendor"} ELSE {})}
    BY <2>1 DEF EndsBefore
  <2>5. \A A, B : UNION {ChainEnds(C, p) : p \in A \cup B} =
                     (UNION {ChainEnds(C, p) : p \in A}) \cup (UNION {ChainEnds(C, p) : p \in B})
    OBVIOUS
  <2>6. /\ UNION {ChainEnds(C, p) : p \in IF graph.declares = "yes" THEN {"Root"} ELSE {}} =
               IF graph.declares = "yes" THEN ChainEnds(C, "Root") ELSE {}
        /\ UNION {ChainEnds(C, p) : p \in IF graph.helper = "needy" THEN {"Vendor"} ELSE {}} =
               IF graph.helper = "needy" THEN ChainEnds(C, "Vendor") ELSE {}
    BY <2>2
  <2> QED
    BY <2>2, <2>3, <2>4, <2>5, <2>6
<1>9. /\ \A p : Via(p, {}) = {}
      /\ \A p, A, B : Via(p, A \cup B) = Via(p, A) \cup Via(p, B)
  BY DEF Via
<1>10. /\ \A H : Via("Root", H) = H
       /\ Via("Plugin", InRoot) = InPlugin /\ Linked("Root") = InRoot
  <2>1. ImageOf("Root") = {}
    BY OneImage DEF Products
  <2>2. ImageOf("Plugin") = {} \/ ImageOf("Plugin") = {"plugin"}
    BY OneImage DEF Products, ImageName
  <2>3. Via("Plugin", InRoot) = InPlugin
    BY <2>2 DEF Via, InPlugin, IntoAll, Into, ImageName
  <2>4. Linked("Root") = InRoot
    BY <2>1 DEF InRoot, IntoAll, Into
  <2> QED
    BY <2>1, <2>3, <2>4 DEF Via
<1>11. {"Root", "Plugin", "Vendor", "Shared"} = Products
  BY DEF Products
<1>12. /\ ChainEnds(one, "Root") = InRoot /\ ChainEnds(one, "Plugin") = {} /\ ChainEnds(one, "Shared") = {}
       /\ ChainEnds(one, "Vendor") = Via("Vendor", Linked("Vendor"))
  <2>1. Linked("Plugin") = {} /\ Linked("Shared") = {}
    BY GraphParts DEF Linked
  <2> QED
    BY <1>2, <1>9, <1>10, <1>11, <2>1
<1>13. /\ ChainEnds(two, "Root") = {} /\ ChainEnds(two, "Plugin") = InPlugin /\ ChainEnds(two, "Vendor") = {}
       /\ ChainEnds(two, "Shared") = Via("Shared", (IF graph.declares = "yes" THEN InRoot ELSE {})
                                    \cup (IF graph.helper = "needy" THEN ChainEnds(one, "Vendor") ELSE {}))
  BY <1>3, <1>8, <1>9, <1>10, <1>11, <1>12
<1>14. /\ ChainEnds(three, "Root") = {} /\ ChainEnds(three, "Plugin") = {}
       /\ ChainEnds(three, "Vendor") = Via("Vendor", InPlugin) /\ ChainEnds(three, "Shared") = Via("Shared", InPlugin)
  <2>1. EndsBefore(two, "Shared") = InPlugin
    BY <1>8, <1>13
  <2> QED
    BY <1>4, <1>8, <1>9, <1>11, <1>13, <2>1
<1>15. /\ ChainEnds(four, "Root") = {} /\ ChainEnds(four, "Plugin") = {} /\ ChainEnds(four, "Vendor") = {}
       /\ ChainEnds(four, "Shared") = Via("Shared", IF graph.helper = "needy" THEN Via("Vendor", InPlugin) ELSE {})
  <2>1. EndsBefore(three, "Shared") = IF graph.helper = "needy" THEN Via("Vendor", InPlugin) ELSE {}
    BY <1>8, <1>14
  <2> QED
    BY <1>5, <1>8, <1>9, <1>11, <1>14, <2>1
<1>16. ChainEnds(Chains, "Root") = InRoot /\ ChainEnds(Chains, "Plugin") = InPlugin
  BY <1>7, <1>12, <1>13, <1>14, <1>15
<1>17. ChainEnds(Chains, "Vendor") = Via("Vendor", FromVendor)
  <2>1. Via("Vendor", FromVendor) = Via("Vendor", InPlugin) \cup Via("Vendor", Linked("Vendor"))
    BY <1>9 DEF FromVendor
  <2>2. ChainEnds(Chains, "Vendor") = ChainEnds(one, "Vendor") \cup ChainEnds(three, "Vendor")
    BY <1>7, <1>13, <1>15
  <2> QED
    BY <1>12, <1>14, <2>1, <2>2
<1>18. ChainEnds(Chains, "Shared") =
           Via("Shared", (IF graph.declares = "yes" THEN InRoot ELSE {}) \cup InPlugin
                         \cup (IF graph.helper = "needy" THEN Via("Vendor", FromVendor) ELSE {}))
  <2> DEFINE A == IF graph.declares = "yes" THEN InRoot ELSE {}
             V1 == IF graph.helper = "needy" THEN Via("Vendor", Linked("Vendor")) ELSE {}
             V2 == IF graph.helper = "needy" THEN Via("Vendor", InPlugin) ELSE {}
             V == IF graph.helper = "needy" THEN Via("Vendor", FromVendor) ELSE {}
  <2>1. V = V2 \cup V1
    BY <1>9 DEF FromVendor
  <2>2. /\ ChainEnds(two, "Shared") = Via("Shared", A \cup V1)
        /\ ChainEnds(three, "Shared") = Via("Shared", InPlugin)
        /\ ChainEnds(four, "Shared") = Via("Shared", V2)
    BY <1>12, <1>13, <1>14, <1>15
  <2> HIDE DEF A, V1, V2, V
  <2>3. ChainEnds(Chains, "Shared")
        = ChainEnds(two, "Shared") \cup ChainEnds(three, "Shared") \cup ChainEnds(four, "Shared")
    BY <1>7, <1>12
  <2>4. /\ Via("Shared", A \cup V1) = Via("Shared", A) \cup Via("Shared", V1)
        /\ Via("Shared", V) = Via("Shared", V2) \cup Via("Shared", V1)
        /\ Via("Shared", A \cup InPlugin) = Via("Shared", A) \cup Via("Shared", InPlugin)
        /\ Via("Shared", (A \cup InPlugin) \cup V) = Via("Shared", A \cup InPlugin) \cup Via("Shared", V)
    BY <1>9, <2>1
  <2>5. ChainEnds(Chains, "Shared") = Via("Shared", (A \cup InPlugin) \cup V)
    <3>1. \A a, b, c, d : ((a \cup b) \cup c) \cup d = (a \cup c) \cup (d \cup b)
      OBVIOUS
    <3>2. ChainEnds(Chains, "Shared") =
              ((Via("Shared", A) \cup Via("Shared", V1)) \cup Via("Shared", InPlugin)) \cup Via("Shared", V2)
      BY <2>2, <2>3, <2>4
    <3>3. Via("Shared", (A \cup InPlugin) \cup V) =
              (Via("Shared", A) \cup Via("Shared", InPlugin)) \cup (Via("Shared", V2) \cup Via("Shared", V1))
      BY <2>4
    <3> QED
      BY <3>1, <3>2, <3>3
  <2> QED
    BY <2>5 DEF A, V
<1>19. Linkable(Chains)
  BY <1>1, <1>3, <1>4, <1>5, <1>6 DEF Linkable
<1> QED
  BY <1>16, <1>17, <1>18, <1>19

(* The records of the walk, with the vendor's image replaced by its hosts, are *)
(* what the chains say.                                                      *)
Code(hosts) == UNION {IF h \in dynamic THEN FromVendor ELSE {h} : h \in hosts}

LEMMA CodeByChains ==
    ASSUME graph \in Graphs, dynamic \subseteq graph.images \cap {graph.payload}, graph.direct # {}
    PROVE  \A p \in Products : Code(HostsIn(p)) = ChainEnds(Chains, p) /\ Code(HostsIn(p)) # {}
<1>1. dynamic \subseteq {"vendor", "engine"}
  BY DynamicIsVendor
<1>2. /\ InRoot \subseteq {"runner"} /\ InPlugin \subseteq {"runner", "plugin"}
      /\ FromVendor \subseteq {"runner", "plugin"}
  BY HostsAreModules
<1>3. \A H : H \cap dynamic = {} => Code(H) = H
  <2> SUFFICES ASSUME NEW H, H \cap dynamic = {} PROVE Code(H) = H
    OBVIOUS
  <2>1. \A h \in H : h \notin dynamic
    OBVIOUS
  <2> QED
    BY <2>1 DEF Code
<1>4. \A A, B : Code(A \cup B) = Code(A) \cup Code(B)
  BY DEF Code
<1>5. InPlugin # {} /\ FromVendor # {} /\ \A p \in Products : HostsIn(p) # {}
  <2>1. HostsIn("Plugin") = InPlugin
    BY DEF HostsIn, HostsFrom, InPlugin
  <2> QED
    BY <2>1, HostsAreSome DEF Products
<1>6. /\ Code(InRoot) = InRoot /\ Code(InPlugin) = InPlugin /\ Code(FromVendor) = FromVendor
      /\ Code({}) = {}
  <2>1. /\ InRoot \cap dynamic = {} /\ InPlugin \cap dynamic = {} /\ FromVendor \cap dynamic = {}
        /\ {} \cap dynamic = {}
    BY <1>1, <1>2
  <2> QED
    BY <1>3, <2>1
<1>7. Code(InVendor) = Via("Vendor", FromVendor)
  <2>1. CASE ImageOf("Vendor") = {}
    <3>1. InVendor = FromVendor
      BY <2>1 DEF InVendor, IntoAll, Into
    <3> QED
      BY <1>6, <2>1, <3>1 DEF Via
  <2>2. CASE ImageOf("Vendor") # {}
    <3>1. ImageOf("Vendor") = {"vendor"} /\ InVendor = {"vendor"}
      BY <1>5, <2>2, OneImage DEF InVendor, IntoAll, Into, ImageName, Products
    <3>2. CASE "vendor" \in dynamic
      BY <3>1, <3>2 DEF Code, Via
    <3>3. CASE "vendor" \notin dynamic
      BY <1>3, <1>5, <3>1, <3>3 DEF Via
    <3> QED
      BY <3>2, <3>3
  <2> QED
    BY <2>1, <2>2
<1>8. Code(HostsIn("Shared")) =
          Via("Shared", (IF graph.declares = "yes" THEN InRoot ELSE {}) \cup InPlugin
                        \cup (IF graph.helper = "needy" THEN Via("Vendor", FromVendor) ELSE {}))
  <2> DEFINE H == (IF graph.declares = "yes" THEN InRoot ELSE {}) \cup InPlugin
                  \cup (IF graph.helper = "needy" THEN Via("Vendor", FromVendor) ELSE {})
  <2>1. HostsFrom("Shared") = FromShared
    BY DEF HostsFrom
  <2>2. H # {} /\ FromShared # {}
    BY <1>5 DEF FromShared
  <2>3. CASE ImageOf("Shared") = {}
    <3>1. HostsIn("Shared") = FromShared
      BY <2>1, <2>3 DEF HostsIn, IntoAll, Into
    <3>2. Code(FromShared) = H
      <4> DEFINE A == IF graph.declares = "yes" THEN InRoot ELSE {}
                 W == IF graph.helper = "needy" THEN InVendor ELSE {}
      <4>1. Code(A) = A /\ Code(W) = IF graph.helper = "needy" THEN Via("Vendor", FromVendor) ELSE {}
        BY <1>6, <1>7
      <4>2. FromShared = (A \cup InPlugin) \cup W
        BY DEF FromShared
      <4>3. H = (A \cup Code(InPlugin)) \cup Code(W)
        BY <1>6, <4>1
      <4> HIDE DEF A, W, H
      <4>4. Code((A \cup InPlugin) \cup W) = (Code(A) \cup Code(InPlugin)) \cup Code(W)
        <5>1. Code((A \cup InPlugin) \cup W) = Code(A \cup InPlugin) \cup Code(W)
          BY <1>4
        <5>2. Code(A \cup InPlugin) = Code(A) \cup Code(InPlugin)
          BY <1>4
        <5> QED
          BY <5>1, <5>2
      <4> QED
        BY <4>1, <4>2, <4>3, <4>4
    <3> QED
      BY <2>3, <3>1, <3>2 DEF Via
  <2>4. CASE ImageOf("Shared") # {}
    <3>1. ImageOf("Shared") = {"shared"} /\ HostsIn("Shared") = {"shared"}
      BY <2>1, <2>2, <2>4, OneImage DEF HostsIn, IntoAll, Into, ImageName, Products
    <3> HIDE DEF H
    <3>2. Code({"shared"}) = {"shared"} /\ "shared" \notin dynamic
      BY <1>1, <1>3
    <3>3. Via("Shared", H) = {"shared"}
      BY <2>2, <3>1, <3>2 DEF Via
    <3> QED
      BY <3>1, <3>2, <3>3 DEF H
  <2> QED
    BY <2>3, <2>4
<1>9. /\ HostsIn("Root") = InRoot /\ HostsIn("Plugin") = InPlugin /\ HostsIn("Vendor") = InVendor
  BY DEF HostsIn, HostsFrom, InRoot, InPlugin, InVendor
<1>10. \A p \in Products : Code(HostsIn(p)) = ChainEnds(Chains, p)
  BY <1>1, <1>6, <1>7, <1>8, <1>9, HostsByChains DEF Products
<1>11. \A p \in Products : Code(HostsIn(p)) # {}
  BY <1>5 DEF Code
<1> QED
  BY <1>10, <1>11

LEMMA HostsAreCode ==
    ASSUME graph \in Graphs, dynamic \subseteq graph.images \cap {graph.payload}, NEW t \in SourceTargets
    PROVE  /\ graph.direct = {} => HostsOf(t) = {}
           /\ graph.direct # {} => HostsOf(t) = CodeIn(t) /\ HostsOf(t) # {}
<1>1. HostsOf(t) = ChainEnds(Chains, ProductOf(t))
  <2>1. Linkable(Chains)
    BY DynamicIsVendor, HostsByChains
  <2>2. \A d \in Chains : t \in ToSet(TargetsOf(d[Len(d)])) <=> d[Len(d)] = ProductOf(t)
    <3> SUFFICES ASSUME NEW d \in Chains
                 PROVE  t \in ToSet(TargetsOf(d[Len(d)])) <=> d[Len(d)] = ProductOf(t)
      OBVIOUS
    <3>1. d[Len(d)] \in Products
      BY <2>1, TopOf DEF Linkable
    <3>2. ToSet(TargetsOf(d[Len(d)])) = Within(d[Len(d)])
      BY <3>1, InsideProduct
    <3> QED
      BY <3>1, <3>2, TargetsAreInside DEF AllTargets
  <2> QED
    BY <2>2 DEF HostsOf, ChainEnds
<1>2. ProductOf(t) \in Products
  BY TargetsAreInside DEF AllTargets
<1>3. CASE graph.direct # {}
  BY <1>1, <1>2, <1>3, CodeByChains DEF Code, CodeIn
<1>4. CASE graph.direct = {}
  <2>1. InRoot = {} /\ InPlugin = {} /\ FromVendor = {}
    BY <1>4 DEF InRoot, InPlugin, FromVendor, IntoAll, Linked
  <2>2. \A p \in Products : ChainEnds(Chains, p) = {}
    BY <2>1, DynamicIsVendor, HostsByChains DEF Via, Products
  <2> QED
    BY <1>1, <1>2, <1>4, <2>2
<1> QED
  BY <1>3, <1>4

-----------------------------------------------------------------------------
LEMMA ChainsStay ==
    ASSUME UNCHANGED <<graph, dynamic>>
    PROVE  \A t : HostsOf(t)' = HostsOf(t)
<1>1. \A s : Ordered(s)' = Ordered(s)
  BY DEF Ordered
<1>2. (\A p : TargetsOf(p)' = TargetsOf(p)) /\ (\A t : Needs(t)' = Needs(t)) /\ \A p : ImageOf(p)' = ImageOf(p)
  BY <1>1 DEF TargetsOf, Needs, ImageOf
<1>3. Edges' = Edges
  BY <1>2 DEF Edges
<1>4. \A C : Longer(C)' = Longer(C)
  BY <1>3 DEF Longer
<1>5. Chains' = Chains
  BY <1>4 DEF Chains
<1>6. \A c : HostOn(c)' = HostOn(c)
  <2> SUFFICES ASSUME NEW c PROVE HostOn(c)' = HostOn(c)
    OBVIOUS
  <2>1. /\ {i \in DOMAIN c : ImageOf(c[i]) \ dynamic # {}}' = {i \in DOMAIN c : ImageOf(c[i]) \ dynamic # {}}
        /\ \A i : ImageOf(c[i])' = ImageOf(c[i])
    BY <1>2
  <2> QED
    BY <2>1, Zenon DEF HostOn
<1> QED
  BY <1>2, <1>5, <1>6 DEF HostsOf

(* What the phase writes. *)
Shipped(embedded) == {"runner", "rust", "core"} \cup graph.images \cup (embedded \cap {"pod", "binpod"})
PodsInUse(embedded) == embedded \cap Shipped(embedded) # {} \/ graph.direct = {}
IsWritten(i, all, embedded) ==
    /\ i.sources = sources /\ i.waived = waived /\ i.hosts = binary /\ i.dynamic = dynamic
    /\ i.products = all
    /\ i.managers = (IF graph.direct # {} THEN {"spm"} ELSE {})
                    \cup (IF PodsInUse(embedded) THEN {"pods"} ELSE {})
    /\ Cardinality({p.module : p \in all}) = Cardinality(all)
    /\ \A p \in all :
           \/ p \in products
           \/ /\ p = [module |-> p.module, source |-> "pods"] /\ PodsInUse(embedded)
              /\ p.module \in Shipped(embedded) /\ p.module # "binpod"
              /\ p.module \notin dynamic /\ ~IsOwned(p.module)
    /\ products \subseteq all

LEMMA PodsWrite ==
    ASSUME NEW embedded, NEW missing, NEW listed, Pods(embedded, missing, listed)
    PROVE  \/ walkPc' = "failed"
           \/ /\ walkPc' = "written" /\ UNCHANGED <<graph, sources, binary, dynamic, products, waived>>
              /\ \E i, all : /\ written' = Receipt(i, [m \in Shipped(embedded) |-> Build(m)], "Release")
                             /\ IsWritten(i, all, embedded)
<1> DEFINE distributed == Shipped(embedded)
           inUse == PodsInUse(embedded)
           all == IF inUse /\ ~missing THEN PodsOwn(embedded, listed, distributed) ELSE products
           described == [managers |-> (IF graph.direct # {} THEN {"spm"} ELSE {})
                                      \cup (IF inUse THEN {"pods"} ELSE {}),
                         products |-> all, sources |-> sources, waived |-> waived,
                         hosts |-> binary, dynamic |-> dynamic]
<1>1. SUFFICES ASSUME walkPc' # "failed"
               PROVE  /\ walkPc' = "written" /\ UNCHANGED <<graph, sources, binary, dynamic, products, waived>>
                      /\ \E i, b : /\ written' = Receipt(i, [m \in distributed |-> Build(m)], "Release")
                                   /\ IsWritten(i, b, embedded)
  OBVIOUS
<1>2. /\ walkPc' = "written" /\ UNCHANGED <<graph, sources, binary, dynamic, products, waived>>
      /\ written' = Receipt(described, [m \in distributed |-> Build(m)], "Release")
      /\ Cardinality({p.module : p \in all}) = Cardinality(all)
  BY <1>1 DEF Pods, PhaseFails, found, Shipped, PodsInUse
<1>3. /\ described.sources = sources /\ described.waived = waived /\ described.hosts = binary
      /\ described.dynamic = dynamic /\ described.products = all
      /\ described.managers = (IF graph.direct # {} THEN {"spm"} ELSE {}) \cup (IF inUse THEN {"pods"} ELSE {})
  OBVIOUS
<1> HIDE DEF described
<1>4. products \subseteq all
  BY DEF PodsOwn
<1>5. ASSUME NEW p \in all, p \notin products
      PROVE  /\ p = [module |-> p.module, source |-> "pods"] /\ inUse
             /\ p.module \in distributed /\ p.module # "binpod"
             /\ p.module \notin dynamic /\ ~IsOwned(p.module)
  <2>1. inUse /\ p \in {[module |-> m, source |-> "pods"] :
            m \in (listed \cap embedded \cap distributed)
                  \ ({q.module : q \in products} \cup dynamic \cup {"binpod"})}
    BY <1>5 DEF PodsOwn
  <2>2. PICK m \in (listed \cap embedded \cap distributed)
                   \ ({q.module : q \in products} \cup dynamic \cup {"binpod"}) :
                p = [module |-> m, source |-> "pods"]
    BY <2>1
  <2>3. p.module = m
    BY <2>2
  <2> QED
    BY <2>1, <2>2, <2>3 DEF IsOwned
<1> HIDE DEF all
<1>6. IsWritten(described, all, embedded)
  BY <1>2, <1>3, <1>4, <1>5 DEF IsWritten
<1> QED
  BY <1>2, <1>6

LEMMA PodsStep ==
    ASSUME graph \in Graphs, AtPods, NEW embedded, NEW missing, NEW listed, Pods(embedded, missing, listed)
    PROVE  \/ walkPc' = "failed"
           \/ walkPc' = "written" /\ (EverySourceIsHosted /\ OwnershipIsTrue /\ WrittenIsAccepted)'
<1>1. SUFFICES ASSUME walkPc' # "failed"
               PROVE  walkPc' = "written" /\ (EverySourceIsHosted /\ OwnershipIsTrue /\ WrittenIsAccepted)'
  OBVIOUS
<1>2. PICK i, all : /\ written' = Receipt(i, [m \in Shipped(embedded) |-> Build(m)], "Release")
                    /\ IsWritten(i, all, embedded)
  BY <1>1, PodsWrite
<1>3. walkPc' = "written" /\ UNCHANGED <<graph, sources, binary, dynamic, products, waived>>
  BY <1>1, PodsWrite
<1> DEFINE runtime == [m \in Shipped(embedded) |-> Build(m)]
<1>4. /\ written'.inventory = i /\ written'.configuration = "Release" /\ written'.runtime = runtime
  BY <1>2 DEF Receipt
<1>5. /\ i.sources = sources /\ i.waived = waived /\ i.hosts = binary /\ i.dynamic = dynamic
      /\ i.products = all /\ products \subseteq all
  BY <1>2 DEF IsWritten
<1>6. /\ dynamic \subseteq graph.images \cap {graph.payload}
      /\ \A p \in products : /\ p = [module |-> p.module, source |-> "spm"]
                             /\ p.module \in graph.images /\ p.module \notin dynamic
      /\ sources = [t \in IF graph.direct = {} THEN {} ELSE SourceTargets |-> CodeIn(t)]
  BY DEF AtPods, VendorIsKnown, ProductsAreImages, CodeIsKnown
<1>7. /\ graph.images \subseteq Shipped(embedded) /\ "runner" \in Shipped(embedded)
      /\ graph.images \subseteq {"plugin", "shared", "vendor", "engine"}
  BY GraphParts DEF Shipped
<1>8. EmptyTargets' = EmptyTargets
  BY <1>3 DEF EmptyTargets
<1>9. EverySourceIsHosted'
  <2>1. \A t : HostsOf(t)' = HostsOf(t)
    BY <1>3, ChainsStay
  <2>2. sources = [t \in {u \in SourceTargets : HostsOf(u) # {}} |-> HostsOf(t)]
    <3>1. CASE graph.direct = {}
      <4>1. {u \in SourceTargets : HostsOf(u) # {}} = {}
        BY <1>6, <3>1, HostsAreCode
      <4> QED
        BY <1>6, <3>1, <4>1
    <3>2. CASE graph.direct # {}
      <4>1. \A t \in SourceTargets : HostsOf(t) = CodeIn(t) /\ HostsOf(t) # {}
        BY <1>6, <3>2, HostsAreCode
      <4>2. {u \in SourceTargets : HostsOf(u) # {}} = SourceTargets
        BY <4>1
      <4> QED
        BY <1>6, <3>2, <4>1, <4>2
    <3> QED
      BY <3>1, <3>2
  <2> QED
    BY <1>4, <1>5, <2>1, <2>2 DEF EverySourceIsHosted, Inventory
<1>10. ASSUME NEW t \in DOMAIN sources \ waived
       PROVE  sources[t] \subseteq OwnedBy(i)
  <2>1. \A h \in sources[t] : h = "runner" \/ IsOwned(h)
    BY DEF AtPods
  <2> QED
    BY <1>5, <2>1 DEF IsOwned, OwnedBy, OwnProducts
<1>11. /\ waived \subseteq DOMAIN sources
       /\ \A t \in waived : t \in EmptyTargets /\ sources[t] \subseteq binary
  BY DEF AtPods
<1>12. ASSUME NEW p \in all
       PROVE  /\ p.module \in Shipped(embedded) /\ p.module # "binpod" /\ p.module \notin dynamic
              /\ p = [module |-> p.module, source |-> "spm"] \/ p = [module |-> p.module, source |-> "pods"]
  <2>1. CASE p \in products
    BY <1>6, <1>7, <2>1
  <2>2. CASE p \notin products
    BY <1>2, <2>2 DEF IsWritten
  <2> QED
    BY <2>1, <2>2
<1>13. OwnershipIsTrue'
  <2>1. OnlyHelpersAreWaived'
    BY <1>4, <1>5, <1>8, <1>10, <1>11 DEF OnlyHelpersAreWaived, Inventory
  <2>2. ASSUME NEW p \in all
        PROVE  p.module # "binpod" /\ (dynamic # {} => runtime[p.module] = "ours")
    <3>1. dynamic # {} => p.module # graph.payload
      BY <1>6, <1>12
    <3>2. dynamic # {} => Build(p.module) = "ours"
      BY <3>1 DEF Build
    <3> QED
      BY <1>12, <3>2
  <2>3. ASSUME NEW p \in all, NEW q \in all, p.module = q.module
        PROVE  p = q
    <3>1. CASE p \in products /\ q \in products
      BY <1>6, <2>3, <3>1
    <3>2. CASE p \notin products /\ q \notin products
      BY <1>2, <2>3, <3>2 DEF IsWritten
    <3>3. CASE p \in products /\ q \notin products
      BY <1>2, <2>3, <3>3 DEF IsWritten, IsOwned
    <3>4. CASE p \notin products /\ q \in products
      BY <1>2, <2>3, <3>4 DEF IsWritten, IsOwned
    <3> QED
      BY <3>1, <3>2, <3>3, <3>4
  <2> HIDE DEF runtime
  <2>4. VendorIsNotOwned'
    BY <1>4, <1>5, <2>2, <2>3 DEF VendorIsNotOwned, Inventory
  <2> QED
    BY <2>1, <2>4 DEF OwnershipIsTrue
<1>14. Loads(i, written', runtime, "Release", EmptyTargets)
  <2>1. DOMAIN runtime = Shipped(embedded)
    OBVIOUS
  <2> HIDE DEF runtime
  <2>2. i.managers = (IF graph.direct # {} THEN {"spm"} ELSE {})
                     \cup (IF PodsInUse(embedded) THEN {"pods"} ELSE {})
    BY <1>2 DEF IsWritten
  <2>3. i.managers \in (SUBSET {"spm", "pods"}) \ {{}}
    BY <2>2 DEF PodsInUse
  <2>4. \A p \in all : p.module \in Shipped(embedded) /\ p.source \in i.managers
    <3> SUFFICES ASSUME NEW p \in all PROVE p.source \in i.managers
      BY <1>12
    <3>1. CASE p \in products
      <4>1. graph.direct # {} /\ p.source = "spm"
        BY <1>6, <3>1 DEF AtPods
      <4> QED
        BY <2>2, <4>1
    <3>2. CASE p \notin products
      <4>1. PodsInUse(embedded) /\ p.source = "pods"
        BY <1>2, <3>2 DEF IsWritten
      <4> QED
        BY <2>2, <4>1
    <3> QED
      BY <3>1, <3>2
  <2>5. Cardinality({p.module : p \in all}) = Cardinality(all)
    BY <1>2 DEF IsWritten
  <2>6. \A t \in DOMAIN sources : sources[t] # {} /\ sources[t] \subseteq Shipped(embedded)
    <3> SUFFICES ASSUME NEW t \in DOMAIN sources
                 PROVE  sources[t] # {} /\ sources[t] \subseteq Shipped(embedded)
      OBVIOUS
    <3>1. graph.direct # {} /\ t \in SourceTargets /\ sources[t] = CodeIn(t)
      BY <1>6
    <3>2. CodeIn(t) # {}
      BY <1>6, <3>1, HostsAreCode
    <3>3. ProductOf(t) \in Products
      BY <3>1, TargetsAreInside DEF AllTargets
    <3>4. /\ HostsIn(ProductOf(t)) \subseteq {"runner"} \cup graph.images
          /\ FromVendor \subseteq {"runner"} \cup graph.images
      BY <3>3, HostsAreModules
    <3>5. CodeIn(t) \subseteq {"runner"} \cup graph.images
      BY <3>4 DEF CodeIn
    <3> QED
      BY <1>7, <3>1, <3>2, <3>5
  <2>7. binary \subseteq Shipped(embedded) /\ dynamic \subseteq binary
    <3>1. CASE dynamic # {}
      <4>1. binary = dynamic
        BY <3>1 DEF AtPods, VendorIsKnown
      <4> QED
        BY <1>6, <1>7, <4>1
    <3>2. CASE dynamic = {}
      <4>1. binary = {} \/ binary = InVendor
        BY <3>2 DEF AtPods, VendorIsKnown
      <4>2. InVendor \subseteq {"runner"} \cup graph.images
        <5>1. HostsIn("Vendor") = InVendor
          BY DEF HostsIn, HostsFrom, InVendor
        <5> QED
          BY <5>1, HostsAreModules DEF Products
      <4> QED
        BY <1>7, <3>2, <4>1, <4>2
    <3> QED
      BY <3>1, <3>2
  <2>8. ("spm" \in i.managers) = (DOMAIN sources # {} \/ binary # {})
    <3>1. CASE graph.direct = {}
      <4>1. dynamic = {} /\ binary = {} /\ DOMAIN sources = {}
        BY <1>6, <3>1 DEF AtPods, VendorIsKnown
      <4> QED
        BY <2>2, <3>1, <4>1
    <3>2. CASE graph.direct # {}
      <4>1. DOMAIN sources # {}
        BY <1>6, <3>2 DEF SourceTargets
      <4> QED
        BY <2>2, <3>2, <4>1
    <3> QED
      BY <3>1, <3>2
  <2> QED
    BY <1>4, <1>5, <1>10, <1>11, <2>1, <2>3, <2>4, <2>5, <2>6, <2>7, <2>8
       DEF Loads, HelperValid, Unwaived
<1>15. WrittenIsAccepted'
  <2> HIDE DEF runtime
  <2> QED
    BY <1>4, <1>8, <1>14 DEF WrittenIsAccepted, Inventory
<1> QED
  BY <1>3, <1>9, <1>13, <1>15

-----------------------------------------------------------------------------
(* Between two steps nothing changes. *)
LEMMA InventoryStutter ==
    ASSUME InventoryInv, UNCHANGED inventoryVars
    PROVE  InventoryInv'
<1>1. /\ UNCHANGED <<graph, walkPc, walk, found, written>>
      /\ UNCHANGED <<stack, visited, parents, selected>>
      /\ UNCHANGED <<sources, binary, dynamic, products, waived>>
  BY DEF inventoryVars, walk, found
<1>2. /\ \A p : ImageOf(p)' = ImageOf(p) /\ Linked(p)' = Linked(p)
      /\ \A t : Needed(t)' = Needed(t)
  BY <1>1 DEF ImageOf, Linked, Needed
<1>3. \A p, h : Into(p, h)' = Into(p, h)
  BY <1>2 DEF Into
<1>4. \A p, hosts : IntoAll(p, hosts)' = IntoAll(p, hosts)
  BY <1>3 DEF IntoAll
<1>5. InRoot' = InRoot /\ InPlugin' = InPlugin
  BY <1>2, <1>4 DEF InRoot, InPlugin
<1>6. FromVendor' = FromVendor /\ InVendor' = InVendor
  BY <1>2, <1>4, <1>5 DEF FromVendor, InVendor
<1>7. FromShared' = FromShared
  BY <1>1, <1>5, <1>6 DEF FromShared
<1>8. \A p : HostsFrom(p)' = HostsFrom(p) /\ HostsIn(p)' = HostsIn(p)
  BY <1>2, <1>4, <1>5, <1>6, <1>7 DEF HostsFrom, HostsIn
<1>9. AtStart => AtStart'
  BY <1>1 DEF AtStart
<1>10. AtWalk => AtWalk'
  <2>1. Frames' = Frames
    BY <1>2, <1>8 DEF Frames
  <2>2. WalkIsSound => WalkIsSound'
    BY <1>1, <1>8, <2>1 DEF WalkIsSound, ClaimedLater
  <2>3. \A p, h : Reached(p, h)' = Reached(p, h)
    BY <1>1, <1>2, <1>3 DEF Reached
  <2>4. WalkIsComplete => WalkIsComplete'
    BY <1>1, <1>2, <2>3 DEF WalkIsComplete, Waits
  <2>5. WalkIsRecorded => WalkIsRecorded'
    BY <1>1 DEF WalkIsRecorded, IsOwned, Claimed, ProductsAreImages
  <2> QED
    BY <1>1, <2>2, <2>4, <2>5 DEF AtWalk
<1>11. /\ ParentsAreKnown' = ParentsAreKnown /\ ProductsAreImages' = ProductsAreImages
       /\ \A h : IsOwned(h)' = IsOwned(h)
       /\ WalkedSources' = WalkedSources
  BY <1>1, <1>2, <1>6, <1>8 DEF ParentsAreKnown, ProductsAreImages, IsOwned, WalkedSources
<1>12. \A modules : OwnedOr(modules)' = OwnedOr(modules)
  BY <1>8, <1>11 DEF OwnedOr
<1>13. AtVendor => AtVendor'
  BY <1>1, <1>6, <1>11, <1>12 DEF AtVendor
<1>14. VendorIsKnown => VendorIsKnown'
  BY <1>1, <1>6, <1>11 DEF VendorIsKnown
<1>15. AtHosts => AtHosts'
  BY <1>1, <1>11, <1>12, <1>14 DEF AtHosts
<1>16. \A t : CodeIn(t)' = CodeIn(t)
  BY <1>1, <1>6, <1>8 DEF CodeIn
<1>17. CodeIsKnown => CodeIsKnown'
  BY <1>1, <1>16 DEF CodeIsKnown
<1>18. AtHelpers => AtHelpers'
  BY <1>1, <1>11, <1>14, <1>17 DEF AtHelpers
<1>19. EmptyTargets' = EmptyTargets
  BY <1>1 DEF EmptyTargets
<1>20. AtPods => AtPods'
  BY <1>1, <1>11, <1>14, <1>17, <1>19 DEF AtPods
<1>21. Written' = Written /\ Inventory' = Inventory
  BY <1>1 DEF Written, Inventory
<1>22. EverySourceIsHosted => EverySourceIsHosted'
  BY <1>1, <1>21, ChainsStay DEF EverySourceIsHosted
<1>23. OwnershipIsTrue => OwnershipIsTrue'
  BY <1>1, <1>19, <1>21 DEF OwnershipIsTrue, OnlyHelpersAreWaived, VendorIsNotOwned
<1>24. WrittenIsAccepted => WrittenIsAccepted'
  BY <1>1, <1>19, <1>21 DEF WrittenIsAccepted
<1> QED
  BY <1>1, <1>9, <1>10, <1>13, <1>15, <1>18, <1>20, <1>22, <1>23, <1>24 DEF InventoryInv

LEMMA InventoryInvInit ==
    ASSUME AnyGraph
    PROVE  InventoryInv
BY DEF AnyGraph, InventoryInv, AtStart, walk, found

LEMMA InventoryInvNext ==
    ASSUME InventoryInv, [InventoryNext]_inventoryVars
    PROVE  InventoryInv'
<1>1. graph \in Graphs
  BY DEF InventoryInv
<1>2. CASE UNCHANGED inventoryVars
  BY <1>2, InventoryStutter
<1>3. CASE InventoryNext
  <2>1. graph' = graph
    BY <1>3 DEF InventoryNext, StartWalk, Product, Target, Own, DumpFails, WalkEnds, Vendor,
                SourceHosts, LinkHelpers, Pods, PhaseFails
  <2>2. \/ walkPc' = "failed"
        \/ walkPc' = "walk" /\ AtWalk'
        \/ walkPc' = "vendor" /\ AtVendor'
        \/ walkPc' = "hosts" /\ AtHosts'
        \/ walkPc' = "helpers" /\ AtHelpers'
        \/ walkPc' = "pods" /\ AtPods'
        \/ walkPc' = "written" /\ (EverySourceIsHosted /\ OwnershipIsTrue /\ WrittenIsAccepted)'
    <3>1. CASE StartWalk
      <4>1. AtStart
        BY <3>1 DEF InventoryInv, StartWalk
      <4> QED
        BY <1>1, <3>1, <4>1, StartWalkStep
    <3>2. CASE Product
      <4>1. AtWalk
        BY <3>2 DEF InventoryInv, Product
      <4> QED
        BY <1>1, <3>2, <4>1, ProductStep
    <3>3. CASE Target
      <4>1. AtWalk
        BY <3>3 DEF InventoryInv, Target
      <4> QED
        BY <1>1, <3>3, <4>1, TargetStep
    <3>4. CASE Own
      <4>1. AtWalk
        BY <3>4 DEF InventoryInv, Own
      <4> QED
        BY <1>1, <3>4, <4>1, OwnStep
    <3>5. CASE DumpFails
      BY <3>5 DEF DumpFails, PhaseFails
    <3>6. CASE WalkEnds
      <4>1. AtWalk
        BY <3>6 DEF InventoryInv, WalkEnds
      <4> QED
        BY <1>1, <3>6, <4>1, WalkEndsStep
    <3>7. CASE Vendor
      <4>1. AtVendor
        BY <3>7 DEF InventoryInv, Vendor
      <4> QED
        BY <1>1, <3>7, <4>1, VendorStep
    <3>8. CASE SourceHosts
      <4>1. AtHosts
        BY <3>8 DEF InventoryInv, SourceHosts
      <4> QED
        BY <1>1, <3>8, <4>1, SourceHostsStep
    <3>9. CASE LinkHelpers
      <4>1. AtHelpers
        BY <3>9 DEF InventoryInv, LinkHelpers
      <4> QED
        BY <1>1, <3>9, <4>1, LinkHelpersStep
    <3>10. ASSUME NEW embedded, NEW missing, NEW listed, Pods(embedded, missing, listed)
           PROVE  \/ walkPc' = "failed"
                  \/ walkPc' = "written" /\ (EverySourceIsHosted /\ OwnershipIsTrue /\ WrittenIsAccepted)'
      <4>1. AtPods
        BY <3>10 DEF InventoryInv, Pods
      <4> QED
        BY <1>1, <3>10, <4>1, PodsStep
    <3> QED
      BY <1>3, <3>1, <3>2, <3>3, <3>4, <3>5, <3>6, <3>7, <3>8, <3>9, <3>10 DEF InventoryNext
  <2> QED
    BY <1>1, <2>1, <2>2 DEF InventoryInv
<1> QED
  BY <1>2, <1>3

(* The phase on whatever graph, without the bound of the runs. *)
AnyInventorySpec == AnyGraph /\ [][InventoryNext]_inventoryVars

LEMMA InventorySafe == AnyInventorySpec => []InventoryInv
<1>1. AnyGraph => InventoryInv
  BY InventoryInvInit
<1>2. InventoryInv /\ [InventoryNext]_inventoryVars => InventoryInv'
  BY InventoryInvNext
<1> QED
  BY <1>1, <1>2, PTL DEF AnyInventorySpec

(* A phase of the bounded runs is one of them. *)
LEMMA RunsAreInstances == InventorySpec => AnyInventorySpec
<1>1. InventoryInit => AnyGraph
  BY DEF InventoryInit
<1> QED
  BY <1>1, PTL DEF InventorySpec, AnyInventorySpec

LEMMA WrittenIsChecked ==
    ASSUME InventoryInv
    PROVE  EverySourceIsHosted /\ OwnershipIsTrue /\ WrittenIsAccepted
<1>1. CASE walkPc = "written"
  BY <1>1 DEF InventoryInv
<1>2. CASE walkPc # "written"
  BY <1>2 DEF EverySourceIsHosted, OwnershipIsTrue, OnlyHelpersAreWaived, VendorIsNotOwned,
              WrittenIsAccepted, Written
<1> QED
  BY <1>1, <1>2

(* Whatever graph the packages form in their fixed shape, whatever became an  *)
(* image and in whatever order the manifests list things, an inventory that *)
(* is written records every source target with exactly the images that its *)
(* chains of products put it in (product, target, source_hosts).            *)
THEOREM SourcesAreHosted ==
    /\ AnyInventorySpec => []EverySourceIsHosted
    /\ InventorySpec => []EverySourceIsHosted
<1>1. InventoryInv => EverySourceIsHosted
  BY WrittenIsChecked
<1> QED
  BY <1>1, InventorySafe, RunsAreInstances, PTL

(* In an inventory that is written nothing with code is waived as a linker's  *)
(* helper, no image of a vendor counts as built from source, and no module *)
(* is claimed by both managers (_record_link_helpers, pods_ownership).      *)
THEOREM OwnersAreTrue ==
    /\ AnyInventorySpec => []OwnershipIsTrue
    /\ InventorySpec => []OwnershipIsTrue
<1>1. InventoryInv => OwnershipIsTrue
  BY WrittenIsChecked
<1> QED
  BY <1>1, InventorySafe, RunsAreInstances, PTL

(* What the phase writes is accepted where it is read again (_load_inventory) *)
(* as long as nothing changes in between.                                   *)
THEOREM WrittenLoads ==
    /\ AnyInventorySpec => []WrittenIsAccepted
    /\ InventorySpec => []WrittenIsAccepted
<1>1. InventoryInv => WrittenIsAccepted
  BY WrittenIsChecked
<1> QED
  BY <1>1, InventorySafe, RunsAreInstances, PTL

==============================================================================
