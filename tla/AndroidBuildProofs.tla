-------------------------- MODULE AndroidBuildProofs --------------------------
(***************************************************************************)
(* What a developer may rely on when builds race, fail, are interrupted and  *)
(* are tried again: a number is completed once, their files come back, and   *)
(* what is promoted is what was verified.  Theorems about AndroidBuild for   *)
(* any number of builds, batches, edits, interrupts and crashes.             *)
(***************************************************************************)
EXTENDS AndroidBuild, TLAPS

Fields == {"pc", "goal", "batch", "asked", "number", "head", "locks", "sources", "config", "block",
           "apk", "ok"}
Records == {"inputs", "sources", "retained", "evidence"}

(* Before it has a number, and after it is done with it. *)
Numberless == {"idle", "locked", "inputs", "unlock"}

ProcsShaped ==
    /\ proc = [b \in Builds |-> proc[b]]
    /\ \A b \in Builds : proc[b] = [f \in Fields |-> proc[b][f]]

BatchesShaped ==
    /\ batch = [d \in Batches |-> batch[d]]
    /\ \A d \in Batches : batch[d] = [f \in Records |-> batch[d][f]]
    /\ \A d \in Batches : batch[d].inputs \notin {None, Torn} => batch[d].inputs.number \in Nat

(* Whoever builds has the lock to itself. *)
OneBuilds ==
    /\ \A b \in Builds : proc[b].pc # "idle" => lock /\ proc[b].batch \in Batches
    /\ \A b, c \in Builds : proc[b].pc # "idle" /\ proc[c].pc # "idle" => b = c

(* A build that is to be released works on a number beyond the counter. *)
NumberAhead ==
    /\ counter \in Nat
    /\ \A b \in Builds : proc[b].asked \in Nat /\ proc[b].number \in Nat
    /\ \A b \in Builds : proc[b].pc \notin Numberless /\ Released(b) => proc[b].number > counter
    /\ \A b \in Builds : proc[b].pc = "count" => Released(b)

CountedBelow == \A c \in completed : c.number \in Nat /\ c.number <= counter

Inv == ProcsShaped /\ BatchesShaped /\ OneBuilds /\ NumberAhead /\ CountedBelow /\ NumberOnce

-----------------------------------------------------------------------------
LEMMA IdleShape ==
    /\ Idle = [f \in Fields |-> Idle[f]]
    /\ Idle.pc = "idle" /\ Idle.asked \in Nat /\ Idle.number \in Nat
BY DEF Idle, Fields

LEMMA InvInit == Init => Inv
<1> SUFFICES ASSUME Init PROVE Inv
  OBVIOUS
<1>1. ProcsShaped /\ OneBuilds /\ NumberAhead
  BY IdleShape DEF Init, ProcsShaped, OneBuilds, NumberAhead, Numberless
<1>2. NoBatch = [f \in Records |-> NoBatch[f]] /\ NoBatch.inputs = None
  BY DEF NoBatch, Records
<1>3. BatchesShaped
  BY <1>2 DEF Init, BatchesShaped
<1>4. CountedBelow /\ NumberOnce
  BY DEF Init, CountedBelow, NumberOnce
<1>5. QED
  BY <1>1, <1>3, <1>4 DEF Inv

-----------------------------------------------------------------------------
(* The steps of a build that has the lock, but for taking a number and        *)
(* counting it.                                                              *)

Moves(b) ==
    /\ proc' = [c \in Builds |-> proc'[c]]
    /\ \A c \in Builds \ {b} : proc'[c] = proc[c]
    /\ proc'[b] = [f \in Fields |-> proc'[b][f]]
    /\ \A f \in {"goal", "batch", "asked", "number"} : proc'[b][f] = proc[b][f]
    /\ proc[b].pc # "idle" /\ proc'[b].pc # "idle"
    /\ proc[b].pc \in Numberless => proc'[b].pc \in Numberless
    /\ proc'[b].pc = "count" => Released(b)

LEMMA MovesKeep ==
    ASSUME Inv, NEW b \in Builds, Moves(b), BatchesShaped', UNCHANGED <<lock, counter, completed>>
    PROVE  Inv'
<1> USE DEF Inv
<1>1. ProcsShaped'
  BY DEF ProcsShaped, Moves
<1>2. OneBuilds'
  BY DEF OneBuilds, Moves
<1>3. NumberAhead'
  BY DEF NumberAhead, Released, Moves
<1>4. CountedBelow' /\ NumberOnce'
  BY DEF CountedBelow, NumberOnce
<1>5. QED
  BY <1>1, <1>2, <1>3, <1>4

(* Going to a label, with or without other fields set. *)
LEMMA GoMoves ==
    ASSUME Inv, NEW b \in Builds, NEW pc, Go(b, pc), proc[b].pc # "idle", pc # "idle",
           proc[b].pc \in Numberless => pc \in Numberless, pc = "count" => Released(b)
    PROVE  Moves(b)
BY DEF Inv, ProcsShaped, Go, Moves, Fields

(* Setting fields but for those that must stay. *)
LEMMA SetMoves ==
    ASSUME Inv, NEW b \in Builds, NEW new, proc' = [proc EXCEPT ![b] = new],
           new = [f \in Fields |-> new[f]],
           \A f \in {"goal", "batch", "asked", "number"} : new[f] = proc[b][f],
           proc[b].pc \notin Numberless, new.pc \notin Numberless, new.pc # "count"
    PROVE  Moves(b)
BY DEF Inv, ProcsShaped, Moves, Numberless

LEMMA ErrorMoves ==
    ASSUME Inv, NEW b \in Builds, Error(b), proc[b].pc # "idle" PROVE Moves(b)
<1>1. CASE proc[b].pc \in Inside
  <2>1. Go(b, "restore") /\ proc[b].pc \notin Numberless
    BY <1>1 DEF Error, Inside, Numberless
  <2>2. QED
    BY <2>1, GoMoves
<1>2. CASE proc[b].pc \notin Inside
  <2>1. Go(b, "unlock") /\ "unlock" \in Numberless
    BY <1>2 DEF Error, Numberless
  <2>2. QED
    BY <2>1, GoMoves
<1>3. QED
  BY <1>1, <1>2

LEMMA BatchKept == ASSUME Inv, UNCHANGED batch PROVE BatchesShaped'
BY DEF Inv, BatchesShaped

(* The files of one batch may change, as long as its inputs keep their shape. *)
LEMMA FilesSet ==
    ASSUME Inv, NEW d, NEW new, batch' = [batch EXCEPT ![d] = new],
           new = [f \in Records |-> new[f]],
           new.inputs \notin {None, Torn} => new.inputs.number \in Nat
    PROVE  BatchesShaped'
<1>1. /\ batch = [e \in Batches |-> batch[e]]
      /\ \A e \in Batches : /\ batch[e] = [f \in Records |-> batch[e][f]]
                            /\ batch[e].inputs \notin {None, Torn} => batch[e].inputs.number \in Nat
  BY DEF Inv, BatchesShaped
<1>2. batch' = [e \in Batches |-> IF e = d THEN new ELSE batch[e]]
  BY <1>1
<1>3. /\ batch' = [e \in Batches |-> batch'[e]]
      /\ \A e \in Batches : batch'[e] = IF e = d THEN new ELSE batch[e]
  BY <1>2
<1>4. \A e \in Batches : batch'[e] = [f \in Records |-> batch'[e][f]]
  BY <1>1, <1>3
<1>5. \A e \in Batches : batch'[e].inputs \notin {None, Torn} => batch'[e].inputs.number \in Nat
  BY <1>1, <1>3
<1>6. QED
  BY <1>3, <1>4, <1>5 DEF BatchesShaped

(* A directory that is not one of Batches has no files. *)
LEMMA NoSuchBatch ==
    ASSUME Inv, NEW d, d \notin Batches, NEW file, NEW value,
           batch' = [batch EXCEPT ![d][file] = value]
    PROVE  BatchesShaped'
<1>1. batch = [e \in Batches |-> batch[e]]
  BY DEF Inv, BatchesShaped
<1>2. batch' = batch
  BY <1>1
<1>3. QED
  BY <1>2, BatchKept

LEMMA FileSet ==
    ASSUME Inv, NEW d, NEW file \in Records, NEW value, batch' = [batch EXCEPT ![d][file] = value],
           file = "inputs" => value \in {None, Torn} \/ value.number \in Nat
    PROVE  BatchesShaped'
<1>1. CASE d \in Batches
  <2> DEFINE new == [batch[d] EXCEPT ![file] = value]
  <2>1. /\ batch[d] = [f \in Records |-> batch[d][f]]
        /\ batch[d].inputs \notin {None, Torn} => batch[d].inputs.number \in Nat
    BY <1>1 DEF Inv, BatchesShaped
  <2>2. batch' = [batch EXCEPT ![d] = new]
    OBVIOUS
  <2>3. new = [f \in Records |-> IF f = file THEN value ELSE batch[d][f]]
    BY <2>1
  <2>4. /\ new = [f \in Records |-> new[f]]
        /\ new.inputs = IF file = "inputs" THEN value ELSE batch[d].inputs
    BY <2>3 DEF Records
  <2> HIDE DEF new
  <2>5. new.inputs \notin {None, Torn} => new.inputs.number \in Nat
    BY <2>1, <2>4
  <2>6. QED
    BY <2>2, <2>4, <2>5, FilesSet
<1>2. CASE d \notin Batches
  BY <1>2, NoSuchBatch
<1>3. QED
  BY <1>1, <1>2

LEMMA OtherFileKept ==
    ASSUME Inv, NEW b, NEW file \in Records \ {"inputs"}, NEW value, Write(b, file, value)
    PROVE  BatchesShaped'
BY FileSet DEF Write

LEMMA CutKept == ASSUME Inv, NEW b, batch' \in CutShort(b) PROVE BatchesShaped'
<1>1. CASE batch' = batch
  BY <1>1, BatchKept
<1>2. CASE batch' = [batch EXCEPT ![proc[b].batch].inputs = Torn]
  BY <1>2, FileSet DEF Records
<1>3. CASE batch' = [batch EXCEPT ![proc[b].batch].sources = Torn]
  BY <1>3, OtherFileKept DEF Write, Records
<1>4. QED
  BY <1>1, <1>2, <1>3 DEF CutShort

(* Steps that only go to another label, or end in an error. *)
LEMMA PlainSteps ==
    ASSUME Inv, NEW b \in Builds,
           \/ Own(b) \/ NativeInputs(b) \/ Enter(b) \/ Made(b) \/ Resolve(b) \/ Prepare(b)
           \/ Preflight(b) \/ SetAbi(b) \/ Build(b) \/ Verify(b) \/ CheckEvidence(b) \/ Restore(b)
           \/ RestorePubspec(b) \/ Promote(b) \/ Report(b) \/ StepFails(b)
    PROVE  Inv'
<1> USE DEF Numberless, At
<1>1. CASE Own(b)
  <2>1. Moves(b)
    BY <1>1, GoMoves DEF Own
  <2>2. QED
    BY <1>1, <2>1, BatchKept, MovesKeep DEF Own, shared, counted
<1>2. CASE NativeInputs(b)
  <2>1. Moves(b)
    <3> DEFINE new == [proc[b] EXCEPT !.pc = "capture", !.locks = tree.locks]
    <3>1. proc[b] = [f \in Fields |-> proc[b][f]] /\ proc = [c \in Builds |-> proc[c]]
      BY DEF Inv, ProcsShaped
    <3>2. proc' = [proc EXCEPT ![b] = new]
      BY <1>2, <3>1 DEF NativeInputs
    <3>3. /\ new = [f \in Fields |-> new[f]] /\ new.pc = "capture"
          /\ \A f \in {"goal", "batch", "asked", "number"} : new[f] = proc[b][f]
      BY <3>1 DEF Fields
    <3> HIDE DEF new
    <3>4. QED
      BY <1>2, <3>2, <3>3, SetMoves DEF NativeInputs
  <2>2. QED
    BY <1>2, <2>1, BatchKept, MovesKeep DEF NativeInputs, shared, counted
<1>3. CASE Enter(b)
  <2>1. Moves(b)
    <3> DEFINE new == [proc[b] EXCEPT !.pc = "made", !.config = config, !.block = block]
    <3>1. proc[b] = [f \in Fields |-> proc[b][f]] /\ proc = [c \in Builds |-> proc[c]]
      BY DEF Inv, ProcsShaped
    <3>2. proc' = [proc EXCEPT ![b] = new]
      BY <1>3, <3>1 DEF Enter
    <3>3. /\ new = [f \in Fields |-> new[f]] /\ new.pc = "made"
          /\ \A f \in {"goal", "batch", "asked", "number"} : new[f] = proc[b][f]
      BY <3>1 DEF Fields
    <3> HIDE DEF new
    <3>4. QED
      BY <1>3, <3>2, <3>3, SetMoves DEF Enter
  <2>2. QED
    BY <1>3, <2>1, BatchKept, MovesKeep DEF Enter, shared, counted
<1>4. CASE Made(b)
  <2>1. Moves(b)
    BY <1>4, GoMoves DEF Made
  <2>2. QED
    BY <1>4, <2>1, BatchKept, MovesKeep DEF Made, shared, counted
<1>5. CASE Resolve(b)
  <2>1. Moves(b)
    BY <1>5, GoMoves, ErrorMoves DEF Resolve
  <2>2. QED
    BY <1>5, <2>1, BatchKept, MovesKeep DEF Resolve, shared, counted
<1>6. CASE Prepare(b)
  <2>1. Moves(b)
    BY <1>6, GoMoves, ErrorMoves DEF Prepare
  <2>2. QED
    BY <1>6, <2>1, BatchKept, MovesKeep DEF Prepare, shared, counted
<1>7. CASE Preflight(b)
  <2>1. Moves(b)
    BY <1>7, GoMoves DEF Preflight
  <2>2. QED
    BY <1>7, <2>1, BatchKept, MovesKeep DEF Preflight, shared, counted
<1>8. CASE SetAbi(b)
  <2>1. Moves(b)
    BY <1>8, GoMoves, ErrorMoves DEF SetAbi
  <2>2. QED
    BY <1>8, <2>1, BatchKept, MovesKeep DEF SetAbi, shared, counted
<1>9. CASE Build(b)
  <2>1. Moves(b)
    BY <1>9, GoMoves DEF Build
  <2>2. QED
    BY <1>9, <2>1, BatchKept, MovesKeep DEF Build, shared, counted
<1>10. CASE Verify(b)
  <2>1. Moves(b)
    BY <1>10, GoMoves, ErrorMoves DEF Verify
  <2>2. QED
    BY <1>10, <2>1, BatchKept, MovesKeep DEF Verify, shared, counted
<1>11. CASE Restore(b)
  <2>1. Moves(b)
    BY <1>11, GoMoves DEF Restore
  <2>2. QED
    BY <1>11, <2>1, BatchKept, MovesKeep DEF Restore, shared, counted
<1>12. CASE RestorePubspec(b)
  <2>1. Moves(b)
    BY <1>12, GoMoves DEF RestorePubspec
  <2>2. QED
    BY <1>12, <2>1, BatchKept, MovesKeep DEF RestorePubspec, shared, counted
<1>13. CASE Promote(b)
  <2>1. Moves(b)
    BY <1>13, GoMoves, ErrorMoves DEF Promote
  <2>2. QED
    BY <1>13, <2>1, BatchKept, MovesKeep DEF Promote, shared, counted
<1>14. CASE CheckEvidence(b)
  <2>1. Moves(b)
    <3>1. CASE Error(b)
      BY <1>14, <3>1, ErrorMoves DEF CheckEvidence
    <3>2. CASE proc' = [proc EXCEPT ![b].pc = "restore", ![b].ok = TRUE]
      <4> DEFINE new == [proc[b] EXCEPT !.pc = "restore", !.ok = TRUE]
      <4>1. proc[b] = [f \in Fields |-> proc[b][f]] /\ proc = [c \in Builds |-> proc[c]]
        BY DEF Inv, ProcsShaped
      <4>2. proc' = [proc EXCEPT ![b] = new]
        BY <3>2, <4>1
      <4>3. /\ new = [f \in Fields |-> new[f]] /\ new.pc = "restore"
            /\ \A f \in {"goal", "batch", "asked", "number"} : new[f] = proc[b][f]
        BY <4>1 DEF Fields
      <4> HIDE DEF new
      <4>4. QED
        BY <1>14, <4>2, <4>3, SetMoves DEF CheckEvidence
    <3>3. QED
      BY <1>14, <3>1, <3>2 DEF CheckEvidence
  <2>2. QED
    BY <1>14, <2>1, BatchKept, MovesKeep DEF CheckEvidence, shared, counted
<1>15. CASE Report(b)
  <2>1. Kind(b) = "release" => Released(b)
    BY DEF Kind
  <2>2. Moves(b)
    BY <1>15, <2>1, GoMoves DEF Report
  <2>3. QED
    BY <1>15, <2>2, BatchKept, MovesKeep DEF Report, shared, counted
<1>16. CASE StepFails(b)
  <2>1. proc[b].pc # "idle"
    BY <1>16 DEF StepFails, Inside
  <2>2. Moves(b)
    BY <1>16, <2>1, ErrorMoves DEF StepFails
  <2>3. QED
    BY <1>16, <2>2, BatchKept, MovesKeep DEF StepFails, shared, counted
<1>17. QED
  BY <1>1, <1>2, <1>3, <1>4, <1>5, <1>6, <1>7, <1>8, <1>9, <1>10, <1>11, <1>12, <1>13, <1>14, <1>15, <1>16

(* Steps that write into the batch. *)
LEMMA RecordKeeps == ASSUME Inv, NEW b \in Builds, RecordInputs(b) PROVE Inv'
<1>1. Moves(b)
  BY GoMoves DEF RecordInputs, At, Numberless
<1>2. proc[b].number \in Nat
  BY DEF Inv, NumberAhead
<1>3. PICK i : i = [goal |-> proc[b].goal, number |-> proc[b].number, head |-> proc[b].head]
  OBVIOUS
<1>4. i.number \in Nat /\ batch' = [batch EXCEPT ![proc[b].batch]["inputs"] = i]
  BY <1>2, <1>3 DEF RecordInputs, Write
<1>5. BatchesShaped'
  BY <1>4, FileSet DEF Records
<1>6. QED
  BY <1>1, <1>5, MovesKeep DEF RecordInputs, counted

LEMMA CaptureKeeps == ASSUME Inv, NEW b \in Builds, Capture(b) PROVE Inv'
<1>1. Moves(b)
  <2>1. CASE Error(b)
    BY <2>1, ErrorMoves DEF Capture, At
  <2>2. CASE proc' = [proc EXCEPT ![b].pc = "enter", ![b].sources = tree]
    <3> DEFINE new == [proc[b] EXCEPT !.pc = "enter", !.sources = tree]
    <3>1. proc[b] = [f \in Fields |-> proc[b][f]] /\ proc = [c \in Builds |-> proc[c]]
      BY DEF Inv, ProcsShaped
    <3>2. proc' = [proc EXCEPT ![b] = new]
      BY <2>2, <3>1
    <3>3. /\ new = [f \in Fields |-> new[f]] /\ new.pc = "enter"
          /\ \A f \in {"goal", "batch", "asked", "number"} : new[f] = proc[b][f]
      BY <3>1 DEF Fields
    <3> HIDE DEF new
    <3>4. QED
      BY <3>2, <3>3, SetMoves DEF Capture, At, Numberless
  <2>3. QED
    BY <2>1, <2>2 DEF Capture
<1>2. BatchesShaped'
  BY BatchKept, OtherFileKept DEF Capture, Records
<1>3. QED
  BY <1>1, <1>2, MovesKeep DEF Capture, counted

LEMMA AfterKeeps == ASSUME Inv, NEW b \in Builds, After(b) PROVE Inv'
<1>1. Moves(b) /\ BatchesShaped'
  <2>1. CASE Error(b) /\ UNCHANGED batch
    BY <2>1, ErrorMoves, BatchKept DEF After, At
  <2>2. CASE Retain(b)
    <3>1. Moves(b)
      <4> DEFINE new == [proc[b] EXCEPT !.pc = "symbols", !.apk = built]
      <4>1. proc[b] = [f \in Fields |-> proc[b][f]] /\ proc = [c \in Builds |-> proc[c]]
        BY DEF Inv, ProcsShaped
      <4>2. proc' = [proc EXCEPT ![b] = new]
        BY <2>2, <4>1 DEF Retain
      <4>3. /\ new = [f \in Fields |-> new[f]] /\ new.pc = "symbols"
            /\ \A f \in {"goal", "batch", "asked", "number"} : new[f] = proc[b][f]
        BY <4>1 DEF Fields
      <4> HIDE DEF new
      <4>4. QED
        BY <4>2, <4>3, SetMoves DEF After, At, Numberless
    <3>2. BatchesShaped'
      <4> DEFINE d == proc[b].batch
                 new == [batch[d] EXCEPT !.retained = built, !.evidence = None]
      <4>1. d \in Batches /\ batch = [e \in Batches |-> batch[e]]
        BY DEF After, At, Inv, OneBuilds, BatchesShaped
      <4>2. /\ batch[d] = [f \in Records |-> batch[d][f]]
            /\ batch[d].inputs \notin {None, Torn} => batch[d].inputs.number \in Nat
        BY <4>1 DEF Inv, BatchesShaped
      <4> HIDE DEF d
      <4>3. batch' = [batch EXCEPT ![d] = new]
        BY <2>2, <4>1 DEF Retain, d
      <4>4. new = [f \in Records |-> new[f]] /\ new.inputs = batch[d].inputs
        BY <4>2 DEF Records
      <4> HIDE DEF new
      <4>5. QED
        BY <4>2, <4>3, <4>4, FilesSet
    <3>3. QED
      BY <3>1, <3>2
  <2>3. CASE proc' = [proc EXCEPT ![b].pc = "restore", ![b].apk = built, ![b].ok = TRUE]
             /\ UNCHANGED batch
    <3> DEFINE new == [proc[b] EXCEPT !.pc = "restore", !.apk = built, !.ok = TRUE]
    <3>1. proc[b] = [f \in Fields |-> proc[b][f]] /\ proc = [c \in Builds |-> proc[c]]
      BY DEF Inv, ProcsShaped
    <3>2. proc' = [proc EXCEPT ![b] = new]
      BY <2>3, <3>1
    <3>3. /\ new = [f \in Fields |-> new[f]] /\ new.pc = "restore"
          /\ \A f \in {"goal", "batch", "asked", "number"} : new[f] = proc[b][f]
      BY <3>1 DEF Fields
    <3> HIDE DEF new
    <3>4. QED
      BY <2>3, <3>2, <3>3, SetMoves, BatchKept DEF After, At, Numberless
  <2>4. QED
    BY <2>1, <2>2, <2>3 DEF After
<1>2. QED
  BY <1>1, MovesKeep DEF After, counted

LEMMA SymbolsKeep == ASSUME Inv, NEW b \in Builds, Symbols(b) PROVE Inv'
<1>1. Moves(b)
  BY GoMoves DEF Symbols, At, Numberless
<1>2. BatchesShaped'
  BY BatchKept, OtherFileKept DEF Symbols, Records
<1>3. QED
  BY <1>1, <1>2, MovesKeep DEF Symbols, counted

-----------------------------------------------------------------------------
(* Taking a number and counting it. *)

(* The number is beyond what the counter is now; nobody else builds. *)
LEMMA ReadInputsKeeps == ASSUME Inv, NEW b \in Builds, ReadInputs(b) PROVE Inv'
<1> USE DEF Inv
<1>1. /\ Current \in Nat /\ counter' = Current /\ counter <= Current
      /\ proc[b].pc = "inputs" /\ UNCHANGED <<lock, batch, completed>>
  BY DEF NumberAhead, Current, Seed, ReadInputs, At, counted
<1>2. BatchesShaped' /\ CountedBelow' /\ NumberOnce'
  <2>1. CountedBelow'
    BY <1>1 DEF NumberAhead, CountedBelow
  <2>2. NumberOnce'
    BY <1>1, <2>1 DEF CountedBelow, NumberOnce
  <2>3. QED
    BY <1>1, <2>1, <2>2, BatchKept
<1>3. \A c \in Builds \ {b} : proc[c].pc = "idle"
  BY <1>1 DEF OneBuilds
<1>4. CASE Error(b)
  <2>1. Moves(b)
    BY <1>1, <1>4, ErrorMoves
  <2>2. proc'[b].pc \in Numberless
    BY <1>1, <2>1 DEF Moves, Numberless
  <2>3. ProcsShaped' /\ OneBuilds'
    BY <1>1, <2>1 DEF ProcsShaped, OneBuilds, Moves
  <2>4. NumberAhead'
    BY <1>1, <1>3, <2>1, <2>2 DEF NumberAhead, Released, Moves, Numberless
  <2>5. QED
    BY <1>2, <2>3, <2>4
<1>5. ASSUME ~Error(b) PROVE Inv'
  <2> DEFINE n == Number(b)
  <2>1. /\ NumberRule(proc[b].goal, n) /\ Files(b).inputs # Torn
        /\ \E pc \in {"record", "native"} :
             proc' = [proc EXCEPT ![b].pc = pc, ![b].number = n, ![b].head = tree.head, ![b].asked = 0]
    BY <1>5 DEF ReadInputs
  <2>2. n \in Nat
    <3>1. proc[b].batch \in Batches
      BY <1>1 DEF OneBuilds
    <3>2. Files(b).inputs # None => Files(b).inputs.number \in Nat
      BY <2>1, <3>1 DEF BatchesShaped, Files
    <3>3. QED
      BY <1>1, <3>2 DEF NumberAhead, Number
  <2>3. PICK pc \in {"record", "native"} :
          proc' = [proc EXCEPT ![b].pc = pc, ![b].number = n, ![b].head = tree.head, ![b].asked = 0]
    BY <2>1
  <2>4. n > counter' \/ ~Released(b)
    BY <1>1, <2>1, <2>2 DEF NumberRule, Released
  <2> HIDE DEF n
  <2>5. /\ proc' = [c \in Builds |-> proc'[c]]
        /\ \A c \in Builds \ {b} : proc'[c] = proc[c]
        /\ proc'[b] = [f \in Fields |-> proc'[b][f]]
        /\ proc'[b].pc = pc /\ proc'[b].goal = proc[b].goal /\ proc'[b].batch = proc[b].batch
        /\ proc'[b].asked = 0 /\ proc'[b].number = n
    <3> DEFINE new == [proc[b] EXCEPT !.pc = pc, !.number = n, !.head = tree.head, !.asked = 0]
    <3>1. proc[b] = [f \in Fields |-> proc[b][f]] /\ proc = [c \in Builds |-> proc[c]]
      BY DEF ProcsShaped
    <3>2. proc' = [proc EXCEPT ![b] = new]
      BY <2>3, <3>1
    <3>3. /\ new = [f \in Fields |-> new[f]]
          /\ new.pc = pc /\ new.goal = proc[b].goal /\ new.batch = proc[b].batch
          /\ new.asked = 0 /\ new.number = n
      BY <3>1 DEF Fields
    <3> HIDE DEF new
    <3>4. QED
      BY <3>1, <3>2, <3>3
  <2>6. ProcsShaped' /\ OneBuilds'
    BY <1>1, <2>5 DEF ProcsShaped, OneBuilds
  <2>7. NumberAhead'
    <3>1. \A c \in Builds \ {b} : proc'[c] = proc[c] /\ proc'[c].pc = "idle"
      BY <1>3, <2>5
    <3>2. proc'[b].pc # "count" /\ (Released(b)' => proc'[b].number > counter')
      BY <2>4, <2>5 DEF Released
    <3>3. \A c \in Builds : proc'[c].asked \in Nat /\ proc'[c].number \in Nat
      BY <2>2, <2>5, <3>1 DEF NumberAhead
    <3>4. QED
      BY <1>1, <3>1, <3>2, <3>3 DEF NumberAhead, Numberless
  <2>8. QED
    BY <1>2, <2>6, <2>7
<1>6. QED
  BY <1>4, <1>5

(* A number beyond the counter is beyond every number counted before. *)
LEMMA CountKeeps == ASSUME Inv, NEW b \in Builds, Count(b) PROVE Inv'
<1> USE DEF Inv
<1>1. /\ proc[b].number \in Nat /\ proc[b].number > counter /\ counter \in Nat
      /\ counter' = proc[b].number /\ proc[b].pc = "count"
      /\ completed' = completed \cup {[number |-> proc[b].number, apk |-> proc[b].apk]}
      /\ UNCHANGED <<lock, batch>>
  BY DEF NumberAhead, Count, At, Numberless
<1>2. Moves(b)
  BY <1>1, GoMoves DEF Count, NumberAhead, Numberless
<1>3. proc'[b].pc = "unlock"
  <2>1. proc = [c \in Builds |-> proc[c]] /\ proc[b] = [f \in Fields |-> proc[b][f]]
    BY DEF ProcsShaped
  <2>2. proc'[b] = [proc[b] EXCEPT !.pc = "unlock"]
    BY <2>1 DEF Count, Go
  <2>3. QED
    BY <2>1, <2>2 DEF Fields
<1>4. ProcsShaped' /\ OneBuilds' /\ BatchesShaped'
  <2>1. ProcsShaped'
    BY <1>2 DEF ProcsShaped, Moves
  <2>2. OneBuilds'
    BY <1>1, <1>2 DEF OneBuilds, Moves
  <2>3. QED
    BY <1>1, <2>1, <2>2, BatchKept
<1>5. \A c \in Builds \ {b} : proc'[c].pc = "idle" /\ proc'[c] = proc[c]
  BY <1>1, <1>2 DEF OneBuilds, Moves
<1>6. NumberAhead'
  <2>1. \A c \in Builds : proc'[c].asked \in Nat /\ proc'[c].number \in Nat
    <3>1. proc'[b].asked = proc[b].asked /\ proc'[b].number = proc[b].number
      BY <1>2 DEF Moves
    <3>2. QED
      BY <1>5, <3>1 DEF NumberAhead
  <2>2. \A c \in Builds : proc'[c].pc \in Numberless /\ proc'[c].pc # "count"
    BY <1>3, <1>5 DEF Numberless
  <2>3. QED
    BY <1>1, <2>1, <2>2 DEF NumberAhead
<1>7. PICK new : new = [number |-> proc[b].number, apk |-> proc[b].apk]
  OBVIOUS
<1>8. completed' = completed \cup {new} /\ new.number = proc[b].number
  BY <1>1, <1>7
<1>9. CountedBelow'
  BY <1>1, <1>8 DEF CountedBelow
<1>10. NumberOnce'
  BY <1>1, <1>8, <1>9 DEF CountedBelow, NumberOnce
<1>11. QED
  BY <1>4, <1>6, <1>9, <1>10

-----------------------------------------------------------------------------
(* The start and the end of a build. *)

LEMMA StartKeeps == ASSUME Inv, NEW b \in Builds, Start(b) PROVE Inv'
<1> USE DEF Inv
<1>1. \A c \in Builds : proc[c].pc = "idle"
  BY DEF OneBuilds, Start
<1>2. PICK new : /\ new = [f \in Fields |-> new[f]] /\ proc' = [proc EXCEPT ![b] = new]
                 /\ new.pc = "locked" /\ new.batch \in Batches /\ new.asked \in Nat /\ new.number \in Nat
  <2>1. PICK g \in Goals, d \in Batches, n \in {0, 2} :
           proc' = [proc EXCEPT ![b] = [Idle EXCEPT !.pc = "locked", !.goal = g, !.batch = d, !.asked = n]]
    BY DEF Start
  <2> DEFINE new == [Idle EXCEPT !.pc = "locked", !.goal = g, !.batch = d, !.asked = n]
  <2>2. new = [f \in Fields |-> new[f]] /\ new.pc = "locked" /\ new.batch = d /\ new.asked = n
        /\ new.number = 0
    BY DEF Idle, Fields
  <2>3. new.batch \in Batches /\ new.asked \in Nat /\ new.number \in Nat
    BY <2>1, <2>2
  <2>4. proc' = [proc EXCEPT ![b] = new]
    BY <2>1
  <2> HIDE DEF new
  <2>5. QED
    BY <2>2, <2>3, <2>4
<1>3. /\ proc' = [c \in Builds |-> proc'[c]] /\ proc'[b] = new
      /\ \A c \in Builds \ {b} : proc'[c] = proc[c]
  BY <1>2 DEF ProcsShaped
<1>4. lock' /\ UNCHANGED <<counter, batch, completed>>
  BY DEF Start
<1>5. ProcsShaped' /\ OneBuilds'
  BY <1>1, <1>2, <1>3, <1>4 DEF ProcsShaped, OneBuilds
<1>6. NumberAhead'
  BY <1>1, <1>2, <1>3, <1>4 DEF NumberAhead, Numberless
<1>7. BatchesShaped' /\ CountedBelow' /\ NumberOnce'
  BY <1>4 DEF BatchesShaped, CountedBelow, NumberOnce
<1>8. QED
  BY <1>5, <1>6, <1>7

(* The lock may go, or stay behind. *)
LEMMA EndKeeps ==
    ASSUME Inv, NEW b \in Builds, proc[b].pc # "idle", End(b), BatchesShaped',
           UNCHANGED <<counter, completed>>
    PROVE  Inv'
<1> USE DEF Inv
<1>1. /\ proc' = [c \in Builds |-> proc'[c]] /\ proc'[b] = Idle
      /\ \A c \in Builds \ {b} : proc'[c] = proc[c] /\ proc[c].pc = "idle"
  BY DEF ProcsShaped, OneBuilds, End
<1>2. ProcsShaped' /\ OneBuilds' /\ NumberAhead'
  BY <1>1, IdleShape DEF ProcsShaped, OneBuilds, NumberAhead, Numberless
<1>3. CountedBelow' /\ NumberOnce'
  BY DEF CountedBelow, NumberOnce
<1>4. QED
  BY <1>2, <1>3

LEMMA UnlockKeeps == ASSUME Inv, NEW b \in Builds, Unlock(b) PROVE Inv'
<1>1. proc[b].pc # "idle"
  BY DEF Unlock, At
<1>2. QED
  BY <1>1, EndKeeps, BatchKept DEF Unlock, counted

LEMMA InterruptKeeps == ASSUME Inv, NEW b \in Builds, Interrupt(b) PROVE Inv'
<1>1. proc[b].pc # "idle" /\ BatchesShaped' /\ UNCHANGED <<lock, counter, completed>>
  BY CutKept DEF Interrupt, At
<1>2. CASE End(b)
  BY <1>1, <1>2, EndKeeps
<1>3. CASE Error(b)
  BY <1>1, <1>3, ErrorMoves, MovesKeep
<1>4. QED
  BY <1>2, <1>3 DEF Interrupt

LEMMA CrashKeeps == ASSUME Inv, Crash PROVE Inv'
<1>1. BatchesShaped'
  BY CutKept DEF Crash
<1>2. ProcsShaped' /\ OneBuilds' /\ NumberAhead'
  BY IdleShape DEF Crash, Inv, ProcsShaped, OneBuilds, NumberAhead, Numberless
<1>3. CountedBelow' /\ NumberOnce'
  BY DEF Crash, Inv, CountedBelow, NumberOnce
<1>4. QED
  BY <1>1, <1>2, <1>3 DEF Inv

(* Edits, and a lock removed while nobody builds. *)
LEMMA OutsideKeeps ==
    ASSUME Inv, UNCHANGED <<counter, batch, completed, proc>>,
           UNCHANGED lock \/ \A b \in Builds : proc[b].pc = "idle"
    PROVE  Inv'
BY DEF Inv, ProcsShaped, BatchesShaped, OneBuilds, NumberAhead, Released, CountedBelow, NumberOnce

-----------------------------------------------------------------------------
LEMMA InvNext == Inv /\ [Next]_vars => Inv'
<1> SUFFICES ASSUME Inv, [Next]_vars PROVE Inv'
  OBVIOUS
<1>1. ASSUME NEW b \in Builds, Step(b) PROVE Inv'
  BY <1>1, PlainSteps, ReadInputsKeeps, RecordKeeps, CaptureKeeps, AfterKeeps, SymbolsKeep,
     CountKeeps, UnlockKeeps DEF Step
<1>2. CASE Edit \/ RemoveLock \/ UNCHANGED vars
  BY <1>2, OutsideKeeps DEF Edit, RemoveLock, At, vars, shared
<1>3. QED
  BY <1>1, <1>2, StartKeeps, InterruptKeeps, CrashKeeps DEF Next

(* However many builds race for the lock, are interrupted or crash at any   *)
(* step and are retried in whichever batch: no two completed releases have  *)
(* the same number, and the counter has passed all of them (the number rule *)
(* of main, write_local_build_number).                                      *)
THEOREM NumbersAreCompletedOnce == Spec => []NumberOnce
<1>1. Spec => []Inv
  BY InvInit, InvNext, PTL DEF Spec
<1>2. Inv => NumberOnce
  BY DEF Inv
<1>3. QED
  BY <1>1, <1>2, PTL

-----------------------------------------------------------------------------
(* The fields of a process after a step. *)

LEMMA Shapes ==
    ASSUME Inv, NEW b \in Builds
    PROVE  /\ proc = [c \in Builds |-> proc[c]] /\ proc[b] = [f \in Fields |-> proc[b][f]]
           /\ proc[b].pc # "idle" => \A c \in Builds \ {b} : proc[c].pc = "idle"
BY DEF Inv, ProcsShaped, OneBuilds

(* Whose build it is, and what it is bound to. *)
Keeps(b) ==
    /\ \A c \in Builds \ {b} : proc'[c] = proc[c]
    /\ proc'[b].goal = proc[b].goal /\ proc'[b].batch = proc[b].batch
    /\ proc'[b].number = proc[b].number /\ proc'[b].head = proc[b].head

LEMMA Goes ==
    ASSUME Inv, NEW b \in Builds, NEW pc, Go(b, pc)
    PROVE  /\ Keeps(b) /\ proc'[b].pc = pc /\ proc'[b].ok = proc[b].ok
           /\ proc'[b].sources = proc[b].sources /\ proc'[b].apk = proc[b].apk
           /\ proc'[b].config = proc[b].config /\ proc'[b].block = proc[b].block
<1> DEFINE new == [proc[b] EXCEPT !.pc = pc]
<1>1. proc = [c \in Builds |-> proc[c]] /\ proc[b] = [f \in Fields |-> proc[b][f]]
  BY Shapes
<1>2. proc' = [proc EXCEPT ![b] = new]
  BY <1>1 DEF Go
<1>3. /\ new.pc = pc /\ new.goal = proc[b].goal /\ new.batch = proc[b].batch
      /\ new.number = proc[b].number /\ new.head = proc[b].head /\ new.ok = proc[b].ok
      /\ new.sources = proc[b].sources /\ new.apk = proc[b].apk /\ new.config = proc[b].config
      /\ new.block = proc[b].block
  BY <1>1 DEF Fields
<1> HIDE DEF new
<1>4. proc'[b] = new /\ \A c \in Builds \ {b} : proc'[c] = proc[c]
  BY <1>1, <1>2
<1>5. QED
  BY <1>3, <1>4 DEF Keeps

LEMMA Errs ==
    ASSUME Inv, NEW b \in Builds, Error(b)
    PROVE  /\ Keeps(b) /\ proc'[b].ok = proc[b].ok
           /\ proc'[b].pc = IF proc[b].pc \in Inside THEN "restore" ELSE "unlock"
           /\ proc'[b].sources = proc[b].sources /\ proc'[b].apk = proc[b].apk
           /\ proc'[b].config = proc[b].config /\ proc'[b].block = proc[b].block
BY Goes DEF Error

(* What the steps that set more than the label set. *)
LEMMA NativeSets ==
    ASSUME Inv, NEW b \in Builds, NativeInputs(b)
    PROVE  /\ \A c \in Builds \ {b} : proc'[c] = proc[c]
           /\ proc'[b].goal = proc[b].goal /\ proc'[b].batch = proc[b].batch /\ proc'[b].number = proc[b].number
           /\ proc'[b].head = proc[b].head /\ proc'[b].ok = proc[b].ok /\ proc'[b].sources = proc[b].sources
           /\ proc'[b].apk = proc[b].apk /\ proc'[b].config = proc[b].config /\ proc'[b].block = proc[b].block
           /\ proc'[b].pc = "capture"
<1> DEFINE new == [proc[b] EXCEPT !.pc = "capture", !.locks = tree.locks]
<1>1. proc = [c \in Builds |-> proc[c]] /\ proc[b] = [f \in Fields |-> proc[b][f]]
  BY Shapes
<1>2. proc' = [proc EXCEPT ![b] = new]
  BY <1>1 DEF NativeInputs
<1>3. /\ new.goal = proc[b].goal /\ new.batch = proc[b].batch /\ new.number = proc[b].number
      /\ new.head = proc[b].head /\ new.ok = proc[b].ok /\ new.sources = proc[b].sources
      /\ new.apk = proc[b].apk /\ new.config = proc[b].config /\ new.block = proc[b].block
      /\ new.pc = "capture"
  BY <1>1 DEF Fields
<1> HIDE DEF new
<1>4. QED
  BY <1>1, <1>2, <1>3

LEMMA CaptureSets ==
    ASSUME Inv, NEW b \in Builds, proc' = [proc EXCEPT ![b].pc = "enter", ![b].sources = tree]
    PROVE  /\ \A c \in Builds \ {b} : proc'[c] = proc[c]
           /\ proc'[b].goal = proc[b].goal /\ proc'[b].batch = proc[b].batch /\ proc'[b].number = proc[b].number
           /\ proc'[b].head = proc[b].head /\ proc'[b].ok = proc[b].ok /\ proc'[b].apk = proc[b].apk
           /\ proc'[b].config = proc[b].config /\ proc'[b].block = proc[b].block /\ proc'[b].pc = "enter"
           /\ proc'[b].sources = tree
<1> DEFINE new == [proc[b] EXCEPT !.pc = "enter", !.sources = tree]
<1>1. proc = [c \in Builds |-> proc[c]] /\ proc[b] = [f \in Fields |-> proc[b][f]]
  BY Shapes
<1>2. proc' = [proc EXCEPT ![b] = new]
  BY <1>1
<1>3. /\ new.goal = proc[b].goal /\ new.batch = proc[b].batch /\ new.number = proc[b].number
      /\ new.head = proc[b].head /\ new.ok = proc[b].ok /\ new.apk = proc[b].apk
      /\ new.config = proc[b].config /\ new.block = proc[b].block /\ new.pc = "enter"
      /\ new.sources = tree
  BY <1>1 DEF Fields
<1> HIDE DEF new
<1>4. QED
  BY <1>1, <1>2, <1>3

LEMMA EnterSets ==
    ASSUME Inv, NEW b \in Builds, Enter(b)
    PROVE  /\ \A c \in Builds \ {b} : proc'[c] = proc[c]
           /\ proc'[b].goal = proc[b].goal /\ proc'[b].batch = proc[b].batch /\ proc'[b].number = proc[b].number
           /\ proc'[b].head = proc[b].head /\ proc'[b].ok = proc[b].ok /\ proc'[b].sources = proc[b].sources
           /\ proc'[b].apk = proc[b].apk /\ proc'[b].pc = "made" /\ proc'[b].config = config
           /\ proc'[b].block = block
<1> DEFINE new == [proc[b] EXCEPT !.pc = "made", !.config = config, !.block = block]
<1>1. proc = [c \in Builds |-> proc[c]] /\ proc[b] = [f \in Fields |-> proc[b][f]]
  BY Shapes
<1>2. proc' = [proc EXCEPT ![b] = new]
  BY <1>1 DEF Enter
<1>3. /\ new.goal = proc[b].goal /\ new.batch = proc[b].batch /\ new.number = proc[b].number
      /\ new.head = proc[b].head /\ new.ok = proc[b].ok /\ new.sources = proc[b].sources
      /\ new.apk = proc[b].apk /\ new.pc = "made" /\ new.config = config
      /\ new.block = block
  BY <1>1 DEF Fields
<1> HIDE DEF new
<1>4. QED
  BY <1>1, <1>2, <1>3

LEMMA RetainSets ==
    ASSUME Inv, NEW b \in Builds, Retain(b)
    PROVE  /\ \A c \in Builds \ {b} : proc'[c] = proc[c]
           /\ proc'[b].goal = proc[b].goal /\ proc'[b].batch = proc[b].batch /\ proc'[b].number = proc[b].number
           /\ proc'[b].head = proc[b].head /\ proc'[b].ok = proc[b].ok /\ proc'[b].sources = proc[b].sources
           /\ proc'[b].config = proc[b].config /\ proc'[b].block = proc[b].block /\ proc'[b].pc = "symbols"
           /\ proc'[b].apk = built
<1> DEFINE new == [proc[b] EXCEPT !.pc = "symbols", !.apk = built]
<1>1. proc = [c \in Builds |-> proc[c]] /\ proc[b] = [f \in Fields |-> proc[b][f]]
  BY Shapes
<1>2. proc' = [proc EXCEPT ![b] = new]
  BY <1>1 DEF Retain
<1>3. /\ new.goal = proc[b].goal /\ new.batch = proc[b].batch /\ new.number = proc[b].number
      /\ new.head = proc[b].head /\ new.ok = proc[b].ok /\ new.sources = proc[b].sources
      /\ new.config = proc[b].config /\ new.block = proc[b].block /\ new.pc = "symbols"
      /\ new.apk = built
  BY <1>1 DEF Fields
<1> HIDE DEF new
<1>4. QED
  BY <1>1, <1>2, <1>3

LEMMA DebugSets ==
    ASSUME Inv, NEW b \in Builds, 
           proc' = [proc EXCEPT ![b].pc = "restore", ![b].apk = built, ![b].ok = TRUE]
    PROVE  /\ \A c \in Builds \ {b} : proc'[c] = proc[c]
           /\ proc'[b].goal = proc[b].goal /\ proc'[b].batch = proc[b].batch /\ proc'[b].number = proc[b].number
           /\ proc'[b].head = proc[b].head /\ proc'[b].sources = proc[b].sources /\ proc'[b].config = proc[b].config
           /\ proc'[b].block = proc[b].block /\ proc'[b].pc = "restore" /\ proc'[b].apk = built
           /\ proc'[b].ok = TRUE
<1> DEFINE new == [proc[b] EXCEPT !.pc = "restore", !.apk = built, !.ok = TRUE]
<1>1. proc = [c \in Builds |-> proc[c]] /\ proc[b] = [f \in Fields |-> proc[b][f]]
  BY Shapes
<1>2. proc' = [proc EXCEPT ![b] = new]
  BY <1>1
<1>3. /\ new.goal = proc[b].goal /\ new.batch = proc[b].batch /\ new.number = proc[b].number
      /\ new.head = proc[b].head /\ new.sources = proc[b].sources /\ new.config = proc[b].config
      /\ new.block = proc[b].block /\ new.pc = "restore" /\ new.apk = built
      /\ new.ok = TRUE
  BY <1>1 DEF Fields
<1> HIDE DEF new
<1>4. QED
  BY <1>1, <1>2, <1>3

LEMMA EvidenceSets ==
    ASSUME Inv, NEW b \in Builds, proc' = [proc EXCEPT ![b].pc = "restore", ![b].ok = TRUE]
    PROVE  /\ \A c \in Builds \ {b} : proc'[c] = proc[c]
           /\ proc'[b].goal = proc[b].goal /\ proc'[b].batch = proc[b].batch /\ proc'[b].number = proc[b].number
           /\ proc'[b].head = proc[b].head /\ proc'[b].sources = proc[b].sources /\ proc'[b].apk = proc[b].apk
           /\ proc'[b].config = proc[b].config /\ proc'[b].block = proc[b].block /\ proc'[b].pc = "restore"
           /\ proc'[b].ok = TRUE
<1> DEFINE new == [proc[b] EXCEPT !.pc = "restore", !.ok = TRUE]
<1>1. proc = [c \in Builds |-> proc[c]] /\ proc[b] = [f \in Fields |-> proc[b][f]]
  BY Shapes
<1>2. proc' = [proc EXCEPT ![b] = new]
  BY <1>1
<1>3. /\ new.goal = proc[b].goal /\ new.batch = proc[b].batch /\ new.number = proc[b].number
      /\ new.head = proc[b].head /\ new.sources = proc[b].sources /\ new.apk = proc[b].apk
      /\ new.config = proc[b].config /\ new.block = proc[b].block /\ new.pc = "restore"
      /\ new.ok = TRUE
  BY <1>1 DEF Fields
<1> HIDE DEF new
<1>4. QED
  BY <1>1, <1>2, <1>3

(* The inputs that are read, or fixed. *)
LEMMA ReadSets ==
    ASSUME Inv, NEW b \in Builds, ReadInputs(b), ~Error(b)
    PROVE  /\ \A c \in Builds \ {b} : proc'[c] = proc[c]
           /\ proc'[b].goal = proc[b].goal /\ proc'[b].batch = proc[b].batch
           /\ proc'[b].number \in Nat /\ proc'[b].head = tree.head /\ proc'[b].ok = proc[b].ok
           /\ \/ proc'[b].pc = "record" /\ Files(b).inputs = None
              \/ /\ proc'[b].pc = "native" /\ Files(b).inputs \notin {None, Torn}
                 /\ Files(b).inputs.number = proc'[b].number
<1> DEFINE n == Number(b)
<1>1. Inv'
  BY ReadInputsKeeps
<1>2. proc'[b].number \in Nat
  BY <1>1 DEF Inv, NumberAhead
<1>3. PICK pc \in {"record", "native"} :
        /\ proc' = [proc EXCEPT ![b].pc = pc, ![b].number = n, ![b].head = tree.head, ![b].asked = 0]
        /\ Files(b).inputs # Torn
        /\ pc = "record" => Files(b).inputs = None
        /\ pc = "native" => Files(b).inputs # None /\ Files(b).inputs = Inputs(proc[b].goal, n)
  BY DEF ReadInputs
<1> HIDE DEF n
<1> DEFINE new == [proc[b] EXCEPT !.pc = pc, !.number = n, !.head = tree.head, !.asked = 0]
<1>4. proc = [c \in Builds |-> proc[c]] /\ proc[b] = [f \in Fields |-> proc[b][f]]
  BY Shapes
<1>5. proc' = [proc EXCEPT ![b] = new]
  BY <1>3, <1>4
<1>6. /\ new.pc = pc /\ new.goal = proc[b].goal /\ new.batch = proc[b].batch
      /\ new.number = n /\ new.head = tree.head /\ new.ok = proc[b].ok
  BY <1>4 DEF Fields
<1> HIDE DEF new
<1>7. proc'[b] = new /\ \A c \in Builds \ {b} : proc'[c] = proc[c]
  BY <1>4, <1>5
<1>8. Inputs(proc[b].goal, n).number = n
  BY DEF Inputs
<1>9. QED
  BY <1>2, <1>3, <1>6, <1>7, <1>8

-----------------------------------------------------------------------------
(* The developer's files. *)

Outside == {"locked", "inputs", "record", "native", "capture", "enter", "unlock", "promote", "report", "count"}
Within == Inside \cup {"made", "restore"}
Labels == {"idle", "pubspec"} \cup Outside \cup Within

TheirOwn == config = "user" /\ inits = 0 /\ block # "flavor"

(* Unless a build was cut short: the files are the developer's own outside of *)
(* temporary_android_configuration, and within it the process holds them.    *)
HoldsFiles(b) ==
    /\ proc[b].pc \in Labels
    /\ ~cut /\ proc[b].pc \in Outside => TheirOwn
    /\ ~cut /\ proc[b].pc \in Within =>
          inits = 1 /\ proc[b].config = "user" /\ proc[b].block # "flavor"
    /\ ~cut /\ proc[b].pc = "pubspec" =>
          config = "user" /\ inits = 0 /\ proc[b].block # "flavor"

FilesInv == (\A b \in Builds : HoldsFiles(b)) /\ UserFilesAreBack

LEMMA LabelKinds ==
    /\ "idle" \notin Outside /\ "pubspec" \notin Outside /\ Outside \cap Within = {}
    /\ "idle" \notin Within /\ "pubspec" \notin Within /\ Inside \subseteq Within
    /\ "unlock" \in Outside /\ "restore" \in Within
BY DEF Outside, Within, Inside

LEMMA FilesInit == Init => FilesInv
<1> SUFFICES ASSUME Init PROVE FilesInv
  OBVIOUS
<1>1. \A b \in Builds : proc[b].pc = "idle"
  BY IdleShape DEF Init
<1>2. config = "user" /\ inits = 0 /\ block = "user"
  BY DEF Init
<1>3. QED
  BY <1>1, <1>2, LabelKinds DEF FilesInv, HoldsFiles, UserFilesAreBack, Labels

(* The other processes are idle: what matters is the one that takes the step. *)
LEMMA FilesStep ==
    ASSUME Inv, FilesInv, NEW b \in Builds, proc[b].pc # "idle",
           \A c \in Builds \ {b} : proc'[c] = proc[c],
           HoldsFiles(b)', proc'[b].pc = "idle" /\ ~cut' => TheirOwn'
    PROVE  FilesInv'
<1>1. \A c \in Builds \ {b} : proc[c].pc = "idle" /\ proc'[c].pc = "idle"
  BY Shapes
<1>2. \A c \in Builds \ {b} : HoldsFiles(c)'
  BY <1>1, LabelKinds DEF HoldsFiles, Labels
<1>3. UserFilesAreBack'
  BY DEF UserFilesAreBack, At, TheirOwn
<1>4. QED
  BY <1>2, <1>3 DEF FilesInv

(* Steps that leave the files alone. *)
LEMMA FilesAlone ==
    ASSUME Inv, FilesInv, NEW b \in Builds, proc[b].pc # "idle", proc'[b].pc # "idle",
           \A c \in Builds \ {b} : proc'[c] = proc[c],
           proc'[b].config = proc[b].config, proc'[b].block = proc[b].block,
           UNCHANGED <<config, block, inits>>, cut => cut',
           \/ proc[b].pc \in Outside /\ proc'[b].pc \in Outside
           \/ proc[b].pc \in Within /\ proc'[b].pc \in Within
    PROVE  FilesInv'
<1>1. HoldsFiles(b)
  BY DEF FilesInv
<1>2. HoldsFiles(b)'
  <2>1. CASE proc[b].pc \in Outside /\ proc'[b].pc \in Outside
    BY <1>1, <2>1, LabelKinds DEF HoldsFiles, Labels, TheirOwn
  <2>2. CASE proc[b].pc \in Within /\ proc'[b].pc \in Within
    BY <1>1, <2>2, LabelKinds DEF HoldsFiles, Labels
  <2>3. QED
    BY <2>1, <2>2
<1>3. QED
  BY <1>2, FilesStep

(* An error goes to where the files are put back, and says no more. *)
LEMMA FilesError ==
    ASSUME Inv, FilesInv, NEW b \in Builds, Error(b), UNCHANGED <<config, block, inits>>, cut => cut',
           proc[b].pc \in Inside \cup Outside
    PROVE  FilesInv'
<1>1. /\ \A c \in Builds \ {b} : proc'[c] = proc[c]
      /\ proc'[b].config = proc[b].config /\ proc'[b].block = proc[b].block
      /\ proc'[b].pc = IF proc[b].pc \in Inside THEN "restore" ELSE "unlock"
  BY Errs DEF Keeps
<1>2. proc[b].pc # "idle" /\ proc'[b].pc # "idle"
  BY <1>1, LabelKinds
<1>3. \/ proc[b].pc \in Outside /\ proc'[b].pc \in Outside
      \/ proc[b].pc \in Within /\ proc'[b].pc \in Within
  BY <1>1, LabelKinds
<1>4. QED
  BY <1>1, <1>2, <1>3, FilesAlone

(* Going on to another label on the same side. *)
LEMMA FilesGo ==
    ASSUME Inv, FilesInv, NEW b \in Builds, NEW pc, Go(b, pc),
           UNCHANGED <<config, block, inits, cut>>,
           \/ proc[b].pc \in Outside /\ pc \in Outside
           \/ proc[b].pc \in Within /\ pc \in Within
    PROVE  FilesInv'
<1>1. /\ \A c \in Builds \ {b} : proc'[c] = proc[c]
      /\ proc'[b].config = proc[b].config /\ proc'[b].block = proc[b].block
      /\ proc'[b].pc = pc
  BY Goes DEF Keeps
<1>2. proc[b].pc # "idle" /\ proc'[b].pc # "idle"
  BY <1>1, LabelKinds
<1>3. QED
  BY <1>1, <1>2, FilesAlone

(* Within, the files are not the developer's anyway. *)
LEMMA FilesWithin ==
    ASSUME Inv, FilesInv, NEW b \in Builds, Error(b) \/ \E pc \in Within : Go(b, pc),
           proc[b].pc \in Inside, UNCHANGED <<inits, cut>>
    PROVE  FilesInv'
<1>1. /\ \A c \in Builds \ {b} : proc'[c] = proc[c]
      /\ proc'[b].config = proc[b].config /\ proc'[b].block = proc[b].block
      /\ proc'[b].pc \in Within
  BY Errs, Goes, LabelKinds DEF Keeps
<1>2. proc[b].pc # "idle" /\ proc'[b].pc # "idle" /\ proc[b].pc \in Within
  BY <1>1, LabelKinds
<1>3. HoldsFiles(b)'
  BY <1>1, <1>2, LabelKinds DEF FilesInv, HoldsFiles, Labels
<1>4. QED
  BY <1>1, <1>2, <1>3, FilesStep

LEMMA FilesQuietSteps ==
    ASSUME Inv, FilesInv, NEW b \in Builds,
           \/ Own(b) \/ ReadInputs(b) \/ RecordInputs(b) \/ NativeInputs(b) \/ Capture(b) \/ Made(b)
           \/ Resolve(b) \/ Preflight(b) \/ Build(b) \/ Verify(b) \/ After(b) \/ Symbols(b)
           \/ CheckEvidence(b) \/ Promote(b) \/ Report(b) \/ Count(b) \/ StepFails(b)
    PROVE  FilesInv'
<1>1. UNCHANGED <<config, block, inits, cut>>
  BY DEF Own, ReadInputs, RecordInputs, NativeInputs, Capture, Made, Resolve, Preflight, Build, Verify,
     After, Symbols, CheckEvidence, Promote, Report, Count, StepFails, shared, counted
<1> USE DEF At
<1>2. CASE Own(b)
  BY <1>1, <1>2, FilesGo DEF Own, Outside
<1>3. CASE ReadInputs(b)
  <2>1. CASE Error(b)
    BY <1>1, <1>3, <2>1, FilesError DEF ReadInputs, Outside
  <2>2. CASE ~Error(b)
    <3>1. /\ \A c \in Builds \ {b} : proc'[c] = proc[c]
          /\ proc[b].pc = "inputs" /\ proc'[b].pc \in {"record", "native"}
      BY <1>3, <2>2, ReadSets DEF ReadInputs
    <3>2. proc[b].pc \in Outside /\ proc'[b].pc \in Outside
      BY <3>1 DEF Outside
    <3>3. HoldsFiles(b)'
      BY <1>1, <3>2, LabelKinds DEF FilesInv, HoldsFiles, Labels, TheirOwn
    <3>4. QED
      BY <3>1, <3>3, FilesStep
  <2>3. QED
    BY <2>1, <2>2
<1>4. CASE RecordInputs(b)
  BY <1>1, <1>4, FilesGo DEF RecordInputs, Outside
<1>5. CASE NativeInputs(b)
  <2>1. proc[b].pc = "native" /\ "native" \in Outside /\ "capture" \in Outside
    BY <1>5 DEF NativeInputs, Outside
  <2>2. /\ \A c \in Builds \ {b} : proc'[c] = proc[c]
        /\ proc'[b].config = proc[b].config /\ proc'[b].block = proc[b].block /\ proc'[b].pc = "capture"
    BY <1>5, NativeSets
  <2>3. QED
    BY <1>1, <2>1, <2>2, FilesAlone
<1>6. CASE Capture(b)
  <2>1. proc[b].pc = "capture" /\ "capture" \in Outside /\ "enter" \in Outside
    BY <1>6 DEF Capture, Outside
  <2>2. CASE Error(b)
    BY <1>1, <2>1, <2>2, FilesError
  <2>3. CASE proc' = [proc EXCEPT ![b].pc = "enter", ![b].sources = tree]
    <3>1. /\ \A c \in Builds \ {b} : proc'[c] = proc[c]
          /\ proc'[b].config = proc[b].config /\ proc'[b].block = proc[b].block /\ proc'[b].pc = "enter"
      BY <2>3, CaptureSets
    <3>2. QED
      BY <1>1, <2>1, <3>1, FilesAlone
  <2>4. QED
    BY <1>6, <2>2, <2>3 DEF Capture
<1>7. CASE Made(b)
  BY <1>1, <1>7, FilesGo DEF Made, Within, Inside
<1>8. CASE Resolve(b) \/ Preflight(b) \/ Build(b) \/ Verify(b) \/ Symbols(b)
  <2>1. proc[b].pc \in Inside
    BY <1>8 DEF Resolve, Preflight, Build, Verify, Symbols, Inside
  <2>2. Error(b) \/ \E pc \in {"prepare", "abi", "verify", "after", "evidence"} : Go(b, pc)
    BY <1>8 DEF Resolve, Preflight, Build, Verify, Symbols
  <2>3. {"prepare", "abi", "verify", "after", "evidence"} \subseteq Within
    BY DEF Within, Inside
  <2>4. QED
    BY <1>1, <2>1, <2>2, <2>3, FilesWithin
<1>9. CASE After(b)
  <2>1. proc[b].pc = "after" /\ "after" \in Within /\ "restore" \in Within /\ "symbols" \in Within
        /\ "after" \in Inside
    BY <1>9 DEF After, Within, Inside
  <2>2. CASE Error(b)
    BY <1>1, <2>1, <2>2, FilesWithin
  <2>3. CASE Retain(b)
    <3>1. /\ \A c \in Builds \ {b} : proc'[c] = proc[c]
          /\ proc'[b].config = proc[b].config /\ proc'[b].block = proc[b].block /\ proc'[b].pc = "symbols"
      BY <2>3, RetainSets
    <3>2. QED
      BY <1>1, <2>1, <3>1, LabelKinds, FilesAlone
  <2>4. CASE proc' = [proc EXCEPT ![b].pc = "restore", ![b].apk = built, ![b].ok = TRUE]
    <3>1. /\ \A c \in Builds \ {b} : proc'[c] = proc[c]
          /\ proc'[b].config = proc[b].config /\ proc'[b].block = proc[b].block /\ proc'[b].pc = "restore"
      BY <2>4, DebugSets
    <3>2. QED
      BY <1>1, <2>1, <3>1, LabelKinds, FilesAlone
  <2>5. QED
    BY <1>9, <2>2, <2>3, <2>4 DEF After
<1>10. CASE CheckEvidence(b)
  <2>1. proc[b].pc = "evidence" /\ "evidence" \in Within /\ "restore" \in Within /\ "evidence" \in Inside
    BY <1>10 DEF CheckEvidence, Within, Inside
  <2>2. CASE Error(b)
    BY <1>1, <2>1, <2>2, FilesWithin
  <2>3. CASE proc' = [proc EXCEPT ![b].pc = "restore", ![b].ok = TRUE]
    <3>1. /\ \A c \in Builds \ {b} : proc'[c] = proc[c]
          /\ proc'[b].config = proc[b].config /\ proc'[b].block = proc[b].block /\ proc'[b].pc = "restore"
      BY <2>3, EvidenceSets
    <3>2. QED
      BY <1>1, <2>1, <3>1, LabelKinds, FilesAlone
  <2>4. QED
    BY <1>10, <2>2, <2>3 DEF CheckEvidence
<1>11. CASE Promote(b)
  BY <1>1, <1>11, FilesGo, FilesError DEF Promote, Outside
<1>12. CASE Report(b)
  BY <1>1, <1>12, FilesGo DEF Report, Outside
<1>13. CASE Count(b)
  BY <1>1, <1>13, FilesGo DEF Count, Outside
<1>14. CASE StepFails(b)
  BY <1>1, <1>14, FilesError DEF StepFails, Outside
<1>15. QED
  BY <1>2, <1>3, <1>4, <1>5, <1>6, <1>7, <1>8, <1>9, <1>10, <1>11, <1>12, <1>13, <1>14

(* The configuration is taken as it is, and put back. *)
LEMMA FilesTaken == ASSUME Inv, FilesInv, NEW b \in Builds, Enter(b) PROVE FilesInv'
<1>1. proc[b].pc = "enter" /\ inits' = inits + 1 /\ UNCHANGED <<config, block, cut>>
  BY DEF Enter, At, counted
<1>2. /\ \A c \in Builds \ {b} : proc'[c] = proc[c]
      /\ proc'[b].config = config /\ proc'[b].block = block /\ proc'[b].pc = "made"
  BY EnterSets
<1>3. "enter" \in Outside /\ "made" \in Within
  BY DEF Outside, Within
<1>4. ~cut => TheirOwn
  BY <1>1, <1>3 DEF FilesInv, HoldsFiles
<1>5. HoldsFiles(b)'
  BY <1>1, <1>2, <1>3, <1>4, LabelKinds DEF HoldsFiles, Labels, TheirOwn
<1>6. QED
  BY <1>1, <1>2, <1>5, FilesStep

LEMMA FilesChanged ==
    ASSUME Inv, FilesInv, NEW b \in Builds, Prepare(b) \/ SetAbi(b) PROVE FilesInv'
<1>1. proc[b].pc \in Inside /\ UNCHANGED <<inits, cut>>
  BY DEF Prepare, SetAbi, At, Inside, counted
<1>2. Error(b) \/ \E pc \in {"preflight", "abi", "build"} : Go(b, pc)
  BY DEF Prepare, SetAbi
<1>3. {"preflight", "abi", "build"} \subseteq Within
  BY DEF Within, Inside
<1>4. QED
  BY <1>1, <1>2, <1>3, FilesWithin

LEMMA FilesRestored == ASSUME Inv, FilesInv, NEW b \in Builds, Restore(b) PROVE FilesInv'
<1>1. /\ proc[b].pc = "restore" /\ inits' = inits - 1 /\ config' = proc[b].config
      /\ UNCHANGED <<block, cut>> /\ Go(b, "pubspec")
  BY DEF Restore, At, counted
<1>2. /\ \A c \in Builds \ {b} : proc'[c] = proc[c]
      /\ proc'[b].block = proc[b].block /\ proc'[b].pc = "pubspec"
  BY <1>1, Goes DEF Keeps
<1>3. ~cut => inits = 1 /\ proc[b].config = "user" /\ proc[b].block # "flavor"
  BY <1>1, LabelKinds DEF FilesInv, HoldsFiles
<1>4. HoldsFiles(b)'
  BY <1>1, <1>2, <1>3, LabelKinds DEF HoldsFiles, Labels
<1>5. QED
  BY <1>1, <1>2, <1>4, FilesStep

LEMMA FilesPubspec == ASSUME Inv, FilesInv, NEW b \in Builds, RestorePubspec(b) PROVE FilesInv'
<1>1. /\ proc[b].pc = "pubspec" /\ UNCHANGED <<config, inits, cut>>
      /\ block' = IF Conflict(b) THEN block ELSE proc[b].block
      /\ \E pc \in {"promote", "unlock"} : Go(b, pc)
  BY DEF RestorePubspec, At, counted
<1>2. (\A c \in Builds \ {b} : proc'[c] = proc[c]) /\ proc'[b].pc \in {"promote", "unlock"}
  BY <1>1, Goes DEF Keeps
<1>3. ~cut => config = "user" /\ inits = 0 /\ proc[b].block # "flavor"
  BY <1>1 DEF FilesInv, HoldsFiles
<1>4. proc'[b].pc \in Outside
  BY <1>2 DEF Outside
<1>5. HoldsFiles(b)'
  BY <1>1, <1>3, <1>4, LabelKinds DEF HoldsFiles, Labels, TheirOwn, Conflict
<1>6. QED
  BY <1>1, <1>2, <1>4, <1>5, LabelKinds, FilesStep

LEMMA FilesEnd ==
    ASSUME Inv, FilesInv, NEW b \in Builds, proc[b].pc \in {"locked", "unlock"}, End(b),
           UNCHANGED <<config, block, inits>>, cut => cut'
    PROVE  FilesInv'
<1>1. proc'[b] = Idle /\ \A c \in Builds \ {b} : proc'[c] = proc[c]
  BY Shapes DEF End
<1>2. proc[b].pc \in Outside /\ proc[b].pc # "idle"
  BY DEF Outside
<1>3. ~cut' => TheirOwn
  BY <1>2 DEF FilesInv, HoldsFiles
<1>4. HoldsFiles(b)'
  BY <1>1, IdleShape, LabelKinds DEF HoldsFiles, Labels
<1>5. QED
  BY <1>1, <1>2, <1>3, <1>4, FilesStep DEF TheirOwn

LEMMA FilesStart == ASSUME Inv, FilesInv, NEW b \in Builds, Start(b) PROVE FilesInv'
<1>1. ~lock /\ UNCHANGED <<config, block, inits, cut>>
  BY DEF Start
<1>2. \A c \in Builds : proc[c].pc = "idle"
  BY <1>1 DEF Inv, OneBuilds
<1>3. ~cut => TheirOwn
  BY <1>2 DEF FilesInv, UserFilesAreBack, At, TheirOwn
<1>4. proc'[b].pc = "locked" /\ \A c \in Builds \ {b} : proc'[c] = proc[c]
  <2>1. PICK g \in Goals, d \in Batches, n \in {0, 2} :
           proc' = [proc EXCEPT ![b] = [Idle EXCEPT !.pc = "locked", !.goal = g, !.batch = d, !.asked = n]]
    BY DEF Start
  <2> DEFINE new == [Idle EXCEPT !.pc = "locked", !.goal = g, !.batch = d, !.asked = n]
  <2>2. proc' = [proc EXCEPT ![b] = new] /\ new.pc = "locked"
    BY <2>1 DEF Idle
  <2> HIDE DEF new
  <2>3. QED
    BY <2>2, Shapes
<1>5. \A c \in Builds : proc'[c].pc \in {"idle", "locked"}
  BY <1>2, <1>4
<1>6. "locked" \in Outside
  BY DEF Outside
<1>7. \A c \in Builds : HoldsFiles(c)'
  BY <1>1, <1>3, <1>5, <1>6, LabelKinds DEF HoldsFiles, Labels, TheirOwn
<1>8. QED
  BY <1>4, <1>7 DEF FilesInv, UserFilesAreBack, At

LEMMA FilesInterrupted == ASSUME Inv, FilesInv, NEW b \in Builds, Interrupt(b) PROVE FilesInv'
<1>1. /\ proc[b].pc # "idle" /\ UNCHANGED <<config, block, inits>>
      /\ cut' = (cut \/ proc[b].pc \in {"made", "restore", "pubspec"})
  BY DEF Interrupt, At
<1>2. CASE End(b) /\ proc[b].pc \in {"locked", "unlock"}
  BY <1>1, <1>2, FilesEnd
<1>3. CASE Error(b) /\ proc[b].pc \in {"made", "restore", "pubspec"}
  <2>1. cut' /\ (\A c \in Builds \ {b} : proc'[c] = proc[c]) /\ proc'[b].pc = "unlock"
    BY <1>1, <1>3, Errs DEF Inside, Keeps
  <2>2. HoldsFiles(b)'
    BY <2>1, LabelKinds DEF HoldsFiles, Labels
  <2>3. QED
    BY <1>1, <2>1, <2>2, FilesStep
<1>4. CASE Error(b) /\ proc[b].pc \notin {"made", "restore", "pubspec"}
  <2>1. proc[b].pc \in Inside \cup Outside
    BY <1>1, <1>4 DEF FilesInv, HoldsFiles, Labels, Within
  <2>2. UNCHANGED <<config, block, inits>> /\ (cut => cut')
    BY <1>1
  <2>3. QED
    BY <1>4, <2>1, <2>2, FilesError
<1>5. QED
  BY <1>2, <1>3, <1>4 DEF Interrupt

LEMMA FilesCrash == ASSUME Inv, FilesInv, Crash PROVE FilesInv'
<1>1. cut' /\ \A b \in Builds : proc'[b].pc = "idle"
  BY IdleShape DEF Crash
<1>2. QED
  BY <1>1, LabelKinds DEF FilesInv, HoldsFiles, Labels, UserFilesAreBack

(* An edit of the asset block is not the flavor's. *)
LEMMA FilesEdited == ASSUME Inv, FilesInv, Edit \/ RemoveLock \/ UNCHANGED vars PROVE FilesInv'
<1>1. UNCHANGED <<config, inits, cut, proc>> /\ (block' = block \/ block' = "other")
  BY DEF Edit, RemoveLock, vars, shared
<1>2. \A b \in Builds : HoldsFiles(b)'
  BY <1>1 DEF FilesInv, HoldsFiles, TheirOwn
<1>3. UserFilesAreBack'
  BY <1>1 DEF FilesInv, UserFilesAreBack, At
<1>4. QED
  BY <1>2, <1>3 DEF FilesInv

LEMMA FilesNext == Inv /\ FilesInv /\ [Next]_vars => FilesInv'
<1> SUFFICES ASSUME Inv, FilesInv, [Next]_vars PROVE FilesInv'
  OBVIOUS
<1>1. ASSUME NEW b \in Builds, Step(b) PROVE FilesInv'
  <2>1. CASE Unlock(b)
    BY <2>1, FilesEnd DEF Unlock, At, counted
  <2>2. QED
    BY <1>1, <2>1, FilesQuietSteps, FilesTaken, FilesChanged, FilesRestored, FilesPubspec DEF Step
<1>2. QED
  BY <1>1, FilesStart, FilesInterrupted, FilesCrash, FilesEdited DEF Next

(* However builds fail, are interrupted or race for the lock, and whatever is *)
(* edited meanwhile: when none runs, and none was stopped where it could not  *)
(* clean up, the developer has their own configuration and asset block, and   *)
(* Gradle reports crashes again (temporary_android_configuration).            *)
THEOREM FilesComeBack == Spec => []UserFilesAreBack
<1>1. Spec => [](Inv /\ FilesInv)
  BY InvInit, InvNext, FilesInit, FilesNext, PTL DEF Spec
<1>2. FilesInv => UserFilesAreBack
  BY DEF FilesInv
<1>3. QED
  BY <1>1, <1>2, PTL

-----------------------------------------------------------------------------
(* What a build is bound to, and what it carries to the promotion. *)

Kinds == {"release", "diagnostic", "debug"}
Quiet == {"idle", "locked", "inputs", "report", "count", "unlock"}
WithSources == Within \cup {"pubspec", "promote"}
WithInputs == WithSources \cup {"native", "capture", "enter"}

(* The batch has the number of the build that works on it, and its sources. *)
BoundInputs(b) ==
    /\ proc[b].pc = "record" => Files(b).inputs = None
    /\ proc[b].pc \in WithInputs => Files(b).inputs \notin {None, Torn} /\ Files(b).inputs.number = proc[b].number
BoundSources(b) ==
    proc[b].pc \in WithSources \cup {"enter"} =>
        proc[b].sources \in Trees /\ Files(b).sources = proc[b].sources /\ proc[b].sources.edits <= tree.edits

(* The APK was compiled since; unless something was edited after that, it is of *)
(* the sources that are there.                                              *)
BuiltFits(b) ==
    proc[b].pc \in {"verify", "after"} =>
        /\ built.batch = proc[b].batch /\ built.number = proc[b].number
        /\ built.tree.edits \in Nat /\ proc[b].sources.edits <= built.tree.edits
        /\ built.tree.edits <= tree.edits /\ (built.tree.edits = tree.edits => built.tree = tree)
        /\ proc[b].pc = "after" /\ Released(b) => ~built.flawed

HasApk(b) ==
    \/ proc[b].pc \in {"symbols", "evidence", "promote"}
    \/ proc[b].pc \in {"restore", "pubspec"} /\ proc[b].ok
ApkFits(b) ==
    HasApk(b) =>
        /\ proc[b].apk.batch = proc[b].batch /\ proc[b].apk.number = proc[b].number
        /\ proc[b].apk.tree = proc[b].sources
        /\ Released(b) => ~proc[b].apk.flawed

(* An evidence that is there when it is checked is of this APK. *)
IsServed(b) ==
    /\ proc[b].pc = "symbols" => Files(b).evidence = None
    /\ proc[b].pc = "evidence" /\ Files(b).evidence # None /\ proc[b].goal = "release" =>
          proc[b].apk.id \in served
    /\ proc[b].pc \in {"restore", "pubspec", "promote"} /\ proc[b].ok /\ proc[b].goal = "release" /\ Configured =>
          proc[b].apk.id \in served
    /\ proc[b].pc = "promote" => proc[b].ok
    /\ proc[b].ok => proc[b].pc \in {"restore", "pubspec", "promote", "report", "count", "unlock"}

Bound(b) ==
    /\ proc[b].goal \in Goals /\ proc[b].head \in Nat
    /\ BoundInputs(b) /\ BoundSources(b) /\ BuiltFits(b) /\ ApkFits(b) /\ IsServed(b)

(* What was promoted, the batch it is of being fixed by now. *)
Pinned(k) ==
    /\ dist[k].batch \in Batches /\ batch[dist[k].batch].inputs \notin {None, Torn}
    /\ batch[dist[k].batch].inputs.number = dist[k].number
    /\ dist[k].tree \in Trees /\ batch[dist[k].batch].sources = dist[k].tree
    /\ k # "debug" => ~dist[k].flawed
    /\ k = "release" /\ Configured => dist[k].id \in served
DistPinned ==
    /\ dist = [k \in Kinds |-> dist[k]]
    /\ \A k \in Kinds : dist[k] # None => Pinned(k)

PinInv == tree \in Trees /\ (\A b \in Builds : Bound(b)) /\ DistPinned

(* Inputs and sources that are fixed stay, and so do the symbols with Sentry. *)
Fixed ==
    /\ \A d \in Batches : batch[d].inputs \notin {None, Torn} => batch'[d].inputs = batch[d].inputs
    /\ \A d \in Batches : batch[d].sources \in Trees => batch'[d].sources = batch[d].sources
    /\ served \subseteq served'

LEMMA NoneIsNoTree == None \notin Trees /\ Torn \notin Trees
BY AndroidAssumption DEF Contents

LEMMA NothingWritten == ASSUME UNCHANGED <<batch, served>> PROVE Fixed
BY DEF Fixed

LEMMA Written ==
    ASSUME Inv, NEW d \in Batches, NEW new, batch' = [batch EXCEPT ![d] = new]
    PROVE  batch'[d] = new /\ \A e \in Batches : e # d => batch'[e] = batch[e]
BY DEF Inv, BatchesShaped

LEMMA InputsWritten ==
    ASSUME Inv, NEW d \in Batches, NEW value, batch' = [batch EXCEPT ![d].inputs = value]
    PROVE  /\ \A e \in Batches : e # d => batch'[e] = batch[e]
           /\ batch'[d].inputs = value /\ batch'[d].sources = batch[d].sources
<1> DEFINE new == [batch[d] EXCEPT !.inputs = value]
<1>1. batch' = [batch EXCEPT ![d] = new] /\ batch[d] = [f \in Records |-> batch[d][f]]
  BY DEF Inv, BatchesShaped
<1>2. new.inputs = value /\ new.sources = batch[d].sources
  BY <1>1 DEF Records
<1> HIDE DEF new
<1>3. QED
  BY <1>1, <1>2, Written

LEMMA SourcesWritten ==
    ASSUME Inv, NEW d \in Batches, NEW value, batch' = [batch EXCEPT ![d].sources = value]
    PROVE  /\ \A e \in Batches : e # d => batch'[e] = batch[e]
           /\ batch'[d].inputs = batch[d].inputs /\ batch'[d].sources = value
<1> DEFINE new == [batch[d] EXCEPT !.sources = value]
<1>1. batch' = [batch EXCEPT ![d] = new] /\ batch[d] = [f \in Records |-> batch[d][f]]
  BY DEF Inv, BatchesShaped
<1>2. new.inputs = batch[d].inputs /\ new.sources = value
  BY <1>1 DEF Records
<1> HIDE DEF new
<1>3. QED
  BY <1>1, <1>2, Written

LEMMA EvidenceWritten ==
    ASSUME Inv, NEW d \in Batches, NEW value, batch' = [batch EXCEPT ![d].evidence = value]
    PROVE  /\ \A e \in Batches : e # d => batch'[e] = batch[e]
           /\ batch'[d].inputs = batch[d].inputs /\ batch'[d].sources = batch[d].sources
           /\ batch'[d].evidence = value
<1> DEFINE new == [batch[d] EXCEPT !.evidence = value]
<1>1. batch' = [batch EXCEPT ![d] = new] /\ batch[d] = [f \in Records |-> batch[d][f]]
  BY DEF Inv, BatchesShaped
<1>2. new.inputs = batch[d].inputs /\ new.sources = batch[d].sources /\ new.evidence = value
  BY <1>1 DEF Records
<1> HIDE DEF new
<1>3. QED
  BY <1>1, <1>2, Written

LEMMA PinInit == Init => PinInv
<1> SUFFICES ASSUME Init PROVE PinInv
  OBVIOUS
<1>1. tree \in Trees
  BY DEF Init, Trees
<1>2. DistPinned
  BY DEF Init, DistPinned, Kinds
<1>3. ASSUME NEW b \in Builds PROVE Bound(b)
  <2>1. proc[b].pc = "idle" /\ proc[b].goal = "debug" /\ proc[b].head = 0 /\ proc[b].ok = FALSE
    BY DEF Init, Idle
  <2>2. QED
    BY <2>1, LabelKinds DEF Bound, BoundInputs, BoundSources, BuiltFits, ApkFits, HasApk, IsServed,
       WithInputs, WithSources, Goals
<1>4. QED
  BY <1>1, <1>2, <1>3 DEF PinInv

LEMMA DistKept == ASSUME PinInv, Fixed, UNCHANGED dist PROVE DistPinned'
<1>1. ASSUME NEW k \in Kinds, dist[k] # None PROVE Pinned(k)'
  <2>1. Pinned(k)
    BY <1>1 DEF PinInv, DistPinned
  <2>2. QED
    BY <2>1 DEF Pinned, Fixed
<1>2. QED
  BY <1>1 DEF PinInv, DistPinned

(* The other processes are idle. *)
LEMMA PinStep ==
    ASSUME Inv, PinInv, NEW b \in Builds, proc[b].pc # "idle",
           \A c \in Builds \ {b} : proc'[c] = proc[c],
           Bound(b)', tree' \in Trees, DistPinned'
    PROVE  PinInv'
<1>1. ASSUME NEW c \in Builds \ {b} PROVE Bound(c)'
  <2>1. proc[c].pc = "idle" /\ proc'[c] = proc[c] /\ Bound(c)
    BY Shapes DEF PinInv
  <2>2. proc[c].goal \in Goals /\ proc[c].head \in Nat /\ ~proc[c].ok
    BY <2>1 DEF Bound, IsServed
  <2>3. QED
    BY <2>1, <2>2, LabelKinds DEF Bound, BoundInputs, BoundSources, BuiltFits, ApkFits, HasApk,
       IsServed, WithInputs, WithSources
<1>2. QED
  BY <1>1 DEF PinInv

(* A process that holds nothing is bound to nothing. *)
LEMMA QuietBound ==
    ASSUME NEW b \in Builds, proc'[b].pc \in Quiet, proc'[b].goal \in Goals, proc'[b].head \in Nat,
           proc'[b].ok => proc'[b].pc \in {"report", "count", "unlock"}
    PROVE  Bound(b)'
<1>1. proc'[b].pc \notin WithInputs /\ proc'[b].pc \notin WithSources
  BY DEF Quiet, WithInputs, WithSources, Within, Inside
<1>2. QED
  BY <1>1 DEF Quiet, Bound, BoundInputs, BoundSources, BuiltFits, ApkFits, HasApk, IsServed

(* An error puts the files back, and nothing is promoted. *)
LEMMA PinError ==
    ASSUME Inv, PinInv, NEW b \in Builds, Error(b), proc[b].pc # "idle", Fixed, UNCHANGED dist,
           tree' \in Trees, tree'.edits = tree.edits
    PROVE  PinInv'
<1>1. /\ Keeps(b) /\ proc'[b].ok = proc[b].ok /\ proc'[b].sources = proc[b].sources
      /\ proc'[b].pc = IF proc[b].pc \in Inside THEN "restore" ELSE "unlock"
  BY Errs
<1>2. Bound(b) /\ proc[b].batch \in Batches
  BY DEF PinInv, Inv, OneBuilds
<1>3. Bound(b)'
  <2>1. CASE proc[b].pc \in Inside
    <3>1. proc'[b].pc = "restore" /\ ~proc'[b].ok
      BY <1>1, <1>2, <2>1 DEF Bound, IsServed, Inside
    <3>2. proc[b].pc \in WithSources /\ proc[b].pc \in WithInputs
      BY <2>1 DEF WithSources, WithInputs, Within
    <3>3. Files(b)'.inputs = Files(b).inputs /\ Files(b)'.sources = Files(b).sources
      BY <1>1, <1>2, <3>2 DEF Bound, BoundInputs, BoundSources, Fixed, Files, Keeps
    <3>4. BoundInputs(b)' /\ BoundSources(b)'
      BY <1>1, <1>2, <3>1, <3>2, <3>3 DEF Bound, BoundInputs, BoundSources, Keeps
    <3>5. BuiltFits(b)' /\ ApkFits(b)' /\ IsServed(b)'
      BY <3>1 DEF BuiltFits, ApkFits, HasApk, IsServed
    <3>6. QED
      BY <1>1, <1>2, <3>4, <3>5 DEF Bound, Keeps
  <2>2. CASE proc[b].pc \notin Inside
    BY <1>1, <1>2, <2>2, QuietBound DEF Bound, Keeps, Quiet
  <2>3. QED
    BY <2>1, <2>2
<1>4. QED
  BY <1>1, <1>3, DistKept, PinStep DEF Keeps

(* Before there is an APK: the build goes on with what it is bound to. *)
LEMMA PinMiddle ==
    ASSUME Inv, PinInv, NEW b \in Builds, NEW pc, Go(b, pc),
           proc[b].pc \in {"made", "resolve", "prepare", "preflight", "abi"},
           pc \in {"resolve", "prepare", "preflight", "abi", "build"},
           UNCHANGED <<batch, served, dist>>, tree' \in Trees, tree'.edits = tree.edits
    PROVE  PinInv'
<1>1. Keeps(b) /\ proc'[b].pc = pc /\ proc'[b].ok = proc[b].ok /\ proc'[b].sources = proc[b].sources
  BY Goes
<1>2. Bound(b) /\ ~proc'[b].ok
  BY <1>1 DEF PinInv, Bound, IsServed
<1>3. {proc[b].pc, pc} \subseteq WithSources /\ {proc[b].pc, pc} \subseteq WithInputs
  BY DEF WithSources, WithInputs, Within, Inside
<1>4. Files(b)' = Files(b)
  BY <1>1 DEF Keeps, Files
<1>5. BoundInputs(b)' /\ BoundSources(b)'
  BY <1>1, <1>2, <1>3, <1>4 DEF Bound, BoundInputs, BoundSources, Keeps
<1>6. Bound(b)'
  BY <1>1, <1>2, <1>5 DEF Bound, BuiltFits, ApkFits, HasApk, IsServed, Keeps
<1>7. QED
  BY <1>1, <1>6, NothingWritten, DistKept, PinStep DEF Keeps

LEMMA TreeWritten ==
    ASSUME PinInv PROVE [tree EXCEPT !.native = "written"] \in Trees
                        /\ [tree EXCEPT !.native = "written"].edits = tree.edits
BY DEF PinInv, Trees

LEMMA PinMiddleSteps ==
    ASSUME Inv, PinInv, NEW b \in Builds,
           Made(b) \/ Resolve(b) \/ Prepare(b) \/ Preflight(b) \/ SetAbi(b)
    PROVE  PinInv'
<1>1. /\ proc[b].pc \in {"made", "resolve", "prepare", "preflight", "abi"}
      /\ UNCHANGED <<batch, served, dist>>
      /\ Error(b) \/ \E pc \in {"resolve", "prepare", "preflight", "abi", "build"} : Go(b, pc)
  BY DEF Made, Resolve, Prepare, Preflight, SetAbi, At, shared, counted
<1>2. tree' = tree \/ tree' = [tree EXCEPT !.native = "written"]
  BY DEF Made, Resolve, Prepare, Preflight, SetAbi, shared, counted
<1>3. tree' \in Trees /\ tree'.edits = tree.edits
  BY <1>2, TreeWritten DEF PinInv
<1>4. proc[b].pc # "idle" /\ Fixed
  BY <1>1, NothingWritten
<1>5. QED
  BY <1>1, <1>3, <1>4, PinError, PinMiddle

LEMMA PinOwn == ASSUME Inv, PinInv, NEW b \in Builds, Own(b) PROVE PinInv'
<1>1. Go(b, "inputs") /\ proc[b].pc = "locked" /\ UNCHANGED <<tree, batch, served, dist>>
  BY DEF Own, At, shared, counted
<1>2. Keeps(b) /\ proc'[b].pc = "inputs" /\ proc'[b].ok = proc[b].ok
  BY <1>1, Goes
<1>3. Bound(b)
  BY DEF PinInv
<1>4. Bound(b)'
  BY <1>1, <1>2, <1>3, QuietBound DEF Bound, IsServed, Keeps, Quiet
<1>5. QED
  BY <1>1, <1>2, <1>4, NothingWritten, DistKept, PinStep DEF Keeps, PinInv

LEMMA PinRead == ASSUME Inv, PinInv, NEW b \in Builds, ReadInputs(b) PROVE PinInv'
<1>1. proc[b].pc = "inputs" /\ UNCHANGED <<tree, batch, served, dist>>
  BY DEF ReadInputs, At, counted
<1>2. Bound(b) /\ tree \in Trees /\ tree.head \in Nat
  BY DEF PinInv, Trees
<1>3. CASE Error(b)
  BY <1>1, <1>2, <1>3, NothingWritten, PinError
<1>4. CASE ~Error(b)
  <2>1. /\ \A c \in Builds \ {b} : proc'[c] = proc[c]
        /\ proc'[b].goal = proc[b].goal /\ proc'[b].batch = proc[b].batch
        /\ proc'[b].number \in Nat /\ proc'[b].head = tree.head /\ proc'[b].ok = proc[b].ok
        /\ \/ proc'[b].pc = "record" /\ Files(b).inputs = None
           \/ /\ proc'[b].pc = "native" /\ Files(b).inputs \notin {None, Torn}
              /\ Files(b).inputs.number = proc'[b].number
    BY <1>4, ReadSets
  <2>2. Files(b)' = Files(b) /\ ~proc'[b].ok
    BY <1>1, <1>2, <2>1 DEF Files, Bound, IsServed
  <2>3. BoundInputs(b)'
    <3>1. CASE proc'[b].pc = "record" /\ Files(b).inputs = None
      <4>1. "record" \notin WithInputs
        BY DEF WithInputs, WithSources, Within, Inside
      <4>2. QED
        BY <2>2, <3>1, <4>1 DEF BoundInputs
    <3>2. CASE /\ proc'[b].pc = "native" /\ Files(b).inputs \notin {None, Torn}
               /\ Files(b).inputs.number = proc'[b].number
      BY <2>2, <3>2 DEF BoundInputs
    <3>3. QED
      BY <2>1, <3>1, <3>2
  <2>4. "record" \notin WithSources \cup {"enter"} /\ "native" \notin WithSources \cup {"enter"}
    BY DEF WithSources, Within, Inside
  <2>5. Bound(b)'
    BY <1>2, <2>1, <2>2, <2>3, <2>4 DEF Bound, BoundSources, BuiltFits, ApkFits, HasApk, IsServed
  <2>6. QED
    BY <1>1, <1>2, <2>1, <2>5, NothingWritten, DistKept, PinStep
<1>5. QED
  BY <1>3, <1>4

(* The inputs are written once, where there were none. *)
LEMMA PinRecord == ASSUME Inv, PinInv, NEW b \in Builds, RecordInputs(b) PROVE PinInv'
<1>1. proc[b].pc = "record" /\ Go(b, "native") /\ UNCHANGED <<tree, served, dist>>
  BY DEF RecordInputs, At, counted
<1>2. Keeps(b) /\ proc'[b].pc = "native" /\ proc'[b].ok = proc[b].ok
  BY <1>1, Goes
<1>3. Bound(b) /\ proc[b].batch \in Batches /\ proc[b].number \in Nat
  BY <1>1 DEF PinInv, Inv, OneBuilds, NumberAhead
<1>4. PICK i : i = [goal |-> proc[b].goal, number |-> proc[b].number, head |-> proc[b].head]
  OBVIOUS
<1>5. i \notin {None, Torn} /\ i.number = proc[b].number
  <2>1. i \in [goal : Goals, number : Nat, head : Nat]
    BY <1>3, <1>4 DEF Bound
  <2>2. QED
    BY <1>4, <2>1, AndroidAssumption DEF Contents
<1>6. batch' = [batch EXCEPT ![proc[b].batch]["inputs"] = i]
  BY <1>4 DEF RecordInputs, Write
<1>7. /\ \A e \in Batches : e # proc[b].batch => batch'[e] = batch[e]
      /\ batch'[proc[b].batch].inputs = i
      /\ batch'[proc[b].batch].sources = batch[proc[b].batch].sources
  <2>1. PICK d \in Batches : d = proc[b].batch
    BY <1>3
  <2>2. batch' = [batch EXCEPT ![d].inputs = i]
    BY <1>6, <2>1
  <2>3. /\ \A e \in Batches : e # d => batch'[e] = batch[e]
        /\ batch'[d].inputs = i /\ batch'[d].sources = batch[d].sources
    BY <2>2, InputsWritten
  <2>4. QED
    BY <2>1, <2>3
<1>8. Fixed
  <2>1. batch[proc[b].batch].inputs = None /\ served \subseteq served'
    BY <1>1, <1>3 DEF Bound, BoundInputs, Files
  <2>2. \A e \in Batches : batch'[e].sources = batch[e].sources
    BY <1>7
  <2>3. QED
    BY <1>7, <2>1, <2>2 DEF Fixed
<1>9. Bound(b)'
  <2>1. Files(b)'.inputs = i /\ ~proc'[b].ok
    BY <1>1, <1>2, <1>3, <1>7 DEF Files, Keeps, Bound, IsServed
  <2>2. "native" \notin WithSources \cup {"enter"}
    BY DEF WithSources, Within, Inside
  <2>3. BoundInputs(b)'
    BY <1>2, <1>5, <2>1 DEF BoundInputs, Keeps
  <2>4. QED
    BY <1>2, <1>3, <2>1, <2>2, <2>3 DEF Bound, BoundSources, BuiltFits, ApkFits, HasApk, IsServed, Keeps
<1>10. QED
  BY <1>1, <1>2, <1>8, <1>9, DistKept, PinStep DEF Keeps, PinInv

LEMMA PinNative == ASSUME Inv, PinInv, NEW b \in Builds, NativeInputs(b) PROVE PinInv'
<1>1. proc[b].pc = "native" /\ UNCHANGED <<tree, batch, served, dist>>
  BY DEF NativeInputs, At, shared, counted
<1>2. /\ Keeps(b) /\ proc'[b].ok = proc[b].ok /\ proc'[b].pc = "capture"
  BY NativeSets DEF Keeps
<1>3. Bound(b) /\ Files(b)' = Files(b)
  BY <1>1, <1>2 DEF PinInv, Files, Keeps
<1>4. BoundInputs(b)'
  BY <1>1, <1>2, <1>3 DEF Bound, BoundInputs, Keeps, WithInputs
<1>5. "capture" \notin WithSources \cup {"enter"}
  BY DEF WithSources, Within, Inside
<1>6. Bound(b)'
  BY <1>1, <1>2, <1>3, <1>4, <1>5 DEF Bound, BoundSources, BuiltFits, ApkFits, HasApk, IsServed, Keeps
<1>7. QED
  BY <1>1, <1>2, <1>6, NothingWritten, DistKept, PinStep DEF Keeps, PinInv

(* So are the sources. *)
LEMMA PinCapture == ASSUME Inv, PinInv, NEW b \in Builds, Capture(b) PROVE PinInv'
<1>1. proc[b].pc = "capture" /\ UNCHANGED <<tree, served, dist>>
  BY DEF Capture, At, counted
<1>2. Bound(b) /\ proc[b].batch \in Batches /\ tree \in Trees
  BY <1>1 DEF PinInv, Inv, OneBuilds
<1>3. CASE Error(b) /\ UNCHANGED batch
  BY <1>1, <1>2, <1>3, NothingWritten, PinError
<1>4. CASE /\ proc' = [proc EXCEPT ![b].pc = "enter", ![b].sources = tree]
           /\ \/ Files(b).sources = None /\ Write(b, "sources", tree)
              \/ Files(b).sources = tree /\ UNCHANGED batch
  <2>1. /\ Keeps(b) /\ proc'[b].ok = proc[b].ok /\ proc'[b].pc = "enter" /\ proc'[b].sources = tree
    BY <1>4, CaptureSets DEF Keeps
  <2>2. Fixed /\ Files(b)'.inputs = Files(b).inputs /\ Files(b)'.sources = tree
    <3>1. CASE Files(b).sources = tree /\ UNCHANGED batch
      BY <1>1, <2>1, <3>1, NothingWritten DEF Files, Keeps
    <3>2. CASE Files(b).sources = None /\ Write(b, "sources", tree)
      <4>1. batch' = [batch EXCEPT ![proc[b].batch]["sources"] = tree]
        BY <3>2 DEF Write
      <4>2. /\ \A e \in Batches : e # proc[b].batch => batch'[e] = batch[e]
            /\ batch'[proc[b].batch].inputs = batch[proc[b].batch].inputs
            /\ batch'[proc[b].batch].sources = tree
        <5>1. PICK d \in Batches : d = proc[b].batch
          BY <1>2
        <5>2. batch' = [batch EXCEPT ![d].sources = tree]
          BY <4>1, <5>1
        <5>3. /\ \A e \in Batches : e # d => batch'[e] = batch[e]
              /\ batch'[d].inputs = batch[d].inputs /\ batch'[d].sources = tree
          BY <5>2, SourcesWritten
        <5>4. QED
          BY <5>1, <5>3
      <4>3. Fixed
        <5>1. batch[proc[b].batch].sources \notin Trees
          BY <3>2, NoneIsNoTree DEF Files
        <5>2. served \subseteq served'
          BY <1>1
        <5>3. \A e \in Batches : batch'[e].inputs = batch[e].inputs
          BY <4>2
        <5>4. QED
          BY <4>2, <5>1, <5>2, <5>3 DEF Fixed
      <4>4. QED
        BY <2>1, <4>2, <4>3 DEF Files, Keeps
    <3>3. QED
      BY <1>4, <3>1, <3>2
  <2>3. tree.edits <= tree'.edits
    BY <1>1, <1>2 DEF Trees
  <2>4. BoundInputs(b)' /\ BoundSources(b)'
    BY <1>1, <1>2, <2>1, <2>2, <2>3 DEF Bound, BoundInputs, BoundSources, Keeps, WithInputs
  <2>5. Bound(b)'
    BY <1>1, <1>2, <2>1, <2>4 DEF Bound, BuiltFits, ApkFits, HasApk, IsServed, Keeps
  <2>6. QED
    BY <1>1, <1>2, <2>1, <2>2, <2>5, DistKept, PinStep DEF Keeps
<1>5. QED
  BY <1>3, <1>4 DEF Capture

LEMMA PinEnter == ASSUME Inv, PinInv, NEW b \in Builds, Enter(b) PROVE PinInv'
<1>1. proc[b].pc = "enter" /\ UNCHANGED <<tree, batch, served, dist>>
  BY DEF Enter, At, counted
<1>2. /\ Keeps(b) /\ proc'[b].ok = proc[b].ok /\ proc'[b].pc = "made"
      /\ proc'[b].sources = proc[b].sources
  BY EnterSets DEF Keeps
<1>3. Bound(b) /\ Files(b)' = Files(b)
  BY <1>1, <1>2 DEF PinInv, Files, Keeps
<1>4. "enter" \in WithInputs /\ "made" \in WithInputs /\ "made" \in WithSources
  BY DEF WithSources, WithInputs, Within
<1>5. BoundInputs(b)' /\ BoundSources(b)'
  BY <1>1, <1>2, <1>3, <1>4 DEF Bound, BoundInputs, BoundSources, Keeps
<1>6. Bound(b)'
  BY <1>1, <1>2, <1>3, <1>5 DEF Bound, BuiltFits, ApkFits, HasApk, IsServed, Keeps
<1>7. QED
  BY <1>1, <1>2, <1>6, NothingWritten, DistKept, PinStep DEF Keeps, PinInv

(* What is compiled is of the sources that are there now. *)
LEMMA PinBuild == ASSUME Inv, PinInv, NEW b \in Builds, Build(b) PROVE PinInv'
<1>1. proc[b].pc = "build" /\ UNCHANGED <<tree, batch, served, dist>>
  BY DEF Build, At, counted
<1>2. PICK pc : Go(b, pc) /\ pc = IF Released(b) THEN "verify" ELSE "after"
  BY DEF Build
<1>3. Keeps(b) /\ proc'[b].pc = pc /\ proc'[b].ok = proc[b].ok /\ proc'[b].sources = proc[b].sources
  BY <1>2, Goes
<1>4. Bound(b) /\ Files(b)' = Files(b) /\ tree \in Trees
  BY <1>1, <1>3 DEF PinInv, Files, Keeps
<1>5. {"build", pc} \subseteq WithSources /\ {"build", pc} \subseteq WithInputs
  BY <1>2 DEF WithSources, WithInputs, Within, Inside
<1>6. BoundInputs(b)' /\ BoundSources(b)'
  BY <1>1, <1>2, <1>3, <1>4, <1>5 DEF Bound, BoundInputs, BoundSources, Keeps
<1>7. BuiltFits(b)'
  <2>1. built'.batch = proc[b].batch /\ built'.number = proc[b].number /\ built'.tree = tree
    BY DEF Build
  <2>2. tree.edits \in Nat /\ proc[b].sources.edits <= tree.edits
    BY <1>1, <1>4, <1>5 DEF Trees, Bound, BoundSources
  <2>3. Released(b)' = Released(b)
    BY <1>3 DEF Released, Keeps
  <2>4. tree.edits <= tree.edits
    BY <2>2
  <2>5. pc = "after" => ~Released(b)
    BY <1>2
  <2>6. QED
    BY <1>1, <1>3, <2>1, <2>2, <2>3, <2>4, <2>5 DEF BuiltFits, Keeps
<1>8. Bound(b)'
  BY <1>1, <1>2, <1>3, <1>4, <1>6, <1>7 DEF Bound, ApkFits, HasApk, IsServed, Keeps
<1>9. QED
  BY <1>1, <1>3, <1>4, <1>8, NothingWritten, DistKept, PinStep DEF Keeps

LEMMA PinVerify == ASSUME Inv, PinInv, NEW b \in Builds, Verify(b) PROVE PinInv'
<1>1. proc[b].pc = "verify" /\ UNCHANGED <<tree, batch, served, dist, built>>
  BY DEF Verify, At, shared, counted
<1>2. Bound(b) /\ tree \in Trees
  BY DEF PinInv
<1>3. CASE Error(b)
  BY <1>1, <1>2, <1>3, NothingWritten, PinError
<1>4. CASE ~built.flawed /\ Go(b, "after")
  <2>1. Keeps(b) /\ proc'[b].pc = "after" /\ proc'[b].ok = proc[b].ok /\ proc'[b].sources = proc[b].sources
    BY <1>4, Goes
  <2>2. Files(b)' = Files(b)
    BY <1>1, <2>1 DEF Files, Keeps
  <2>3. {"verify", "after"} \subseteq WithSources /\ {"verify", "after"} \subseteq WithInputs
    BY DEF WithSources, WithInputs, Within, Inside
  <2>4. BoundInputs(b)' /\ BoundSources(b)'
    BY <1>1, <1>2, <2>1, <2>2, <2>3 DEF Bound, BoundInputs, BoundSources, Keeps
  <2>5. BuiltFits(b)'
    BY <1>1, <1>2, <1>4, <2>1 DEF Bound, BuiltFits, Keeps
  <2>6. Bound(b)'
    BY <1>1, <1>2, <2>1, <2>4, <2>5 DEF Bound, ApkFits, HasApk, IsServed, Keeps
  <2>7. QED
    BY <1>1, <1>2, <2>1, <2>6, NothingWritten, DistKept, PinStep DEF Keeps
<1>5. QED
  BY <1>3, <1>4 DEF Verify, Verified

(* The sources did not move while it was compiled: it is of those of the batch. *)
LEMMA PinAfter == ASSUME Inv, PinInv, NEW b \in Builds, After(b) PROVE PinInv'
<1>1. proc[b].pc = "after" /\ UNCHANGED <<tree, served, dist, built>>
  BY DEF After, At, counted
<1>2. Bound(b) /\ tree \in Trees /\ proc[b].batch \in Batches
  BY <1>1 DEF PinInv, Inv, OneBuilds
<1>3. CASE Error(b) /\ UNCHANGED batch
  BY <1>1, <1>2, <1>3, NothingWritten, PinError
<1>4. /\ {"after", "symbols", "restore"} \subseteq WithSources
      /\ {"after", "symbols", "restore"} \subseteq WithInputs
  BY DEF WithSources, WithInputs, Within, Inside
<1>5. ASSUME SourcesHold(b)
      PROVE  /\ built.batch = proc[b].batch /\ built.number = proc[b].number
             /\ built.tree = proc[b].sources /\ (Released(b) => ~built.flawed)
  <2>1. BuiltFits(b) /\ proc[b].sources = tree
    BY <1>2, <1>5 DEF Bound, SourcesHold
  <2>2. built.tree.edits \in Nat /\ tree.edits <= built.tree.edits /\ built.tree.edits <= tree.edits
    BY <1>1, <2>1 DEF BuiltFits
  <2>3. built.tree.edits = tree.edits
    BY <1>2, <2>2 DEF Trees
  <2>4. QED
    BY <1>1, <2>1, <2>3 DEF BuiltFits
<1>6. CASE SourcesHold(b) /\ Released(b) /\ Retain(b)
  <2>1. /\ Keeps(b) /\ proc'[b].ok = proc[b].ok /\ proc'[b].sources = proc[b].sources
        /\ proc'[b].pc = "symbols" /\ proc'[b].apk = built
    BY <1>6, RetainSets DEF Keeps
  <2>2. PICK d \in Batches : d = proc[b].batch
    BY <1>2
  <2>3. /\ \A e \in Batches : e # d => batch'[e] = batch[e]
        /\ batch'[d].inputs = batch[d].inputs /\ batch'[d].sources = batch[d].sources
        /\ batch'[d].evidence = None
    <3> DEFINE new == [batch[d] EXCEPT !.retained = built, !.evidence = None]
    <3>1. batch = [e \in Batches |-> batch[e]] /\ batch[d] = [f \in Records |-> batch[d][f]]
      BY DEF Inv, BatchesShaped
    <3>2. batch' = [batch EXCEPT ![d] = new]
      BY <1>6, <2>2, <3>1 DEF Retain
    <3>3. /\ new.inputs = batch[d].inputs /\ new.sources = batch[d].sources /\ new.evidence = None
      BY <3>1 DEF Records
    <3> HIDE DEF new
    <3>4. QED
      BY <3>2, <3>3, Written
  <2>4. /\ Files(b)'.inputs = Files(b).inputs /\ Files(b)'.sources = Files(b).sources
        /\ Files(b)'.evidence = None
    BY <2>1, <2>2, <2>3 DEF Files, Keeps
  <2>5. Fixed
    <3>1. \A e \in Batches : batch'[e].inputs = batch[e].inputs /\ batch'[e].sources = batch[e].sources
      BY <2>3
    <3>2. QED
      BY <1>1, <3>1 DEF Fixed
  <2>6. BoundInputs(b)' /\ BoundSources(b)'
    BY <1>1, <1>2, <1>4, <2>1, <2>4 DEF Bound, BoundInputs, BoundSources, Keeps
  <2>7. ApkFits(b)' /\ IsServed(b)'
    BY <1>1, <1>2, <1>5, <1>6, <2>1, <2>4 DEF Bound, ApkFits, IsServed, Released, Keeps
  <2>8. Bound(b)'
    BY <1>2, <2>1, <2>6, <2>7 DEF Bound, BuiltFits, Keeps
  <2>9. QED
    BY <1>1, <1>2, <2>1, <2>5, <2>8, DistKept, PinStep DEF Keeps
<1>7. CASE /\ SourcesHold(b) /\ ~Released(b) /\ UNCHANGED batch
           /\ proc' = [proc EXCEPT ![b].pc = "restore", ![b].apk = built, ![b].ok = TRUE]
  <2>1. /\ Keeps(b) /\ proc'[b].ok = TRUE /\ proc'[b].sources = proc[b].sources
        /\ proc'[b].pc = "restore" /\ proc'[b].apk = built
    BY <1>7, DebugSets DEF Keeps
  <2>2. Files(b)' = Files(b) /\ proc[b].goal # "release"
    BY <1>7, <2>1 DEF Files, Keeps, Released
  <2>3. BoundInputs(b)' /\ BoundSources(b)'
    BY <1>1, <1>2, <1>4, <2>1, <2>2 DEF Bound, BoundInputs, BoundSources, Keeps
  <2>4. ApkFits(b)' /\ IsServed(b)'
    BY <1>5, <1>7, <2>1, <2>2 DEF ApkFits, IsServed, Released, Keeps
  <2>5. Bound(b)'
    BY <1>2, <2>1, <2>3, <2>4 DEF Bound, BuiltFits, Keeps
  <2>6. QED
    BY <1>1, <1>2, <1>7, <2>1, <2>5, NothingWritten, DistKept, PinStep DEF Keeps
<1>8. QED
  BY <1>3, <1>6, <1>7 DEF After

(* An evidence is written for this APK, which Sentry has by then, or none is. *)
LEMMA PinSymbols == ASSUME Inv, PinInv, NEW b \in Builds, Symbols(b) PROVE PinInv'
<1>1. proc[b].pc = "symbols" /\ Go(b, "evidence") /\ UNCHANGED <<tree, dist>>
  BY DEF Symbols, At, counted
<1>2. Bound(b) /\ tree \in Trees /\ proc[b].batch \in Batches
  BY <1>1 DEF PinInv, Inv, OneBuilds
<1>3. /\ Keeps(b) /\ proc'[b].ok = proc[b].ok /\ proc'[b].sources = proc[b].sources
      /\ proc'[b].pc = "evidence" /\ proc'[b].apk = proc[b].apk
  BY <1>1, Goes
<1>4. {"symbols", "evidence"} \subseteq WithSources /\ {"symbols", "evidence"} \subseteq WithInputs
  BY DEF WithSources, WithInputs, Within, Inside
<1>5. /\ Fixed
      /\ Files(b)'.inputs = Files(b).inputs /\ Files(b)'.sources = Files(b).sources
      /\ \/ Files(b)'.evidence = Files(b).evidence
         \/ proc[b].goal = "release" => proc[b].apk.id \in served'
  <2>1. CASE UNCHANGED <<batch, served>>
    BY <1>3, <2>1, NothingWritten DEF Files, Keeps
  <2>2. CASE /\ Write(b, "evidence", Evidence(b))
             /\ served' = IF proc[b].goal = "release" THEN served \cup {proc[b].apk.id} ELSE served
    <3>1. PICK d \in Batches : d = proc[b].batch
      BY <1>2
    <3>2. PICK e : e = Evidence(b)
      OBVIOUS
    <3>3. batch' = [batch EXCEPT ![d].evidence = e]
      BY <2>2, <3>1, <3>2 DEF Write
    <3>4. /\ \A c \in Batches : c # d => batch'[c] = batch[c]
          /\ batch'[d].inputs = batch[d].inputs /\ batch'[d].sources = batch[d].sources
      BY <3>3, EvidenceWritten
    <3>5. \A c \in Batches : batch'[c].inputs = batch[c].inputs /\ batch'[c].sources = batch[c].sources
      BY <3>4
    <3>6. served \subseteq served' /\ (proc[b].goal = "release" => proc[b].apk.id \in served')
      BY <2>2
    <3>7. Fixed
      BY <3>5, <3>6 DEF Fixed
    <3>8. QED
      BY <1>3, <3>1, <3>4, <3>6, <3>7 DEF Files, Keeps
  <2>3. QED
    BY <2>1, <2>2 DEF Symbols
<1>6. BoundInputs(b)' /\ BoundSources(b)'
  BY <1>1, <1>2, <1>3, <1>4, <1>5 DEF Bound, BoundInputs, BoundSources, Keeps
<1>7. ApkFits(b)'
  BY <1>1, <1>2, <1>3 DEF Bound, ApkFits, HasApk, Released, Keeps
<1>8. IsServed(b)'
  BY <1>1, <1>2, <1>3, <1>5 DEF Bound, IsServed, Keeps
<1>9. Bound(b)'
  BY <1>2, <1>3, <1>6, <1>7, <1>8 DEF Bound, BuiltFits, Keeps
<1>10. QED
  BY <1>1, <1>2, <1>3, <1>5, <1>9, DistKept, PinStep DEF Keeps

LEMMA EvidenceIsThere ==
    ASSUME Inv, NEW b \in Builds, Bound(b) PROVE Evidence(b) # None
<1>1. proc[b].number \in Nat /\ proc[b].head \in Nat
  BY DEF Inv, NumberAhead, Bound
<1>2. Evidence(b) \in [status : {"audited", "uploaded_and_processed"}, number : Nat, head : Nat]
  BY <1>1 DEF Evidence
<1>3. QED
  BY <1>2, AndroidAssumption DEF Contents

LEMMA PinEvidence == ASSUME Inv, PinInv, NEW b \in Builds, CheckEvidence(b) PROVE PinInv'
<1>1. proc[b].pc = "evidence" /\ UNCHANGED <<tree, batch, served, dist>>
  BY DEF CheckEvidence, At, shared, counted
<1>2. Bound(b) /\ tree \in Trees
  BY DEF PinInv
<1>3. CASE Error(b)
  BY <1>1, <1>2, <1>3, NothingWritten, PinError
<1>4. CASE EvidenceHolds(b) /\ proc' = [proc EXCEPT ![b].pc = "restore", ![b].ok = TRUE]
  <2>1. /\ Keeps(b) /\ proc'[b].ok = TRUE /\ proc'[b].sources = proc[b].sources
        /\ proc'[b].pc = "restore" /\ proc'[b].apk = proc[b].apk
    BY <1>4, EvidenceSets DEF Keeps
  <2>2. Files(b)' = Files(b)
    BY <1>1, <2>1 DEF Files, Keeps
  <2>3. {"evidence", "restore"} \subseteq WithSources /\ {"evidence", "restore"} \subseteq WithInputs
    BY DEF WithSources, WithInputs, Within, Inside
  <2>4. BoundInputs(b)' /\ BoundSources(b)'
    BY <1>1, <1>2, <2>1, <2>2, <2>3 DEF Bound, BoundInputs, BoundSources, Keeps
  <2>5. ApkFits(b)'
    BY <1>1, <1>2, <2>1 DEF Bound, ApkFits, HasApk, Released, Keeps
  <2>6. proc[b].goal = "release" /\ Configured => Files(b).evidence # None
    BY <1>2, <1>4, EvidenceIsThere DEF EvidenceHolds
  <2>7. IsServed(b)'
    BY <1>1, <1>2, <2>1, <2>6 DEF Bound, IsServed, Keeps
  <2>8. Bound(b)'
    BY <1>2, <2>1, <2>4, <2>5, <2>7 DEF Bound, BuiltFits, Keeps
  <2>9. QED
    BY <1>1, <1>2, <2>1, <2>8, NothingWritten, DistKept, PinStep DEF Keeps
<1>5. QED
  BY <1>3, <1>4 DEF CheckEvidence

(* On the way to the promotion the APK is carried along. *)
LEMMA PinCarry ==
    ASSUME Inv, PinInv, NEW b \in Builds, NEW pc, Go(b, pc),
           UNCHANGED <<tree, batch, served, dist>>,
           \/ proc[b].pc = "restore" /\ pc = "pubspec"
           \/ proc[b].pc = "pubspec" /\ pc = "promote" /\ proc[b].ok
    PROVE  PinInv'
<1>1. /\ Keeps(b) /\ proc'[b].ok = proc[b].ok /\ proc'[b].sources = proc[b].sources
      /\ proc'[b].pc = pc /\ proc'[b].apk = proc[b].apk
  BY Goes
<1>2. Bound(b) /\ tree \in Trees /\ Files(b)' = Files(b)
  BY <1>1 DEF PinInv, Files, Keeps
<1>3. {proc[b].pc, pc} \subseteq WithSources /\ {proc[b].pc, pc} \subseteq WithInputs
  BY DEF WithSources, WithInputs, Within
<1>4. BoundInputs(b)' /\ BoundSources(b)'
  BY <1>1, <1>2, <1>3 DEF Bound, BoundInputs, BoundSources, Keeps
<1>5. HasApk(b)' => HasApk(b)
  BY <1>1 DEF HasApk
<1>6. ApkFits(b)'
  BY <1>1, <1>2, <1>5 DEF Bound, ApkFits, Released, Keeps
<1>7. IsServed(b)'
  BY <1>1, <1>2 DEF Bound, IsServed, Keeps
<1>8. Bound(b)'
  BY <1>1, <1>2, <1>4, <1>6, <1>7 DEF Bound, BuiltFits, Keeps
<1>9. QED
  BY <1>1, <1>2, <1>8, NothingWritten, DistKept, PinStep DEF Keeps

(* Letting go of all of it. *)
LEMMA PinQuiet ==
    ASSUME Inv, PinInv, NEW b \in Builds, NEW pc, Go(b, pc), proc[b].pc # "idle",
           pc \in {"report", "count", "unlock"}, tree' = tree, Fixed, DistPinned'
    PROVE  PinInv'
<1>1. Keeps(b) /\ proc'[b].pc = pc
  BY Goes
<1>2. Bound(b) /\ tree \in Trees
  BY DEF PinInv
<1>3. Bound(b)'
  BY <1>1, <1>2, QuietBound DEF Bound, Keeps, Quiet
<1>4. QED
  BY <1>1, <1>2, <1>3, PinStep DEF Keeps

LEMMA PinRestored ==
    ASSUME Inv, PinInv, NEW b \in Builds, Restore(b) \/ RestorePubspec(b) PROVE PinInv'
<1>1. UNCHANGED <<tree, batch, served, dist>>
  BY DEF Restore, RestorePubspec, counted
<1>2. CASE Restore(b)
  BY <1>1, <1>2, PinCarry DEF Restore, At
<1>3. CASE RestorePubspec(b)
  <2>1. proc[b].pc = "pubspec"
    BY <1>3 DEF RestorePubspec, At
  <2>2. CASE proc[b].ok /\ ~Conflict(b)
    BY <1>1, <1>3, <2>1, <2>2, PinCarry DEF RestorePubspec
  <2>3. CASE ~(proc[b].ok /\ ~Conflict(b))
    <3>1. Go(b, "unlock")
      BY <1>3, <2>3 DEF RestorePubspec
    <3>2. QED
      BY <1>1, <2>1, <3>1, NothingWritten, DistKept, PinQuiet
  <2>4. QED
    BY <2>2, <2>3
<1>4. QED
  BY <1>2, <1>3

(* What is promoted is pinned by then. *)
LEMMA PinPromote == ASSUME Inv, PinInv, NEW b \in Builds, Promote(b) PROVE PinInv'
<1>1. proc[b].pc = "promote" /\ UNCHANGED <<tree, batch, served>>
  BY DEF Promote, At, counted
<1>2. Bound(b) /\ tree \in Trees /\ proc[b].batch \in Batches
  BY <1>1 DEF PinInv, Inv, OneBuilds
<1>3. CASE Error(b) /\ UNCHANGED dist
  BY <1>1, <1>2, <1>3, NothingWritten, PinError
<1>4. CASE dist' = [dist EXCEPT ![Kind(b)] = proc[b].apk] /\ Go(b, "report")
  <2>1. PICK k \in Kinds : k = Kind(b)
    BY DEF Kind, Kinds
  <2>2. /\ dist' = [l \in Kinds |-> dist'[l]] /\ dist'[k] = proc[b].apk
        /\ \A l \in Kinds : l # k => dist'[l] = dist[l]
    <3>1. dist = [l \in Kinds |-> dist[l]] /\ dist' = [dist EXCEPT ![k] = proc[b].apk]
      BY <1>4, <2>1 DEF PinInv, DistPinned
    <3>2. QED
      BY <3>1
  <2>3. /\ k # "debug" => Released(b)
        /\ k = "release" => proc[b].goal = "release"
    BY <1>2, <2>1 DEF Kind, Released, Diagnostic, Bound, Goals
  <2>4. /\ proc[b].apk.batch = proc[b].batch /\ proc[b].apk.number = proc[b].number
        /\ proc[b].apk.tree = proc[b].sources /\ (Released(b) => ~proc[b].apk.flawed)
    BY <1>1, <1>2 DEF Bound, ApkFits, HasApk
  <2>5. /\ Files(b).inputs \notin {None, Torn} /\ Files(b).inputs.number = proc[b].number
        /\ proc[b].sources \in Trees /\ Files(b).sources = proc[b].sources
    BY <1>1, <1>2 DEF Bound, BoundInputs, BoundSources, WithInputs, WithSources
  <2>6. proc[b].goal = "release" /\ Configured => proc[b].apk.id \in served
    BY <1>1, <1>2 DEF Bound, IsServed
  <2>7. Pinned(k)'
    BY <1>1, <1>2, <2>2, <2>3, <2>4, <2>5, <2>6 DEF Pinned, Files
  <2>8. ASSUME NEW l \in Kinds, l # k, dist'[l] # None PROVE Pinned(l)'
    <3>1. Pinned(l) /\ dist'[l] = dist[l]
      BY <2>2, <2>8 DEF PinInv, DistPinned
    <3>2. QED
      BY <1>1, <3>1 DEF Pinned
  <2>9. DistPinned'
    BY <2>2, <2>7, <2>8 DEF DistPinned
  <2>10. QED
    BY <1>1, <1>4, <2>9, NothingWritten, PinQuiet
<1>5. QED
  BY <1>3, <1>4 DEF Promote

LEMMA PinLast ==
    ASSUME Inv, PinInv, NEW b \in Builds, Report(b) \/ Count(b) \/ StepFails(b) PROVE PinInv'
<1>1. UNCHANGED <<tree, batch, served, dist>> /\ tree \in Trees
  BY DEF Report, Count, StepFails, shared, PinInv
<1>2. Fixed /\ DistPinned'
  BY <1>1, NothingWritten, DistKept
<1>3. CASE Report(b)
  BY <1>1, <1>2, <1>3, PinQuiet DEF Report, At
<1>4. CASE Count(b)
  BY <1>1, <1>2, <1>4, PinQuiet DEF Count, At
<1>5. CASE StepFails(b)
  <2>1. Error(b) /\ proc[b].pc # "idle"
    BY <1>5 DEF StepFails, Inside
  <2>2. QED
    BY <1>1, <1>2, <2>1, PinError
<1>6. QED
  BY <1>3, <1>4, <1>5

LEMMA IdleBound == ASSUME NEW b \in Builds, proc'[b] = Idle PROVE Bound(b)'
<1>1. Idle.pc = "idle" /\ Idle.goal = "debug" /\ Idle.head = 0 /\ Idle.ok = FALSE
  BY DEF Idle
<1>2. QED
  BY <1>1, QuietBound DEF Quiet, Goals

LEMMA PinEnd ==
    ASSUME Inv, PinInv, NEW b \in Builds, proc[b].pc # "idle", End(b), UNCHANGED <<tree, dist>>, Fixed
    PROVE  PinInv'
<1>1. proc'[b] = Idle /\ \A c \in Builds \ {b} : proc'[c] = proc[c]
  BY Shapes DEF End
<1>2. QED
  BY <1>1, IdleBound, DistKept, PinStep DEF PinInv

(* What a build starts with. *)
LEMMA PinStart == ASSUME Inv, PinInv, NEW b \in Builds, Start(b) PROVE PinInv'
<1>1. ~lock /\ UNCHANGED <<tree, batch, served, dist>> /\ tree \in Trees
  BY DEF Start, PinInv
<1>2. \A c \in Builds : proc[c].pc = "idle" /\ Bound(c)
  BY <1>1 DEF Inv, OneBuilds, PinInv
<1>3. /\ \A c \in Builds \ {b} : proc'[c] = proc[c]
      /\ proc'[b].pc = "locked" /\ proc'[b].goal \in Goals /\ proc'[b].head = 0 /\ proc'[b].ok = FALSE
  <2>1. PICK g \in Goals, d \in Batches, n \in {0, 2} :
           proc' = [proc EXCEPT ![b] = [Idle EXCEPT !.pc = "locked", !.goal = g, !.batch = d, !.asked = n]]
    BY DEF Start
  <2> DEFINE new == [Idle EXCEPT !.pc = "locked", !.goal = g, !.batch = d, !.asked = n]
  <2>2. new.pc = "locked" /\ new.goal = g /\ new.head = 0 /\ new.ok = FALSE
    BY DEF Idle
  <2>3. proc' = [proc EXCEPT ![b] = new]
    BY <2>1
  <2> HIDE DEF new
  <2>4. QED
    BY <2>1, <2>2, <2>3, Shapes
<1>4. Bound(b)'
  BY <1>3, QuietBound DEF Quiet
<1>5. ASSUME NEW c \in Builds \ {b} PROVE Bound(c)'
  <2>1. proc'[c] = proc[c] /\ proc'[c].pc = "idle" /\ Bound(c)
    BY <1>2, <1>3
  <2>2. proc[c].goal \in Goals /\ proc[c].head \in Nat /\ ~proc[c].ok
    BY <2>1 DEF Bound, IsServed
  <2>3. QED
    BY <2>1, <2>2, QuietBound DEF Quiet
<1>6. QED
  BY <1>1, <1>4, <1>5, NothingWritten, DistKept DEF PinInv

(* A file that is cut short was not fixed yet. *)
LEMMA CutFixed ==
    ASSUME Inv, PinInv, NEW b \in Builds, batch' \in CutShort(b), UNCHANGED served
    PROVE  Fixed
<1>1. Bound(b)
  BY DEF PinInv
<1>2. CASE batch' = batch
  BY <1>2, NothingWritten
<1>3. CASE proc[b].pc = "record" /\ batch' = [batch EXCEPT ![proc[b].batch].inputs = Torn]
  <2>1. PICK d \in Batches : d = proc[b].batch
    BY <1>3 DEF Inv, OneBuilds
  <2>2. batch' = [batch EXCEPT ![d].inputs = Torn]
    BY <1>3, <2>1
  <2>3. (\A e \in Batches : e # d => batch'[e] = batch[e]) /\ batch'[d].sources = batch[d].sources
    BY <2>2, InputsWritten
  <2>4. batch[d].inputs = None
    BY <1>1, <1>3, <2>1 DEF Bound, BoundInputs, Files
  <2>5. \A e \in Batches : batch'[e].sources = batch[e].sources
    BY <2>3
  <2>6. QED
    BY <2>3, <2>4, <2>5 DEF Fixed
<1>4. CASE /\ proc[b].pc = "capture" /\ Files(b).sources = None
           /\ batch' = [batch EXCEPT ![proc[b].batch].sources = Torn]
  <2>1. PICK d \in Batches : d = proc[b].batch
    BY <1>4 DEF Inv, OneBuilds
  <2>2. batch' = [batch EXCEPT ![d].sources = Torn]
    BY <1>4, <2>1
  <2>3. (\A e \in Batches : e # d => batch'[e] = batch[e]) /\ batch'[d].inputs = batch[d].inputs
    BY <2>2, SourcesWritten
  <2>4. batch[d].sources \notin Trees
    BY <1>4, <2>1, NoneIsNoTree DEF Files
  <2>5. \A e \in Batches : batch'[e].inputs = batch[e].inputs
    BY <2>3
  <2>6. QED
    BY <2>3, <2>4, <2>5 DEF Fixed
<1>5. QED
  BY <1>2, <1>3, <1>4 DEF CutShort, At

LEMMA PinInterrupted == ASSUME Inv, PinInv, NEW b \in Builds, Interrupt(b) PROVE PinInv'
<1>1. proc[b].pc # "idle" /\ UNCHANGED <<tree, dist, served>> /\ tree \in Trees
  BY DEF Interrupt, At, PinInv
<1>2. Fixed
  BY <1>1, CutFixed DEF Interrupt
<1>3. QED
  BY <1>1, <1>2, PinEnd, PinError DEF Interrupt

LEMMA PinCrash == ASSUME Inv, PinInv, Crash PROVE PinInv'
<1>1. UNCHANGED <<tree, dist, served>> /\ tree \in Trees /\ \A b \in Builds : proc'[b] = Idle
  BY DEF Crash, PinInv
<1>2. Fixed
  BY <1>1, CutFixed DEF Crash
<1>3. \A b \in Builds : Bound(b)'
  BY <1>1, IdleBound
<1>4. QED
  BY <1>1, <1>2, <1>3, DistKept DEF PinInv

(* An edit makes contents that were not there when anything was compiled. *)
LEMMA PinEdited == ASSUME Inv, PinInv, Edit \/ RemoveLock \/ UNCHANGED vars PROVE PinInv'
<1>1. UNCHANGED <<batch, served, dist, proc, built>>
  BY DEF Edit, RemoveLock, vars, shared
<1>2. tree' \in Trees /\ (tree' = tree \/ tree'.edits = tree.edits + 1)
  <2>1. CASE tree' = tree
    BY <2>1 DEF PinInv
  <2>2. CASE \E e \in {<<0, 0>>, <<0, 1>>, <<1, 0>>} :
                tree' = [tree EXCEPT !.edits = @ + 1, !.head = @ + e[1], !.locks = @ + e[2]]
    <3>1. PICK e \in {<<0, 0>>, <<0, 1>>, <<1, 0>>} :
             tree' = [tree EXCEPT !.edits = @ + 1, !.head = @ + e[1], !.locks = @ + e[2]]
      BY <2>2
    <3>2. e[1] \in Nat /\ e[2] \in Nat
      OBVIOUS
    <3>3. PICK h \in Nat, l \in Nat : h = e[1] /\ l = e[2]
      BY <3>2
    <3>4. tree' = [tree EXCEPT !.edits = @ + 1, !.head = @ + h, !.locks = @ + l]
      BY <3>1, <3>3
    <3>5. tree = [edits |-> tree.edits, head |-> tree.head, locks |-> tree.locks, native |-> tree.native]
          /\ tree \in Trees
      BY DEF PinInv, Trees
    <3>6. tree' = [edits |-> tree.edits + 1, head |-> tree.head + h, locks |-> tree.locks + l,
                   native |-> tree.native]
      BY <3>4, <3>5
    <3>7. /\ tree.edits + 1 \in Nat /\ tree.head + h \in Nat /\ tree.locks + l \in Nat
          /\ tree.native \in {"committed", "written"}
      BY <3>5 DEF Trees
    <3>8. QED
      BY <3>6, <3>7 DEF Trees
  <2>3. QED
    BY <2>1, <2>2 DEF Edit, RemoveLock, vars, shared
<1>3. tree.edits \in Nat
  BY DEF PinInv, Trees
<1>4. ASSUME NEW b \in Builds PROVE Bound(b)'
  <2>1. Bound(b) /\ Files(b)' = Files(b)
    BY <1>1 DEF PinInv, Files
  <2>2. BoundSources(b)'
    <3>1. CASE proc[b].pc \in WithSources \cup {"enter"}
      <4>1. proc[b].sources.edits \in Nat /\ proc[b].sources.edits <= tree.edits
        BY <2>1, <3>1 DEF Bound, BoundSources, Trees
      <4>2. proc[b].sources.edits <= tree'.edits
        BY <1>2, <1>3, <4>1
      <4>3. QED
        BY <1>1, <2>1, <3>1, <4>2 DEF Bound, BoundSources
    <3>2. CASE proc[b].pc \notin WithSources \cup {"enter"}
      BY <1>1, <3>2 DEF BoundSources
    <3>3. QED
      BY <3>1, <3>2
  <2>3. BuiltFits(b)'
    <3>1. CASE proc[b].pc \in {"verify", "after"}
      <4>1. /\ built.tree.edits \in Nat /\ built.tree.edits <= tree.edits
            /\ built.tree.edits = tree.edits => built.tree = tree
        BY <2>1, <3>1 DEF Bound, BuiltFits
      <4>2. /\ built.tree.edits <= tree'.edits
            /\ built.tree.edits = tree'.edits => built.tree = tree'
        BY <1>2, <1>3, <4>1
      <4>3. QED
        BY <1>1, <2>1, <3>1, <4>2 DEF Bound, BuiltFits, Released
    <3>2. CASE proc[b].pc \notin {"verify", "after"}
      BY <1>1, <3>2 DEF BuiltFits
    <3>3. QED
      BY <3>1, <3>2
  <2>4. BoundInputs(b)' /\ ApkFits(b)' /\ IsServed(b)'
    BY <1>1, <2>1 DEF Bound, BoundInputs, ApkFits, HasApk, IsServed, Released
  <2>5. QED
    BY <1>1, <2>1, <2>2, <2>3, <2>4 DEF Bound
<1>5. QED
  BY <1>1, <1>2, <1>4, NothingWritten, DistKept DEF PinInv

LEMMA PinNext == Inv /\ PinInv /\ [Next]_vars => PinInv'
<1> SUFFICES ASSUME Inv, PinInv, [Next]_vars PROVE PinInv'
  OBVIOUS
<1>1. ASSUME NEW b \in Builds, Step(b) PROVE PinInv'
  <2>1. CASE Unlock(b)
    <3>1. /\ proc[b].pc # "idle" /\ End(b) /\ UNCHANGED <<tree, batch, served, dist>>
      BY <2>1 DEF Unlock, At, counted
    <3>2. QED
      BY <3>1, NothingWritten, PinEnd
  <2>2. QED
    BY <1>1, <2>1, PinOwn, PinRead, PinRecord, PinNative, PinCapture, PinEnter, PinMiddleSteps, PinBuild,
       PinVerify, PinAfter, PinSymbols, PinEvidence, PinRestored, PinPromote, PinLast DEF Step
<1>2. QED
  BY <1>1, PinStart, PinInterrupted, PinCrash, PinEdited DEF Next

(* What was promoted is the file that was verified, with the number of its    *)
(* batch, compiled from the sources the batch is bound to, whatever was       *)
(* edited meanwhile and however often the batch was tried; and the symbols of *)
(* a release are with Sentry (assert_sources, retain_verified_apk, the        *)
(* evidence).                                                               *)
THEOREM PromotedStaysPinned == Spec => []PromotedIsPinned
<1>1. Spec => [](Inv /\ PinInv)
  BY InvInit, InvNext, PinInit, PinNext, PTL DEF Spec
<1>2. PinInv => PromotedIsPinned
  <2> SUFFICES ASSUME PinInv PROVE PromotedIsPinned
    OBVIOUS
  <2>1. DOMAIN dist = Kinds /\ \A k \in Kinds : dist[k] # None => Pinned(k)
    BY DEF PinInv, DistPinned
  <2>2. QED
    BY <2>1 DEF PromotedIsPinned, Pinned
<1>3. QED
  BY <1>1, <1>2, PTL

-----------------------------------------------------------------------------
(* Types. *)

Configs == {"user", "prepared", "abi"}
Blocks == {"user", "flavor", "other"}

(* Whoever is within temporary_android_configuration has a script of its own   *)
(* to remove, even when earlier builds were cut short and left theirs.         *)
HoldsScript(b) ==
    /\ proc[b].pc \in Within => inits >= 1 /\ proc[b].config \in Configs
    /\ proc[b].pc \in Within \cup {"pubspec"} => proc[b].block \in Blocks

FilesTyped ==
    /\ lock \in BOOLEAN /\ inits \in Nat
    /\ config \in Configs /\ block \in Blocks
    /\ \A b \in Builds : HoldsScript(b)

LEMMA TypesFollow == ASSUME Inv, FilesTyped PROVE TypeOK
<1>1. DOMAIN proc = Builds /\ DOMAIN batch = Batches
  BY DEF Inv, ProcsShaped, BatchesShaped
<1> QED
  BY <1>1 DEF Inv, NumberAhead, FilesTyped, Configs, Blocks, TypeOK

LEMMA TypedInit == Init => FilesTyped
<1> SUFFICES ASSUME Init PROVE FilesTyped
  OBVIOUS
<1>1. \A b \in Builds : proc[b].pc = "idle"
  BY IdleShape DEF Init
<1> QED
  BY <1>1, LabelKinds DEF Init, FilesTyped, HoldsScript, Configs, Blocks

(* The other processes are idle: what matters is the one that takes the step. *)
LEMMA TypedStep ==
    ASSUME Inv, FilesTyped, NEW b \in Builds, proc[b].pc # "idle",
           \A c \in Builds \ {b} : proc'[c] = proc[c],
           lock' \in BOOLEAN, inits' \in Nat, config' \in Configs, block' \in Blocks, HoldsScript(b)'
    PROVE  FilesTyped'
<1>1. \A c \in Builds \ {b} : proc'[c].pc = "idle"
  BY Shapes
<1>2. \A c \in Builds \ {b} : HoldsScript(c)'
  BY <1>1, LabelKinds DEF HoldsScript
<1> QED
  BY <1>2 DEF FilesTyped

(* Steps that leave the files alone, or change them within. *)
LEMMA TypedAlone ==
    ASSUME Inv, FilesTyped, NEW b \in Builds, proc[b].pc # "idle",
           \A c \in Builds \ {b} : proc'[c] = proc[c],
           proc'[b].pc \in Within => /\ proc[b].pc \in Within
                                     /\ proc'[b].config = proc[b].config /\ proc'[b].block = proc[b].block,
           proc'[b].pc # "pubspec",
           UNCHANGED <<lock, inits>>, config' \in Configs, block' \in Blocks
    PROVE  FilesTyped'
<1>1. lock' \in BOOLEAN /\ inits' \in Nat
  BY DEF FilesTyped
<1>2. HoldsScript(b)'
  BY DEF FilesTyped, HoldsScript
<1> QED
  BY <1>1, <1>2, TypedStep

(* Going on, or failing, on the same side. *)
LEMMA TypedGo ==
    ASSUME Inv, FilesTyped, NEW b \in Builds, proc[b].pc # "idle", Error(b) \/ \E pc \in Labels : Go(b, pc),
           proc'[b].pc \in Within => proc[b].pc \in Within, proc'[b].pc # "pubspec",
           UNCHANGED <<lock, inits>>, config' \in Configs, block' \in Blocks
    PROVE  FilesTyped'
<1>1. /\ \A c \in Builds \ {b} : proc'[c] = proc[c]
      /\ proc'[b].config = proc[b].config /\ proc'[b].block = proc[b].block
  BY Errs, Goes DEF Keeps
<1> QED
  BY <1>1, TypedAlone

LEMMA TypedError ==
    ASSUME Inv, FilesTyped, NEW b \in Builds, proc[b].pc # "idle", Error(b),
           UNCHANGED <<lock, inits>>, config' \in Configs, block' \in Blocks
    PROVE  FilesTyped'
<1>1. proc'[b].pc \in {"restore", "unlock"} /\ (proc'[b].pc = "restore" => proc[b].pc \in Inside)
  BY Errs
<1>2. (proc'[b].pc \in Within => proc[b].pc \in Within) /\ proc'[b].pc # "pubspec"
  BY <1>1, LabelKinds
<1> QED
  BY <1>2, TypedGo

LEMMA TypedMiddle ==
    ASSUME Inv, FilesTyped, NEW b \in Builds,
           \/ Own(b) \/ RecordInputs(b) \/ Made(b) \/ Resolve(b) \/ Prepare(b) \/ Preflight(b) \/ SetAbi(b)
           \/ Build(b) \/ Verify(b) \/ Symbols(b) \/ Promote(b) \/ Report(b) \/ Count(b) \/ StepFails(b)
    PROVE  FilesTyped'
<1> USE DEF At
<1>1. UNCHANGED <<lock, inits>> /\ config' \in Configs /\ block' \in Blocks /\ proc[b].pc # "idle"
  BY DEF FilesTyped, Configs, Blocks, Own, RecordInputs, Made, Resolve, Prepare, Preflight, SetAbi, Build,
     Verify, Symbols, Promote, Report, Count, StepFails, shared, counted, Inside
<1>2. CASE Error(b)
  BY <1>1, <1>2, TypedError
<1>3. CASE ~Error(b)
  <2>1. \/ \E pc \in {"inputs", "native", "report", "count", "unlock"} : Go(b, pc)
        \/ (proc[b].pc \in Within /\ \E pc \in Inside : Go(b, pc))
    BY <1>3 DEF Own, RecordInputs, Made, Resolve, Prepare, Preflight, SetAbi, Build, Verify, Symbols, Promote,
       Report, Count, StepFails, Inside, Within
  <2>2. CASE \E pc \in {"inputs", "native", "report", "count", "unlock"} : Go(b, pc)
    <3>1. PICK pc \in {"inputs", "native", "report", "count", "unlock"} : Go(b, pc)
      BY <2>2
    <3>2. proc'[b].pc = pc
      BY <3>1, Goes
    <3>3. pc \in Labels /\ pc \notin Within /\ pc # "pubspec"
      BY <3>1 DEF Labels, Outside, Within, Inside
    <3> QED
      BY <1>1, <3>1, <3>2, <3>3, TypedGo
  <2>3. CASE proc[b].pc \in Within /\ \E pc \in Inside : Go(b, pc)
    <3>1. PICK pc \in Inside : Go(b, pc)
      BY <2>3
    <3>2. proc'[b].pc = pc
      BY <3>1, Goes
    <3>3. pc \in Labels /\ pc # "pubspec"
      BY <3>1, LabelKinds DEF Labels
    <3> QED
      BY <1>1, <2>3, <3>1, <3>2, <3>3, TypedGo
  <2> QED
    BY <2>1, <2>2, <2>3
<1> QED
  BY <1>2, <1>3

(* Steps that set more than the label. *)
LEMMA TypedSets ==
    ASSUME Inv, FilesTyped, NEW b \in Builds,
           ReadInputs(b) \/ NativeInputs(b) \/ Capture(b) \/ After(b) \/ CheckEvidence(b)
    PROVE  FilesTyped'
<1> USE DEF At
<1>1. UNCHANGED <<lock, inits>> /\ config' \in Configs /\ block' \in Blocks /\ proc[b].pc # "idle"
  BY DEF FilesTyped, ReadInputs, NativeInputs, Capture, After, CheckEvidence, shared
<1>2. CASE Error(b)
  BY <1>1, <1>2, TypedError
<1>3. CASE ~Error(b) /\ (ReadInputs(b) \/ NativeInputs(b) \/ Capture(b))
  <2>1. (\A c \in Builds \ {b} : proc'[c] = proc[c]) /\ proc'[b].pc \in {"record", "native", "capture", "enter"}
    BY <1>3, ReadSets, NativeSets, CaptureSets DEF Capture
  <2>2. proc'[b].pc \notin Within /\ proc'[b].pc # "pubspec"
    BY <2>1 DEF Within, Inside
  <2> QED
    BY <1>1, <2>1, <2>2, TypedAlone
<1>4. CASE ~Error(b) /\ (After(b) \/ CheckEvidence(b))
  <2>1. proc[b].pc \in Within
    BY <1>4 DEF After, CheckEvidence, Within, Inside
  <2>2. /\ \A c \in Builds \ {b} : proc'[c] = proc[c]
        /\ proc'[b].config = proc[b].config /\ proc'[b].block = proc[b].block
        /\ proc'[b].pc \in {"symbols", "restore"}
    BY <1>4, RetainSets, DebugSets, EvidenceSets DEF After, CheckEvidence
  <2> QED
    BY <1>1, <2>1, <2>2, TypedAlone
<1> QED
  BY <1>2, <1>3, <1>4

LEMMA TypedEnter == ASSUME Inv, FilesTyped, NEW b \in Builds, Enter(b) PROVE FilesTyped'
<1>1. proc[b].pc = "enter" /\ inits' = inits + 1 /\ UNCHANGED <<lock, config, block>>
  BY DEF Enter, At
<1>2. /\ \A c \in Builds \ {b} : proc'[c] = proc[c]
      /\ proc'[b].config = config /\ proc'[b].block = block /\ proc'[b].pc = "made"
  BY EnterSets
<1>3. inits' \in Nat /\ inits' >= 1
  BY <1>1 DEF FilesTyped
<1>4. HoldsScript(b)'
  BY <1>2, <1>3 DEF FilesTyped, HoldsScript
<1> QED
  BY <1>1, <1>2, <1>3, <1>4, TypedStep DEF FilesTyped

LEMMA TypedRestored == ASSUME Inv, FilesTyped, NEW b \in Builds, Restore(b) PROVE FilesTyped'
<1>1. /\ proc[b].pc = "restore" /\ inits' = inits - 1 /\ config' = proc[b].config
      /\ UNCHANGED <<lock, block>> /\ Go(b, "pubspec")
  BY DEF Restore, At
<1>2. /\ \A c \in Builds \ {b} : proc'[c] = proc[c]
      /\ proc'[b].block = proc[b].block /\ proc'[b].pc = "pubspec"
  BY <1>1, Goes DEF Keeps
<1>3. inits >= 1 /\ inits \in Nat /\ proc[b].config \in Configs /\ proc[b].block \in Blocks
  BY <1>1, LabelKinds DEF FilesTyped, HoldsScript
<1>4. inits' \in Nat /\ HoldsScript(b)'
  BY <1>1, <1>2, <1>3, LabelKinds DEF HoldsScript
<1> QED
  BY <1>1, <1>2, <1>3, <1>4, TypedStep DEF FilesTyped

LEMMA TypedPubspec == ASSUME Inv, FilesTyped, NEW b \in Builds, RestorePubspec(b) PROVE FilesTyped'
<1>1. /\ proc[b].pc = "pubspec" /\ UNCHANGED <<lock, config, inits>>
      /\ block' \in {block, proc[b].block} /\ \E pc \in {"promote", "unlock"} : Go(b, pc)
  BY DEF RestorePubspec, At
<1>2. (\A c \in Builds \ {b} : proc'[c] = proc[c]) /\ proc'[b].pc \in {"promote", "unlock"}
  BY <1>1, Goes DEF Keeps
<1>3. proc'[b].pc \notin Within /\ proc'[b].pc # "pubspec"
  BY <1>2 DEF Within, Inside
<1>4. config' \in Configs /\ block' \in Blocks
  BY <1>1 DEF FilesTyped, HoldsScript
<1> QED
  BY <1>1, <1>2, <1>3, <1>4, TypedAlone

LEMMA TypedEnd ==
    ASSUME Inv, FilesTyped, NEW b \in Builds, proc[b].pc # "idle", End(b), lock' \in BOOLEAN,
           UNCHANGED <<config, block, inits>>
    PROVE  FilesTyped'
<1>1. proc'[b] = Idle /\ \A c \in Builds \ {b} : proc'[c] = proc[c]
  BY Shapes DEF End
<1>2. HoldsScript(b)'
  BY <1>1, IdleShape, LabelKinds DEF HoldsScript
<1> QED
  BY <1>1, <1>2, TypedStep DEF FilesTyped

LEMMA TypedStart == ASSUME Inv, FilesTyped, NEW b \in Builds, Start(b) PROVE FilesTyped'
<1>1. ~lock /\ lock' = TRUE /\ UNCHANGED <<config, block, inits>>
  BY DEF Start
<1>2. \A c \in Builds : proc[c].pc = "idle"
  BY <1>1 DEF Inv, OneBuilds
<1>3. proc'[b].pc = "locked" /\ \A c \in Builds \ {b} : proc'[c] = proc[c]
  <2>1. PICK g \in Goals, d \in Batches, n \in {0, 2} :
           proc' = [proc EXCEPT ![b] = [Idle EXCEPT !.pc = "locked", !.goal = g, !.batch = d, !.asked = n]]
    BY DEF Start
  <2> DEFINE new == [Idle EXCEPT !.pc = "locked", !.goal = g, !.batch = d, !.asked = n]
  <2>2. proc' = [proc EXCEPT ![b] = new] /\ new.pc = "locked"
    BY <2>1 DEF Idle
  <2> HIDE DEF new
  <2> QED
    BY <2>2, Shapes
<1>4. \A c \in Builds : proc'[c].pc \in {"idle", "locked"}
  BY <1>2, <1>3
<1>5. \A c \in Builds : proc'[c].pc \notin Within \cup {"pubspec"}
  BY <1>4 DEF Within, Inside
<1>6. \A c \in Builds : HoldsScript(c)'
  BY <1>5 DEF HoldsScript
<1> QED
  BY <1>1, <1>6 DEF FilesTyped

LEMMA TypedInterrupted == ASSUME Inv, FilesTyped, NEW b \in Builds, Interrupt(b) PROVE FilesTyped'
<1>1. proc[b].pc # "idle" /\ UNCHANGED <<lock, config, block, inits>>
  BY DEF Interrupt, At
<1>2. lock' \in BOOLEAN /\ config' \in Configs /\ block' \in Blocks
  BY <1>1 DEF FilesTyped
<1> QED
  BY <1>1, <1>2, TypedEnd, TypedError DEF Interrupt

LEMMA TypedWorld == ASSUME Inv, FilesTyped, Crash \/ Edit \/ RemoveLock \/ UNCHANGED vars PROVE FilesTyped'
<1>1. /\ lock' = lock \/ lock' = FALSE
      /\ UNCHANGED <<config, inits>> /\ (block' = block \/ block' = "other")
      /\ UNCHANGED proc \/ proc' = [b \in Builds |-> Idle]
  BY DEF Crash, Edit, RemoveLock, vars, shared
<1>2. \A b \in Builds : HoldsScript(b)'
  BY <1>1, IdleShape, LabelKinds DEF FilesTyped, HoldsScript
<1>3. lock' \in BOOLEAN
  BY <1>1, Zenon DEF FilesTyped
<1>4. block' \in Blocks /\ inits' \in Nat /\ config' \in Configs
  BY <1>1 DEF FilesTyped, Blocks
<1> QED
  BY <1>2, <1>3, <1>4 DEF FilesTyped

LEMMA TypedNext == Inv /\ FilesTyped /\ [Next]_vars => FilesTyped'
<1> SUFFICES ASSUME Inv, FilesTyped, [Next]_vars PROVE FilesTyped'
  OBVIOUS
<1>1. ASSUME NEW b \in Builds, Unlock(b) PROVE FilesTyped'
  <2>1. proc[b].pc # "idle" /\ End(b) /\ lock' \in BOOLEAN /\ UNCHANGED <<config, block, inits>>
    BY <1>1 DEF Unlock, At
  <2> QED
    BY <2>1, TypedEnd
<1>2. ASSUME NEW b \in Builds, Step(b) PROVE FilesTyped'
  BY <1>1, <1>2, TypedMiddle, TypedSets, TypedEnter, TypedRestored, TypedPubspec DEF Step
<1> QED
  BY <1>2, TypedStart, TypedInterrupted, TypedWorld DEF Next

(* The lock, the counter, the files and the batches keep their types; however *)
(* many builds are cut short, a build only removes a Gradle script that is     *)
(* there (temporary_android_configuration).                                   *)
THEOREM TypeCorrect == Spec => []TypeOK
<1>1. Spec => [](Inv /\ FilesTyped)
  BY InvInit, InvNext, TypedInit, TypedNext, PTL DEF Spec
<1> QED
  BY <1>1, TypesFollow, PTL

================================================================================
