----------------------------- MODULE AndroidBuild -----------------------------
(***************************************************************************)
(* main of tool/build_android_local.py: a brand APK is built, verified and  *)
(* finished on a developer's machine.  Builds started at the same time meet *)
(* at a lock file; the sources are edited or committed while a build runs;  *)
(* a build is interrupted (SIGTERM, Ctrl-C), one of its programs fails, or  *)
(* the machine stops, and the build is tried again in its batch directory   *)
(* or started afresh in another.                                            *)
(*                                                                         *)
(* tree stands for the contents of every input capture_sources hashes; an   *)
(* edit never brings earlier contents back.  block is the marked asset      *)
(* entry of pubspec.yaml, which the hash leaves out.                        *)
(***************************************************************************)
EXTENDS Naturals, FiniteSets, TLC

CONSTANTS
    Builds,        \* processes that may run the program
    Batches,       \* batch directories
    Configured,    \* the flavor has a Sentry DSN
    None, Torn,    \* no file; a file cut short
    MaxRuns, MaxEdits, MaxStops    \* bounds: starts, edits, interrupts and crashes

Seed == 1                      \* scripts/build_number.<flavor>.txt
Goals == {"release", "audit_only", "no_sentry", "debug"}

(* What a file of a batch can hold: a snapshot of the sources, the inputs, or  *)
(* an evidence.                                                             *)
Trees == [edits : Nat, head : Nat, locks : Nat, native : {"committed", "written"}]
Contents ==
    Trees \cup [goal : Goals, number : Nat, head : Nat]
          \cup [status : {"audited", "uploaded_and_processed"}, number : Nat, head : Nat]

ASSUME AndroidAssumption ==
    /\ None # Torn /\ Configured \in BOOLEAN
    /\ None \notin Contents /\ Torn \notin Contents
    /\ {MaxRuns, MaxEdits, MaxStops} \subseteq Nat

VARIABLES
    lock,          \* android/.xfl-local-build.lock exists
    counter,       \* the ignored local counter, 0 when it does not exist
    tree,          \* the compilation inputs, see above
    config,        \* local.properties and the keystore: "user", "prepared" or "abi"
    block,         \* "user", "flavor" or "other"
    inits,         \* Gradle init scripts of this program
    built,         \* the APK in the build directory
    batch,         \* the files of each batch directory
    dist,          \* the promoted APK of each kind
    served,        \* builds whose symbols Sentry has processed
    completed,     \* history: the number and build of each completed release
    proc,          \* what each process is doing
    cut,           \* history: a build was stopped where it could not clean up
    runs, edits, stops

shared == <<lock, counter, tree, config, block, inits, built, batch, dist, served>>
vars == <<shared, completed, proc, cut, runs, edits, stops>>

NoBatch == [inputs |-> None, sources |-> None, retained |-> None, evidence |-> None]
Idle == [pc |-> "idle", goal |-> "debug", batch |-> None, asked |-> 0, number |-> 0, head |-> 0, locks |-> 0,
         sources |-> None, config |-> "user", block |-> "user", apk |-> None, ok |-> FALSE]

Init ==
    /\ lock = FALSE /\ counter = 0
    /\ tree \in {[edits |-> 0, head |-> 0, locks |-> 0, native |-> n] : n \in {"committed", "written"}}
    /\ config = "user" /\ block = "user" /\ inits = 0
    /\ built = None /\ batch = [d \in Batches |-> NoBatch]
    /\ dist = [k \in {"release", "diagnostic", "debug"} |-> None]
    /\ served = {} /\ completed = {} /\ cut = FALSE
    /\ proc = [b \in Builds |-> Idle]
    /\ runs = 0 /\ edits = 0 /\ stops = 0

At(b, pc) == proc[b].pc = pc
Go(b, pc) == proc' = [proc EXCEPT ![b].pc = pc]
End(b) == proc' = [proc EXCEPT ![b] = Idle]
Files(b) == batch[proc[b].batch]
Write(b, file, value) == batch' = [batch EXCEPT ![proc[b].batch][file] = value]
Released(b) == proc[b].goal # "debug"
Diagnostic(b) == proc[b].goal \in {"audit_only", "no_sentry"}
counted == <<completed, cut, runs, edits, stops>>

(* Inside of temporary_android_configuration, an error first restores what it  *)
(* holds.                                                                   *)
Inside == {"resolve", "prepare", "preflight", "abi", "build", "verify", "after", "symbols", "evidence"}
Error(b) == Go(b, IF proc[b].pc \in Inside THEN "restore" ELSE "unlock")

(* capture_sources and assert_sources; the lockfiles are among the sources and *)
(* are also compared with what they were before the native inputs were made. *)
SameCommit(b) == tree.head = proc[b].sources.head
SourcesHold(b) == tree = proc[b].sources
LocksHold(b) == tree.locks = proc[b].locks

(* The lock file is made with O_EXCL; the process owns it a moment later.      *)
Start(b) ==
    /\ ~lock
    /\ At(b, "idle") /\ runs < MaxRuns
    /\ \E g \in Goals, d \in Batches, n \in {0, 2} :
          proc' = [proc EXCEPT ![b] = [Idle EXCEPT !.pc = "locked", !.goal = g, !.batch = d, !.asked = n]]
    /\ lock' = TRUE /\ runs' = runs + 1
    /\ UNCHANGED <<counter, tree, config, block, inits, built, batch, dist, served, completed, cut,
                   edits, stops>>

Own(b) == At(b, "locked") /\ Go(b, "inputs") /\ UNCHANGED <<shared, counted>>

Current == IF counter = 0 THEN Seed ELSE counter
Inputs(goal, number) == [goal |-> goal, number |-> number, head |-> tree.head]

(* A number is asked for, taken from the batch, or the next one; a release must *)
(* have a number above the last completed release.                          *)
Number(b) ==
    CASE proc[b].asked # 0 -> proc[b].asked
      [] proc[b].asked = 0 /\ Files(b).inputs # None -> Files(b).inputs.number
      [] OTHER -> Current + (IF Released(b) THEN 1 ELSE 0)
NumberRule(goal, number) == number >= Current /\ (goal # "debug" => number > Current)

(* read_local_build_number seeds the counter once; the inputs of a batch are   *)
(* fixed by its first run.                                                  *)
ReadInputs(b) ==
    /\ At(b, "inputs")
    /\ counter' = Current
    /\ IF Files(b).inputs = Torn THEN Error(b)
       ELSE LET n == Number(b)
                new == Files(b).inputs = None
            IN  IF NumberRule(proc[b].goal, n) /\ (new \/ Files(b).inputs = Inputs(proc[b].goal, n))
                THEN proc' = [proc EXCEPT ![b].pc = IF new THEN "record" ELSE "native", ![b].number = n,
                                          ![b].head = tree.head, ![b].asked = 0]
                ELSE Error(b)
    /\ UNCHANGED <<lock, tree, config, block, inits, built, batch, dist, served, counted>>

RecordInputs(b) ==
    /\ At(b, "record")
    /\ Write(b, "inputs", [goal |-> proc[b].goal, number |-> proc[b].number, head |-> proc[b].head])
    /\ Go(b, "native")
    /\ UNCHANGED <<lock, counter, tree, config, block, inits, built, dist, served, counted>>

(* The lockfiles are hashed and the native inputs are prepared.                *)
NativeInputs(b) ==
    /\ At(b, "native")
    /\ proc' = [proc EXCEPT ![b].pc = "capture", ![b].locks = tree.locks]
    /\ UNCHANGED <<shared, counted>>

(* The sources of the batch are those of its first run.                        *)
Capture(b) ==
    /\ At(b, "capture")
    /\ IF Files(b).sources = None
       THEN /\ Write(b, "sources", tree)
            /\ proc' = [proc EXCEPT ![b].pc = "enter", ![b].sources = tree]
       ELSE /\ IF Files(b).sources = tree
               THEN proc' = [proc EXCEPT ![b].pc = "enter", ![b].sources = tree]
               ELSE Error(b)
            /\ UNCHANGED batch
    /\ UNCHANGED <<lock, counter, tree, config, block, inits, built, dist, served, counted>>

(* temporary_android_configuration keeps the properties, the keystore and the  *)
(* asset block, and turns Crashlytics off for every Gradle build.           *)
Enter(b) ==
    /\ At(b, "enter")
    /\ proc' = [proc EXCEPT ![b].pc = "made", ![b].config = config, ![b].block = block]
    /\ inits' = inits + 1
    /\ UNCHANGED <<lock, counter, tree, config, block, built, batch, dist, served, counted>>

Made(b) == At(b, "made") /\ Go(b, "resolve") /\ UNCHANGED <<shared, counted>>

(* Strict resolution around flutter clean.                                     *)
Resolve(b) ==
    /\ At(b, "resolve")
    /\ built' = None
    /\ IF LocksHold(b) /\ SourcesHold(b) THEN Go(b, "prepare") ELSE Error(b)
    /\ UNCHANGED <<lock, counter, tree, config, block, inits, batch, dist, served, counted>>

(* prepare_flavor.dart selects the brand: its properties and keystore, its      *)
(* asset block, and the identity in build_config.yaml.  It may fail after    *)
(* some of it.                                                              *)
Prepare(b) ==
    /\ At(b, "prepare")
    /\ \E last \in 1..4 :
          /\ tree' = IF last > 1 THEN [tree EXCEPT !.native = "written"] ELSE tree
          /\ block' = IF last > 2 THEN "flavor" ELSE block
          /\ config' = IF last > 2 THEN "prepared" ELSE config
          /\ IF last = 4 THEN Go(b, IF Released(b) THEN "preflight" ELSE "abi") ELSE Error(b)
    /\ UNCHANGED <<lock, counter, inits, built, batch, dist, served, counted>>

Preflight(b) == At(b, "preflight") /\ Go(b, "abi") /\ UNCHANGED <<shared, counted>>

SetAbi(b) ==
    /\ At(b, "abi")
    /\ config' = "abi"
    /\ IF SourcesHold(b) THEN Go(b, "build") ELSE Error(b)
    /\ UNCHANGED <<lock, counter, tree, block, inits, built, batch, dist, served, counted>>

(* flutter build apk compiles what is there now; every build differs in its    *)
(* identifiers, and one may be flawed.                                      *)
Build(b) ==
    /\ At(b, "build")
    /\ \E flawed \in BOOLEAN :
          built' = [id |-> runs, batch |-> proc[b].batch, number |-> proc[b].number, tree |-> tree,
                    flawed |-> flawed]
    /\ Go(b, IF Released(b) THEN "verify" ELSE "after")
    /\ UNCHANGED <<lock, counter, tree, config, block, inits, batch, dist, served, counted>>

(* verify_apk checks the file against the fixed inputs and this build.         *)
Verified(apk, number) == ~apk.flawed /\ apk.number = number
Verify(b) ==
    /\ At(b, "verify")
    /\ IF Verified(built, proc[b].number) THEN Go(b, "after") ELSE Error(b)
    /\ UNCHANGED <<shared, counted>>

(* retain_verified_apk: a release goes on with its own copy of the APK, and    *)
(* an earlier symbol evidence of the batch is removed.                      *)
Retain(b) ==
    /\ batch' = [batch EXCEPT ![proc[b].batch].retained = built, ![proc[b].batch].evidence = None]
    /\ proc' = [proc EXCEPT ![b].pc = "symbols", ![b].apk = built]

After(b) ==
    /\ At(b, "after")
    /\ IF ~LocksHold(b) \/ ~SourcesHold(b) THEN Error(b) /\ UNCHANGED batch
       ELSE IF Released(b) THEN Retain(b)
       ELSE proc' = [proc EXCEPT ![b].pc = "restore", ![b].apk = built, ![b].ok = TRUE] /\ UNCHANGED batch
    /\ UNCHANGED <<lock, counter, tree, config, block, inits, built, dist, served, counted>>

(* postbuild_sentry_symbols.py ends well with or without an evidence; only     *)
(* with one has it audited, or uploaded, the symbols of this APK.           *)
Evidence(b) ==
    [status |-> IF proc[b].goal = "audit_only" THEN "audited" ELSE "uploaded_and_processed",
     number |-> proc[b].number, head |-> proc[b].head]
Symbols(b) ==
    /\ At(b, "symbols")
    /\ \/ /\ Configured /\ proc[b].goal # "no_sentry"
          /\ Write(b, "evidence", Evidence(b))
          /\ served' = IF proc[b].goal = "release" THEN served \cup {proc[b].apk.id} ELSE served
       \/ UNCHANGED <<batch, served>>
    /\ Go(b, "evidence")
    /\ UNCHANGED <<lock, counter, tree, config, block, inits, built, dist, counted>>

EvidenceHolds(b) == Configured /\ proc[b].goal # "no_sentry" => Files(b).evidence = Evidence(b)
CheckEvidence(b) ==
    /\ At(b, "evidence")
    /\ IF EvidenceHolds(b) /\ LocksHold(b) THEN proc' = [proc EXCEPT ![b].pc = "restore", ![b].ok = TRUE]
       ELSE Error(b)
    /\ UNCHANGED <<shared, counted>>

(* The configuration is put back however the build ended.                      *)
RestoreWhenDone(b) ==
    /\ At(b, "restore")
    /\ config' = IF proc[b].ok THEN proc[b].config ELSE config
    /\ inits' = inits - 1
    /\ Go(b, "pubspec")
    /\ UNCHANGED <<lock, counter, tree, block, built, batch, dist, served, counted>>
Restore(b) ==
    /\ At(b, "restore")
    /\ config' = proc[b].config
    /\ inits' = inits - 1
    /\ Go(b, "pubspec")
    /\ UNCHANGED <<lock, counter, tree, block, built, batch, dist, served, counted>>

(* Only the asset block is put back, and only when it is still the one that    *)
(* was put there: anything else is kept, and nothing is promoted.           *)
Conflict(b) == block # proc[b].block /\ block # "flavor"
RestorePubspec(b) ==
    /\ At(b, "pubspec")
    /\ block' = IF Conflict(b) THEN block ELSE proc[b].block
    /\ Go(b, IF proc[b].ok /\ ~Conflict(b) THEN "promote" ELSE "unlock")
    /\ UNCHANGED <<lock, counter, tree, config, inits, built, batch, dist, served, counted>>

Kind(b) == IF ~Released(b) THEN "debug" ELSE IF Diagnostic(b) THEN "diagnostic" ELSE "release"
Promote(b) ==
    /\ At(b, "promote")
    /\ IF SourcesHold(b) THEN dist' = [dist EXCEPT ![Kind(b)] = proc[b].apk] /\ Go(b, "report")
       ELSE Error(b) /\ UNCHANGED dist
    /\ UNCHANGED <<lock, counter, tree, config, block, inits, built, batch, served, counted>>

Report(b) ==
    /\ At(b, "report")
    /\ Go(b, IF Kind(b) = "release" THEN "count" ELSE "unlock")
    /\ UNCHANGED <<shared, counted>>

(* Only now does the counter take the number of this release.                  *)
CountAfresh(b) ==
    /\ At(b, "count")
    /\ counter' = Current
    /\ completed' = completed \cup {[number |-> proc[b].number, apk |-> proc[b].apk]}
    /\ Go(b, "unlock")
    /\ UNCHANGED <<lock, tree, config, block, inits, built, batch, dist, served, cut, runs, edits, stops>>
Count(b) ==
    /\ At(b, "count")
    /\ counter' = proc[b].number
    /\ completed' = completed \cup {[number |-> proc[b].number, apk |-> proc[b].apk]}
    /\ Go(b, "unlock")
    /\ UNCHANGED <<lock, tree, config, block, inits, built, batch, dist, served, cut, runs, edits, stops>>

Unlock(b) ==
    /\ At(b, "unlock")
    /\ lock' = FALSE /\ End(b)
    /\ UNCHANGED <<counter, tree, config, block, inits, built, batch, dist, served, counted>>

(* A program that was started ends with an error, or a file cannot be used.    *)
StepFails(b) ==
    /\ proc[b].pc \in Inside \cup {"inputs", "native", "capture", "enter", "promote"}
    /\ Error(b)
    /\ UNCHANGED <<shared, counted>>

(* write_json writes in place: what stops it may leave a file that cannot be   *)
(* read.                                                                    *)
CutShort(b) ==
    {batch} \cup
    (CASE At(b, "record") -> {[batch EXCEPT ![proc[b].batch].inputs = Torn]}
       [] At(b, "capture") /\ Files(b).sources = None -> {[batch EXCEPT ![proc[b].batch].sources = Torn]}
       [] OTHER -> {})

(* KeyboardInterrupt: before the lock is owned it stays; before the try of     *)
(* temporary_android_configuration, or within its finally, what is left is  *)
(* not put back.  In the last finally even the lock may stay.               *)
Interrupt(b) ==
    /\ ~At(b, "idle") /\ stops < MaxStops
    /\ stops' = stops + 1
    /\ IF proc[b].pc \in {"locked", "unlock"} THEN End(b) ELSE Error(b)
    /\ cut' = (cut \/ proc[b].pc \in {"made", "restore", "pubspec"})
    /\ batch' \in CutShort(b)
    /\ UNCHANGED <<lock, counter, tree, config, block, inits, built, dist, served, completed, runs, edits>>

(* The machine stops: every process ends where it is.                          *)
Crash ==
    /\ stops < MaxStops /\ \E b \in Builds : ~At(b, "idle")
    /\ stops' = stops + 1
    /\ cut' = TRUE
    /\ batch' \in UNION {CutShort(b) : b \in Builds}
    /\ proc' = [b \in Builds |-> Idle]
    /\ UNCHANGED <<lock, counter, tree, config, block, inits, built, dist, served, completed, runs, edits>>

(* Somebody edits a source, commits, resolves dependencies anew, or edits the  *)
(* asset block.                                                             *)
Edit ==
    /\ edits < MaxEdits
    /\ edits' = edits + 1
    /\ \/ /\ \E e \in {<<0, 0>>, <<0, 1>>, <<1, 0>>} :
                tree' = [tree EXCEPT !.edits = @ + 1, !.head = @ + e[1], !.locks = @ + e[2]]
          /\ UNCHANGED block
       \/ block' = "other" /\ UNCHANGED tree
    /\ UNCHANGED <<lock, counter, config, inits, built, batch, dist, served, completed, proc, cut, runs, stops>>

(* A lock that was left behind is removed by hand.                             *)
RemoveLock ==
    /\ lock /\ \A b \in Builds : At(b, "idle")
    /\ lock' = FALSE
    /\ UNCHANGED <<counter, tree, config, block, inits, built, batch, dist, served, completed, proc, cut,
                   runs, edits, stops>>

Step(b) ==
    \/ Own(b) \/ ReadInputs(b) \/ RecordInputs(b) \/ NativeInputs(b) \/ Capture(b) \/ Enter(b) \/ Made(b)
    \/ Resolve(b) \/ Prepare(b) \/ Preflight(b) \/ SetAbi(b) \/ Build(b) \/ Verify(b) \/ After(b)
    \/ Symbols(b) \/ CheckEvidence(b) \/ Restore(b) \/ RestorePubspec(b) \/ Promote(b) \/ Report(b)
    \/ Count(b) \/ Unlock(b) \/ StepFails(b)

Next ==
    \/ \E b \in Builds : Start(b) \/ Step(b) \/ Interrupt(b)
    \/ Crash \/ Edit \/ RemoveLock

Interchangeable == Permutations(Builds) \cup Permutations(Batches)

Spec == Init /\ [][Next]_vars
-----------------------------------------------------------------------------
(* Every variable keeps to its kind of values.                                   *)
TypeOK ==
    /\ lock \in BOOLEAN /\ counter \in Nat /\ inits \in Nat
    /\ config \in {"user", "prepared", "abi"} /\ block \in {"user", "flavor", "other"}
    /\ DOMAIN proc = Builds /\ DOMAIN batch = Batches

(* What was promoted is the file that was verified, with the number of its     *)
(* batch, compiled from the sources its batch is bound to whatever was       *)
(* edited meanwhile; and the APK of a release has its own symbols with        *)
(* Sentry, though earlier attempts of the batch left theirs (assert_sources, *)
(* retain_verified_apk, the evidence).                                      *)
PromotedIsPinned ==
    \A k \in DOMAIN dist : dist[k] # None =>
        LET apk == dist[k]
        IN  /\ apk.tree = batch[apk.batch].sources /\ apk.number = batch[apk.batch].inputs.number
            /\ k # "debug" => ~apk.flawed
            /\ k = "release" /\ Configured => apk.id \in served

(* No two completed releases have the same number, however their batches were  *)
(* retried or raced for the lock, and the counter has passed all of them      *)
(* (the number rule of main, write_local_build_number).                     *)
NumberOnce ==
    /\ \A c, d \in completed : c.number = d.number => c = d
    /\ \A c \in completed : c.number <= counter

(* When no build runs, and none was stopped where it could not clean up, the   *)
(* developer has their own configuration, the asset block as it was or as    *)
(* they edited it, and Gradle reports crashes again                         *)
(* (temporary_android_configuration).                                       *)
UserFilesAreBack ==
    (\A b \in Builds : At(b, "idle")) /\ ~cut => config = "user" /\ inits = 0 /\ block # "flavor"
================================================================================
