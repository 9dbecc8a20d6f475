----------------------------- MODULE ReleaseSymbols -----------------------------
(***************************************************************************)
(* The debug symbols of an Android, Linux or Windows release               *)
(* (tool/postbuild_sentry_symbols.py and the preparation and audit it      *)
(* starts).  The preparation pairs the modules of the final packages with  *)
(* the unstripped files the build left behind and writes a manifest; the   *)
(* audit believes neither the manifest nor the preparation and compares    *)
(* both with the shipped modules; the coordinator records the outcome.     *)
(* Between two steps a module may be rebuilt, lost or added, a companion   *)
(* damaged, a row of a manifest lost; any program may die, and an audit     *)
(* outlive the coordinator that started it.                                *)
(***************************************************************************)
EXTENDS Naturals, FiniteSets, TLC

CONSTANTS
    Packages,      \* the APKs, or the directories of a Linux bundle
    Abis,          \* Android's ABIs
    Desktop,       \* the architecture of a Linux or Windows build
    MaxRuns,       \* the bound on runs of the coordinator
    MaxChanges     \* the bound on what goes wrong between its steps

ASSUME SymbolsAssumption ==
    /\ Packages \subseteq Nat /\ Packages # {} /\ IsFiniteSet(Packages) /\ IsFiniteSet(Abis)
    /\ {MaxRuns, MaxChanges} \subseteq Nat

(* core: libclash.so or FlClashCore; helper: the desktop service; plugin:    *)
(* libflutter.so, a CMake plugin or the tutorial plugin; sentry: the        *)
(* libraries of the prefab or the Windows plugin; libapp: Dart's code.      *)
Names == {"runner", "core", "rust", "helper", "sentry", "plugin", "libapp"}
Architectures == Abis \cup {Desktop}
(* A build is named by its build id; 0 has none. *)
Builds == 0..2
Debug == [build: Builds, lines: BOOLEAN, text: BOOLEAN, unwind: BOOLEAN]
Success == {"audited", "uploaded_and_processed"}
NoReport == [status |-> "none", run |-> 0, orphaned |-> FALSE]

VARIABLES
    platform, expected,   \* --platform, --expected-abi
    shipped,      \* the build of each module in the packages or the bundle, as extracted
    local,        \* the unstripped file, or PDB, of each module the build left behind
    declared,     \* Linux, Windows: the targets of the CMake manifest
    splits,       \* Dart's split debug information for each architecture
    artifacts,    \* the manifest's companions and the copies each is of: none, no manifest
    required,     \* the manifest's required modules
    limits,       \* the manifest's limitations
    companions,   \* the .debug files, and the copy of the Windows helper's PDB
    prepared,     \* how the last preparation that touched the manifest ended
    pc, upload,   \* the coordinator; not --audit-only
    uploads,      \* what the audit of this run has accepted
    evidence,     \* the status in the report, its run, and whether the coordinator was gone by then
    orphans,      \* the uploaders that outlived their coordinator
    runs, changes

inputs == <<platform, expected, shipped, local, declared, splits>>
manifest == <<artifacts, required, limits, companions>>
coordinator == <<pc, upload, uploads, evidence, orphans, runs>>
symbolsVars == <<inputs, manifest, prepared, coordinator, changes>>

EmptyMap == [x \in {} |-> 0]
Without(f, x) == [y \in DOMAIN f \ {x} |-> f[y]]

SymbolsTypeOK ==
    /\ platform \in {"android", "linux", "windows"} /\ expected \subseteq Abis
    /\ DOMAIN shipped \subseteq Packages \X Architectures \X Names
    /\ \A m \in DOMAIN shipped : shipped[m] \in Builds
    /\ DOMAIN local \cup DOMAIN companions \cup DOMAIN artifacts \cup required \cup limits
           \subseteq Names \X Architectures
    /\ \A m \in DOMAIN local : local[m] \in Debug
    /\ \A m \in DOMAIN companions : companions[m] \in Debug
    /\ \A m \in DOMAIN artifacts : artifacts[m] \subseteq Packages
    /\ declared \subseteq Names
    /\ DOMAIN splits \subseteq Architectures /\ \A a \in DOMAIN splits : splits[a] \in Debug
    /\ prepared \in {"never", "begun", "done"}
    /\ pc \in {"idle", "configure", "prepare", "preparing", "audit", "complete", "fail",
               "succeeded", "skipped", "failed"}
    /\ upload \in BOOLEAN
    /\ uploads \subseteq (Names \cup {"split"}) \X Architectures
    /\ evidence \in [status : Success \cup {"none", "skipped", "failed"}, run : 0..MaxRuns,
                     orphaned : BOOLEAN]
    /\ orphans \subseteq [run : 1..MaxRuns, upload : BOOLEAN]
    /\ runs \in 0..MaxRuns /\ changes \in 0..MaxChanges

ArchesOf(p) == IF p = "android" THEN Abis ELSE {Desktop}
NamesOf(p) ==
    Names \ CASE p = "android" -> {"runner", "helper"}
              [] p = "linux" -> {"sentry"}
              [] p = "windows" -> {"core"}
PackagesOf(p) == IF p = "windows" THEN {CHOOSE k \in Packages : \A j \in Packages : k <= j} ELSE Packages
Unstripped(b) == [build |-> b, lines |-> TRUE, text |-> TRUE, unwind |-> TRUE]
DebugOnly(b) == [Unstripped(b) EXCEPT !.text = FALSE]

SymbolsInit ==
    /\ platform \in {"android", "linux", "windows"}
    /\ expected \in IF platform = "android" THEN {{}, Abis} ELSE {{}}
    /\ shipped = [m \in PackagesOf(platform) \X ArchesOf(platform) \X NamesOf(platform) |-> 1]
    /\ local = [m \in (NamesOf(platform) \ {"libapp"}) \X ArchesOf(platform) |->
                    IF platform = "windows" THEN DebugOnly(1) ELSE Unstripped(1)]
    /\ declared = CASE platform = "android" -> {}
                     [] platform = "linux" -> {"runner", "plugin"}
                     [] platform = "windows" -> {"runner", "plugin", "sentry"}
    /\ splits = [a \in ArchesOf(platform) |-> DebugOnly(1)]
    /\ artifacts = EmptyMap /\ required = {} /\ limits = {} /\ companions = EmptyMap
    /\ prepared = "never"
    /\ pc = "idle" /\ upload = FALSE /\ uploads = {}
    /\ evidence = NoReport /\ orphans = {} /\ runs = 0 /\ changes = 0

-----------------------------------------------------------------------------
(* What happens to the files between two steps. *)

Spoiled(f) == {[f EXCEPT !.build = 2], [f EXCEPT !.lines = FALSE], [f EXCEPT !.text = ~f.text],
               [f EXCEPT !.unwind = FALSE]}

ModulesChange ==
    \E m \in DOMAIN shipped :
        \/ shipped' = Without(shipped, m)
        \/ \E b \in Builds \ {shipped[m]} : shipped' = [shipped EXCEPT ![m] = b]

LocalFilesChange ==
    \E m \in DOMAIN local :
        \/ local' = Without(local, m)
        \/ \E f \in {[local[m] EXCEPT !.build = 2], [local[m] EXCEPT !.lines = FALSE]} :
               local' = [local EXCEPT ![m] = f]

SplitsChange ==
    \E a \in DOMAIN splits :
        \/ splits' = Without(splits, a)
        \/ \E f \in Spoiled(splits[a]) : splits' = [splits EXCEPT ![a] = f]

CompanionsChange ==
    \E m \in DOMAIN companions :
        \/ companions' = Without(companions, m)
        \/ \E f \in Spoiled(companions[m]) : companions' = [companions EXCEPT ![m] = f]

Change ==
    /\ pc \in {"audit", "idle"}
    /\ changes < MaxChanges
    /\ changes' = changes + 1
    /\ \/ ModulesChange /\ UNCHANGED <<local, declared, splits, manifest>>
       \/ LocalFilesChange /\ UNCHANGED <<shipped, declared, splits, manifest>>
       \/ SplitsChange /\ UNCHANGED <<shipped, local, declared, manifest>>
       \/ CompanionsChange
          /\ UNCHANGED <<shipped, local, declared, splits, artifacts, required, limits>>
       \/ /\ \E n \in declared : declared' = declared \ {n}
          /\ UNCHANGED <<shipped, local, splits, manifest>>
       \/ /\ \E m \in DOMAIN artifacts :
                 artifacts' = Without(artifacts, m) /\ required' \in {required, required \ {m}}
          /\ UNCHANGED <<shipped, local, declared, splits, limits, companions>>
       \/ /\ \E m \in DOMAIN artifacts : limits' = limits \cup {m}
          /\ UNCHANGED <<shipped, local, declared, splits, artifacts, required, companions>>
    /\ UNCHANGED <<platform, expected, prepared, coordinator>>

-----------------------------------------------------------------------------
(* What both the preparation and the audit find out about the packages. *)

Holds(k, a, n) == <<k, a, n>> \in DOMAIN shipped
(* Directories of an APK that only hold transitive libraries do not count. *)
Flutter(k, a) == platform = "android" => Holds(k, a, "libapp") \/ Holds(k, a, "plugin")
Places == {x \in PackagesOf(platform) \X ArchesOf(platform) : Flutter(x[1], x[2])}
Copies(n, a) == {k \in PackagesOf(platform) : Holds(k, a, n) /\ Flutter(k, a)}
BuildsOf(n, a) == {shipped[<<k, a, n>>] : k \in Copies(n, a)}
Bundled == {n \in Names : Copies(n, Desktop) # {}}
Found == {x[2] : x \in Places}
Smallest(S) == CHOOSE k \in S : \A j \in S : k <= j

HasLines(m, b) == m \in DOMAIN local /\ local[m].build = b /\ b # 0 /\ local[m].lines

(* collect_linux_inventory: the copies of a module are the same, and a       *)
(* module with matching local debug information may not be undeclared.      *)
LinuxInventory ==
    /\ \A n \in Bundled :
           Cardinality(Copies(n, Desktop)) = 1 \/ \E b \in Builds \ {0} : BuildsOf(n, Desktop) = {b}
    /\ {"runner", "rust"} \subseteq Bundled
    /\ "runner" \in declared
    /\ \A n \in Bundled \ (declared \cup {"rust", "core", "helper", "libapp"}) :
           ~ \E b \in BuildsOf(n, Desktop) : HasLines(<<n, Desktop>>, b)

LinuxRequired == {"runner", "rust"} \cup (Bundled \cap (declared \cup {"core", "helper"}))

-----------------------------------------------------------------------------
(* The preparation of the ELF companions. *)

(* inventory: every APK is inspected before any of it is prepared. *)
AndroidInventory ==
    /\ \A x \in Places : \A n \in {"core", "rust"} : Holds(x[1], x[2], n)
    /\ \A n \in {"core", "rust", "sentry"}, a \in Abis : 0 \notin BuildsOf(n, a)
    /\ Found # {} /\ expected \in {{}, Found}

MustPair(n) ==
    IF platform = "android" THEN n \in {"core", "rust", "sentry"} ELSE n \in LinuxRequired

(* The candidates of a Linux plugin come from the CMake manifest. *)
HasCandidates(n) == platform = "linux" /\ n = "plugin" => n \in declared
Pairs(k, n, a) == HasCandidates(n) /\ HasLines(<<n, a>>, shipped[<<k, a, n>>])
Paired(n, a) == {k \in Copies(n, a) : Pairs(k, n, a)}

(* add: a required module must be paired; the copies of a paired one must    *)
(* be the same.                                                             *)
Conflicts(n, a) ==
    IF MustPair(n) THEN Paired(n, a) # Copies(n, a)
    ELSE /\ Paired(n, a) # {}
         /\ \E k \in Copies(n, a) :
                /\ k > Smallest(Paired(n, a))
                /\ shipped[<<k, a, n>>] \notin {0, shipped[<<Smallest(Paired(n, a)), a, n>>]}

Modules == {m \in (Names \ {"libapp"}) \X ArchesOf(platform) : Copies(m[1], m[2]) # {}}

Prepares ==
    /\ IF platform = "android" THEN AndroidInventory ELSE LinuxInventory /\ "core" \in Bundled
    /\ \A m \in Modules : ~Conflicts(m[1], m[2])
    /\ \E m \in Modules : Paired(m[1], m[2]) # {}

CopiesOf(n, a) ==
    IF platform = "android" THEN {Smallest(Paired(n, a))} ELSE Copies(n, a)

WritesManifest ==
    LET paired == {m \in Modules : Paired(m[1], m[2]) # {}}
    IN  /\ artifacts' = [m \in paired |-> CopiesOf(m[1], m[2])]
        /\ required' = {m \in Modules : MustPair(m[1])}
        /\ limits' = {m \in Modules : ~MustPair(m[1]) /\ Paired(m[1], m[2]) # Copies(m[1], m[2])}
               \cup {m \in {"libapp"} \X ArchesOf(platform) : Copies(m[1], m[2]) # {}}
               \cup {m \in {"core", "helper"} \X {Desktop} : platform = "linux" /\ m[1] \in Bundled}
        /\ companions' = [m \in paired |-> DebugOnly(local[m].build)]

(* prepare_windows_assets: the Rust library and the helper join the CMake     *)
(* targets, the helper with a copy of its PDB.                              *)
PreparesWindows ==
    /\ "runner" \in declared
    /\ \A n \in {"rust", "helper"} :
           /\ n \in Bundled /\ <<n, Desktop>> \in DOMAIN local
           /\ local[<<n, Desktop>>].build # 0
           /\ BuildsOf(n, Desktop) = {local[<<n, Desktop>>].build}

AddsTargets ==
    /\ declared' = declared \cup {"rust", "helper"}
    /\ companions' = [m \in {<<"helper", Desktop>>} |-> local[m]]
    /\ UNCHANGED <<artifacts, required, limits>>

(* A preparation of ELF companions empties its directory, but only after it   *)
(* has found objcopy and the directory safe: one that fails before leaves   *)
(* the older manifest.                                                      *)
PrepareFails ==
    /\ pc = "prepare" /\ pc' = "fail"
    /\ UNCHANGED <<inputs, manifest, prepared, upload, uploads, evidence, orphans, runs, changes>>

Prepare ==
    /\ pc = "prepare" /\ pc' = "preparing"
    /\ IF platform = "windows" THEN UNCHANGED <<manifest, prepared>>
       ELSE /\ artifacts' = EmptyMap /\ required' = {} /\ limits' = {} /\ companions' = EmptyMap
            /\ prepared' = "begun"
    /\ UNCHANGED <<inputs, upload, uploads, evidence, orphans, runs, changes>>

PrepareEnds ==
    /\ pc = "preparing"
    /\ \/ /\ IF platform = "windows" THEN PreparesWindows /\ AddsTargets
             ELSE Prepares /\ WritesManifest /\ UNCHANGED declared
          /\ pc' = "audit" /\ prepared' = "done"
       \/ pc' = "fail" /\ UNCHANGED <<declared, manifest, prepared>>
    /\ UNCHANGED <<platform, expected, shipped, local, splits, upload, uploads, evidence, orphans,
                   runs, changes>>

-----------------------------------------------------------------------------
(* The audit. *)

(* audit_elf_native: each companion belongs to the module it names, holds    *)
(* no executable code and has the line and unwind information.              *)
CompanionAudited(m) ==
    /\ m \in DOMAIN companions
    /\ \A k \in artifacts[m] :
           <<k, m[2], m[1]>> \in DOMAIN shipped
           /\ shipped[<<k, m[2], m[1]>>] = companions[m].build
    /\ companions[m].build # 0 /\ companions[m].lines /\ companions[m].unwind
    /\ ~companions[m].text

Mandatory == IF platform = "android" THEN {"core", "rust"} ELSE {"runner", "rust"}

ManifestAudited ==
    /\ DOMAIN artifacts # {} /\ required # {} /\ required \subseteq DOMAIN artifacts
    /\ \A m \in DOMAIN artifacts : CompanionAudited(m)
    /\ \A m \in DOMAIN artifacts : Mandatory \X {m[2]} \subseteq required
    /\ platform = "android" =>
           \A m \in limits \cap required : m[1] # "sentry"

ExpectedOnAndroid ==
    {m \in {"core", "rust", "sentry"} \X Abis : Copies(m[1], m[2]) # {}}

InventoryTrusted ==
    \A m \in DOMAIN artifacts : artifacts[m] \subseteq Copies(m[1], m[2])

(* _audit_native_inventory: whatever the manifest lists, the shipped modules *)
(* decide what is required.                                                 *)
InventoryAudited ==
    IF platform = "android"
    THEN /\ \A x \in Places : \A n \in {"core", "rust"} : Holds(x[1], x[2], n)
         /\ Places # {} /\ ExpectedOnAndroid \subseteq required
         /\ \A m \in ExpectedOnAndroid : Cardinality(BuildsOf(m[1], m[2])) = 1
         /\ \A m \in DOMAIN artifacts : artifacts[m] \subseteq Copies(m[1], m[2])
    ELSE /\ LinuxInventory
         /\ LinuxRequired \X {Desktop} \subseteq required
         /\ \A m \in DOMAIN artifacts : artifacts[m] = Copies(m[1], m[2])

(* audit_windows: the targets' PDBs match the installed modules, and no      *)
(* installed plugin, Rust library or helper is missing from the targets.    *)
Pdb(n) == IF n = "helper" THEN companions[<<n, Desktop>>] ELSE local[<<n, Desktop>>]
WindowsAudited ==
    /\ {"runner", "plugin"} \cup (Bundled \ {"libapp"}) \subseteq declared
    /\ \A n \in declared :
           /\ <<n, Desktop>> \in (IF n = "helper" THEN DOMAIN companions ELSE DOMAIN local)
           /\ BuildsOf(n, Desktop) = {Pdb(n).build}
           /\ Pdb(n).build # 0 /\ Pdb(n).lines /\ ~Pdb(n).text

(* _dart_runtime_modules *)
DartHomes ==
    CASE platform = "android" -> Places
      [] platform = "windows" -> IF "runner" \in declared THEN Places ELSE {}
      [] platform = "linux" ->
         {<<Smallest(artifacts[m]), Desktop>> : m \in DOMAIN artifacts \cap {<<"runner", Desktop>>}}

(* collect_companions, _dart_companion_shape: one debug-only file for each   *)
(* shipped architecture, of the very build of each of its copies.           *)
SplitsAudited ==
    /\ DartHomes # {} /\ DOMAIN splits = {x[2] : x \in DartHomes}
    /\ \A x \in DartHomes : Holds(x[1], x[2], "libapp")
    /\ \A a \in DOMAIN splits :
           /\ ~splits[a].text /\ splits[a].lines /\ splits[a].build # 0
           /\ \A x \in DartHomes : x[2] = a => shipped[<<x[1], a, "libapp">>] = splits[a].build

SymbolsAudited ==
    /\ IF platform = "windows" THEN WindowsAudited ELSE ManifestAudited /\ InventoryAudited
    /\ SplitsAudited

Accepts ==
    uploads' = (IF platform = "windows" THEN declared \X {Desktop} ELSE DOMAIN artifacts)
               \cup ({"split"} \X DOMAIN splits)
EndsWith(label) == pc' = label /\ upload' = FALSE
Records(s) == evidence' = [status |-> s, run |-> runs, orphaned |-> FALSE]

Passed(u) == IF u THEN "uploaded_and_processed" ELSE "audited"

(* main of the uploader writes its report whatever it found, unless it dies; *)
(* one that is interrupted while it uploads reports that it has audited.    *)
(* The upload itself is the subject of SymbolUpload.                        *)
AuditSymbols ==
    /\ pc = "audit"
    /\ \/ /\ SymbolsAudited /\ Accepts
          /\ \/ pc' = "complete" /\ Records(Passed(upload))
             \/ upload /\ pc' = "fail" /\ Records("audited")
       \/ (upload \/ ~SymbolsAudited) /\ pc' = "fail" /\ Records("failed") /\ UNCHANGED uploads
       \/ pc' = "fail" /\ UNCHANGED <<uploads, evidence>>
    /\ UNCHANGED <<inputs, manifest, prepared, upload, orphans, runs, changes>>

(* An uploader whose coordinator is gone reports at any time, or never.      *)
OrphanReports(o) ==
    /\ orphans' = orphans \ {o}
    /\ \/ /\ SymbolsAudited
          /\ \E s \in {"audited", Passed(o.upload)} :
                 evidence' = [status |-> s, run |-> o.run, orphaned |-> TRUE]
       \/ /\ o.upload \/ ~SymbolsAudited
          /\ evidence' = [status |-> "failed", run |-> o.run, orphaned |-> TRUE]
    /\ UNCHANGED <<inputs, manifest, prepared, pc, upload, uploads, runs, changes>>

-----------------------------------------------------------------------------
(* main of the coordinator. *)

StartKeepingEvidence ==
    /\ pc = "idle" /\ runs < MaxRuns
    /\ pc' = "configure" /\ runs' = runs + 1 /\ uploads' = {}
    /\ UNCHANGED <<inputs, manifest, prepared, upload, evidence, orphans, changes>>

(* Every real run removes the older report before it can fail. *)
Start ==
    /\ pc = "idle" /\ runs < MaxRuns
    /\ pc' = "configure" /\ runs' = runs + 1 /\ uploads' = {}
    /\ evidence' = NoReport
    /\ UNCHANGED <<inputs, manifest, prepared, upload, orphans, changes>>

(* --reuse-prepared skips the preparation, --no-sentry and a flavor without a *)
(* DSN skip everything; a bad flavor, a missing token or a wrong CLI end    *)
(* the run.                                                                 *)
ConfigureSymbols ==
    /\ pc = "configure"
    /\ \/ pc' \in {"audit", "prepare"} /\ upload' \in BOOLEAN /\ UNCHANGED evidence
       \/ pc' = "skipped" /\ Records("skipped") /\ UNCHANGED upload
       \/ pc' = "fail" /\ UNCHANGED <<upload, evidence>>
    /\ UNCHANGED <<inputs, manifest, prepared, uploads, orphans, runs, changes>>

(* The uploader's exit code is not enough: its report must confirm it. *)
Complete ==
    /\ pc = "complete"
    /\ IF evidence.status = Passed(upload) THEN EndsWith("succeeded")
       ELSE pc' = "fail" /\ UNCHANGED upload
    /\ UNCHANGED <<inputs, manifest, prepared, uploads, evidence, orphans, runs, changes>>

(* The failure is recorded unless that fails as well. *)
Fail ==
    /\ pc = "fail" /\ EndsWith("failed")
    /\ Records("failed") \/ UNCHANGED evidence
    /\ UNCHANGED <<inputs, manifest, prepared, uploads, orphans, runs, changes>>

(* The coordinator is killed or interrupted; its uploader may go on.         *)
Dies ==
    /\ pc \in {"configure", "prepare", "preparing", "audit", "complete", "fail"}
    /\ EndsWith("failed")
    /\ \/ UNCHANGED orphans
       \/ /\ pc = "audit"
          /\ orphans' = orphans \cup {[run |-> runs, upload |-> upload]}
    /\ UNCHANGED <<inputs, manifest, prepared, uploads, evidence, runs, changes>>

RunAgain ==
    /\ pc \in {"succeeded", "skipped", "failed"} /\ runs < MaxRuns
    /\ pc' = "idle"
    /\ UNCHANGED <<inputs, manifest, prepared, upload, uploads, evidence, orphans, runs, changes>>

SymbolsNext ==
    \/ Change \/ Start \/ ConfigureSymbols \/ PrepareFails \/ Prepare \/ PrepareEnds
    \/ AuditSymbols \/ Complete \/ Fail \/ Dies \/ RunAgain
    \/ \E o \in orphans : OrphanReports(o)

(* Nothing tells one ABI from another. *)
InterchangeableAbis == Permutations(Abis)

SymbolsSpec == SymbolsInit /\ [][SymbolsNext]_symbolsVars

-----------------------------------------------------------------------------
Accepted == pc \in {"complete", "succeeded"} /\ uploads # {}

Ours ==
    CASE platform = "android" -> {"core", "rust", "sentry"}
      [] platform = "linux" -> {"runner", "core", "rust", "helper"}
      [] platform = "windows" -> {"runner", "rust", "helper", "plugin", "sentry"}

Companion(m) == IF platform = "windows" THEN Pdb(m[1]) ELSE companions[m]

(* When an audit accepts a release, every shipped copy of every module of our *)
(* own, on Linux of every plugin the build can describe, and on Windows of  *)
(* every plugin, has a companion of its very build with line and, for ELF,  *)
(* unwind information, and every shipped copy of the Dart code the split    *)
(* debug information of its own build, whatever was lost, rebuilt in one    *)
(* package or dropped from a manifest (_audit_native_inventory,             *)
(* audit_windows, collect_companions).                                      *)
AuditedIsCovered ==
    Accepted =>
        \A m \in DOMAIN shipped : m[1] \in Copies(m[3], m[2]) =>
            /\ \/ m[3] \in Ours
               \/ platform = "linux" /\ m[3] = "plugin" /\ HasLines(<<m[3], m[2]>>, shipped[m])
               => /\ <<m[3], m[2]>> \in uploads
                  /\ Companion(<<m[3], m[2]>>).build = shipped[m]
                  /\ Companion(<<m[3], m[2]>>).lines
                  /\ platform # "windows" => companions[<<m[3], m[2]>>].unwind
            /\ m[3] = "libapp" =>
                  /\ <<"split", m[2]>> \in uploads
                  /\ splits[m[2]].build = shipped[m] /\ splits[m[2]].lines

(* A report of success is of an audit that accepted: of the latest run, or   *)
(* of one whose uploader outlived its coordinator.  No other older success  *)
(* survives the start of a run, and a coordinator succeeds with an audit of *)
(* its own only, whosever report it reads (main).                           *)
EvidenceIsCurrent ==
    /\ evidence.status \in Success =>
           \/ evidence.run = runs /\ uploads # {}
           \/ evidence.orphaned
    /\ pc = "succeeded" => uploads # {}

(* A manifest is of the last preparation that touched it, and that one       *)
(* succeeded: a preparation that fails or dies later than its first step    *)
(* leaves nothing a later --reuse-prepared could audit.                     *)
ManifestIsPrepared == DOMAIN artifacts # {} => prepared = "done"

(* Neither a report nor a manifest is taken over from a run that cannot       *)
(* vouch for it (the report removed first by main, the manifest by the      *)
(* preparation).                                                            *)
NothingIsStale == EvidenceIsCurrent /\ ManifestIsPrepared

(* What the comment on Preparer says, and PrepareFails refutes: a preparation *)
(* that failed never leaves the manifest of the one before it.              *)
FailureLeavesNoManifest ==
    [][pc = "prepare" /\ pc' = "fail" => DOMAIN artifacts' = {}]_symbolsVars

=============================================================================
