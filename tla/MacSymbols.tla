------------------------------ MODULE MacSymbols ------------------------------
(***************************************************************************)
(* The debug files of a macOS app between its build and their upload.      *)
(* Preparer (tool/prepare_sentry_macos_symbols.py) finds or generates a    *)
(* separate dSYM for every slice of every module built from source and     *)
(* writes a manifest; audit_macos (tool/upload_sentry_symbols.py) looks at  *)
(* the app again and believes as little of that manifest as it can.  In    *)
(* between, modules are rebuilt, files are edited or lost, and either      *)
(* program may be killed and run again.                                    *)
(*                                                                         *)
(* asset is a native asset no dependency manager knows, plugin a plugin    *)
(* built from source, vendor the image of a binary package; helper is a    *)
(* source target without an image of its own.  A UUID is the module, the   *)
(* architecture and the build.                                             *)
(***************************************************************************)
EXTENDS MacReceipt, Naturals, Sequences

CONSTANTS
    MaxAppChanges,   \* bound: what may happen outside of the two programs
    MaxGenerated     \* MAX_GENERATED_DSYMS

ASSUME BoundsAssumption == MaxAppChanges \in Nat /\ MaxGenerated \in Nat

Archs == {"arm64", "x86_64"}
Debugged == {"asset", "core", "plugin", "runner", "rust", "vendor"}

VARIABLES
    app,          \* the build of each module in the app
    inventory, receipt,
    empty,        \* the source targets without any code
    dsyms,        \* the dSYM slices Xcode, Go and the vendor left behind
    images,       \* slices in Products with a debug map, and their code
    stripped,     \* modules whose image in the app has no debug map
    rusts,        \* architectures in which Rust's debug file has Rust units
    macPc,
    late,         \* the deadline of the preparation has passed
    failed,       \* failures is not empty
    todo,         \* rows left
    candidates,   \* the debug files found or generated so far
    generated,    \* the images dsymutil was already run for
    drafted,      \* artifacts, required and limitations
    files,        \* the normalized dSYM of each slice
    macManifest, report,
    ended,        \* how the last preparation ended
    verdict,      \* of the audit
    clean,        \* nothing happened since the inventory was written
    appChanges

world == <<app, inventory, receipt, empty, dsyms, images, stripped, rusts>>
work == <<late, failed, todo, candidates, generated, drafted>>
results == <<files, macManifest, report, ended>>
macVars == <<world, macPc, work, results, verdict, clean, appChanges>>

None == [artifacts |-> {}]
NoFiles == [s \in {} |-> None]
RowsOf(m) == <<<<m, "arm64">>, <<m, "x86_64">>>>
Rows ==
    RowsOf("asset") \o RowsOf("core") \o RowsOf("dart") \o RowsOf("plugin") \o RowsOf("runner")
    \o RowsOf("rust")
NoDraft == [artifacts |-> {}, required |-> {}, limits |-> {}]
Slices == (DOMAIN app) \X Archs
Dsym(m, a, build, usable) == [module |-> m, arch |-> a, build |-> build, usable |-> usable]

(* What the Xcode phase finds out about this app: built with pods only, with  *)
(* a static archive of the vendor and a helper beside it, or with the       *)
(* vendor's dynamic image.                                                  *)
Recorded(managers, plugin, sources, waived, hosts, dynamic) ==
    [managers |-> managers, products |-> {[module |-> "plugin", source |-> plugin]},
     sources |-> sources, waived |-> waived, hosts |-> hosts, dynamic |-> dynamic]
PluginHosts(extra) == [t \in {"plugin"} \cup extra |-> IF t = "plugin" THEN {"plugin"} ELSE {"runner"}]
Inventories ==
    {Recorded({"pods"}, "pods", [t \in {} |-> {}], {}, {}, {}),
     Recorded({"spm"}, "spm", PluginHosts({"helper"}), {"helper"}, {"runner"}, {}),
     Recorded({"spm"}, "spm", PluginHosts({"helper"}), {}, {"runner"}, {}),
     Recorded({"pods", "spm"}, "spm", PluginHosts({}), {}, {"vendor"}, {"vendor"})}

Distributed(inv) == {"asset", "core", "dart", "plugin", "runner", "rust"} \cup inv.dynamic

(* extract_go_dsym copies the debug sections of every slice of the Core, or    *)
(* stops; what it leaves when its own check fails cannot be used.           *)
GoDsym(outcome) ==
    {Dsym("core", a, app["core"], outcome = "done") : a \in IF outcome = "none" THEN {} ELSE Archs}

(* copy_vendor_dsyms: of what the vendor ships, only usable files of images   *)
(* that are in the app.                                                     *)
Staged(shipped) == {d \in shipped : d.usable /\ d.module \in DOMAIN app /\ d.build = app[d.module]}

MacInit ==
    /\ inventory \in Inventories
    /\ app = [m \in Distributed(inventory) |-> 1]
    /\ receipt = Receipt(inventory, app, "Release")
    /\ empty = inventory.waived
    /\ images \in {{}} \cup {{[module |-> m, arch |-> a, build |-> 1, code |-> c] : a \in archs} :
                                 m \in {"asset", "plugin"}, c \in BOOLEAN, archs \in {{"arm64"}, Archs}}
    /\ \A i \in images : i.code \/ Cardinality(images) = 2
    /\ stripped \in {{}, {"plugin", "asset"}}
    /\ \E odd \in Debugged, archs \in {{"arm64"}, Archs}, quality \in {"none", "lineless"} :
           /\ quality = "none" \/ archs # Archs
           /\ odd \in {"asset", "plugin"} \/ (images = {} /\ stripped = {})
           /\ dsyms = {Dsym(s[1], s[2], 1, s[1] # odd \/ s[2] \notin archs) :
                        s \in {t \in (Debugged \ {"vendor", "core"}) \X Archs :
                                  quality # "none" \/ t[1] # odd \/ t[2] \notin archs}}
                   \cup GoDsym(IF odd = "core" THEN quality ELSE "done")
                   \cup Staged({Dsym("vendor", a, 1, odd # "vendor") : a \in Archs})
    /\ rusts \in {Archs, IF images = {} THEN {"arm64"} ELSE Archs}
    /\ macPc = "idle" /\ late = FALSE /\ failed = FALSE /\ todo = <<>>
    /\ candidates = {} /\ generated = {} /\ drafted = NoDraft
    /\ files = NoFiles /\ macManifest = None /\ report = "none" /\ ended = "never"
    /\ verdict = "none" /\ clean = TRUE /\ appChanges = 0

-----------------------------------------------------------------------------
(* What both programs find out about a module. *)

SourceOf(m) ==
    CASE m \in {"runner", "rust", "dart"} -> m
      [] m = "core" -> "go"
      [] OTHER -> LET own == {p \in inventory.products : p.module = m}
                  IN  IF own = {} THEN "prebuilt" ELSE (CHOOSE p \in own : TRUE).source

(* Images in Products with the UUID of the app's and a debug map show that a  *)
(* module was compiled here, whatever the inventory says.                   *)
Mapped(m, a) == {i \in images : i.module = m /\ i.arch = a /\ i.build = app[m]}

Limit(kind, target, a, host) == [kind |-> kind, target |-> target, arch |-> a, host |-> host]

(* source_line_limitations *)
LineLimits ==
    UNION {{Limit(IF t \in inventory.waived THEN "linker" ELSE "lines", t, a, h) :
                a \in Archs, h \in inventory.sources[t]} : t \in DOMAIN inventory.sources}

StaticLimits ==
    {Limit("static", "vendor", a, "none") : a \in IF inventory.hosts = inventory.dynamic THEN {} ELSE Archs}

(* required_source_targets: every host needs a dSYM. *)
HostsWithin(targets) == \A t \in Unwaived(inventory) : inventory.sources[t] \subseteq targets

-----------------------------------------------------------------------------
(* The preparation. *)

(* Preparer.__init__ empties the output, or fails before anything else.       *)
Construct ==
    /\ macPc = "idle" /\ verdict = "none"
    /\ macPc' \in {"idle", "made"}
    /\ files' = NoFiles /\ macManifest' = None /\ ended' = "never"
    /\ UNCHANGED <<world, work, report, verdict, clean, appChanges>>

(* prepare: the previous report goes.                                         *)
PrepareApp ==
    /\ macPc = "made"
    /\ \/ macPc' = "load" /\ report' = "none" /\ UNCHANGED failed
       \/ macPc' = "failing" /\ failed' = TRUE /\ UNCHANGED report
    /\ UNCHANGED <<world, late, todo, candidates, generated, drafted, files, macManifest, ended,
                   verdict, clean, appChanges>>

(* The modules of the app, in the order of their paths; only the vendor's may *)
(* be missing.                                                              *)
Planned == Rows \o IF "vendor" \in DOMAIN app THEN RowsOf("vendor") ELSE <<>>

(* _register_companion: a file that cannot be read is passed over, but fails  *)
(* the preparation in the end.                                              *)
Register ==
    /\ candidates' = dsyms
    /\ failed' \in {FALSE, (\E d \in dsyms : ~d.usable)}

(* _prepare_all, the first two loops. *)
Load ==
    /\ macPc = "load" /\ clean' = TRUE
    /\ IF Loads(inventory, receipt, app, "Release", empty)
       THEN macPc' = "rows" /\ todo' = Planned /\ Register
       ELSE macPc' = "failing" /\ failed' = TRUE /\ UNCHANGED <<todo, candidates>>
    /\ UNCHANGED <<world, late, generated, drafted, results, verdict, appChanges>>

Module == Head(todo)[1]
Arch == Head(todo)[2]

(* _products_sources: a module with a mapped image is required, in every      *)
(* architecture and whether or not the code is still that of the app.       *)
Promoted(m) == \E a \in Archs : Mapped(m, a) # {}
RequiredByInventory(m) == SourceOf(m) # "prebuilt"
Required(m) == SourceOf(m) # "prebuilt" \/ Promoted(m)

(* _matches, _usable *)
Usable ==
    {d \in candidates : d.module = Module /\ d.arch = Arch /\ d.build = app[Module] /\ d.usable}

(* What dsymutil may still be run on, once for each image.                    *)
Inputs ==
    {<<Module, o>> : o \in (IF \E i \in Mapped(Module, Arch) : i.code THEN {"products"} ELSE {})
                           \cup (IF Module \in stripped THEN {} ELSE {"final"})}
    \ generated
FirstInput == IF <<Module, "products">> \in Inputs THEN <<Module, "products">> ELSE <<Module, "final">>

Turn == macPc = "rows" /\ todo # <<>>
TurnOf == Turn /\ ~late /\ Module # "dart"
RowEnds ==
    /\ todo' = Tail(todo)
    /\ UNCHANGED <<world, macPc, late, generated, candidates, macManifest, report, ended,
                   verdict, clean, appChanges>>
RowFails == RowEnds /\ failed' = TRUE /\ UNCHANGED drafted

Late ==
    /\ Turn /\ ~late /\ late' = TRUE
    /\ UNCHANGED <<world, macPc, failed, todo, candidates, generated, drafted, results, verdict, clean, appChanges>>

(* _budget *)
Overdue == Turn /\ late /\ Module # "dart" /\ RowFails /\ UNCHANGED files

Dart ==
    /\ Turn /\ Module = "dart"
    /\ RowEnds
    /\ drafted' = [drafted EXCEPT !.limits = @ \cup {Limit("dart", "dart", Arch, "none")}]
    /\ UNCHANGED <<failed, files>>

WantsDsym == Usable = {} /\ Required(Module) /\ SourceOf(Module) # "go" /\ Inputs # {}

(* _generate: dsymutil may fail, hang, or find none of the object files.      *)
Generate(makes) ==
    /\ TurnOf /\ WantsDsym
    /\ IF Cardinality(generated) >= MaxGenerated THEN RowFails /\ UNCHANGED files
       ELSE /\ generated' = generated \cup {FirstInput}
            /\ candidates' = candidates \cup
                   {Dsym(Module, a, app[Module], TRUE) :
                        a \in {b \in Archs : makes /\ (FirstInput[2] = "final" \/ Mapped(Module, b) # {})}}
            /\ UNCHANGED <<world, macPc, late, failed, todo, drafted, results, verdict, clean, appChanges>>

Unmatched ==
    /\ TurnOf /\ Usable = {} /\ ~WantsDsym
    /\ RowEnds /\ UNCHANGED files
    /\ IF Required(Module) THEN failed' = TRUE /\ UNCHANGED drafted
       ELSE /\ UNCHANGED failed
            /\ drafted' = [drafted EXCEPT !.limits = @ \cup {Limit("prebuilt", Module, Arch, "none")}]

(* _normalize: the slice alone, read again. *)
Normalized(s) == Dsym(s[1], s[2], app[s[1]], TRUE)

(* contains_rust_debug says yes only when it has seen a Rust unit; when it     *)
(* hangs, prints too much, ends badly or cannot be stopped, that is no.     *)
RustReader(a) == {FALSE, (a \in rusts)}

Normalize(proven) ==
    /\ TurnOf /\ Usable # {}
    /\ RowEnds
    /\ files' = [s \in DOMAIN files \cup {Head(todo)} |->
                    IF s = Head(todo) THEN Normalized(s) ELSE files[s]]
    /\ IF Module = "rust" /\ ~proven THEN failed' = TRUE /\ UNCHANGED drafted
       ELSE /\ UNCHANGED failed
            /\ drafted' = [artifacts |-> drafted.artifacts \cup {[slice |-> Head(todo), source |-> SourceOf(Module)]},
                         required |-> drafted.required \cup (IF Required(Module) THEN {Head(todo)} ELSE {}),
                         limits |-> drafted.limits \cup
                             (IF Module = "core" THEN {Limit("go", "core", Arch, "none")} ELSE {})]

(* The end of _prepare_all; writing the manifest may itself fail.             *)
Finish ==
    /\ macPc = "rows" /\ todo = <<>>
    /\ IF \/ failed \/ ~({"rust", "core", "dart"} \subseteq DOMAIN app)
          \/ ~({p.module : p \in inventory.products} \subseteq DOMAIN app)
          \/ ~HostsWithin({s[1] : s \in drafted.required})
       THEN macPc' = "failing" /\ failed' = TRUE /\ UNCHANGED macManifest
       ELSE /\ macManifest' = [drafted EXCEPT !.limits = @ \cup LineLimits \cup StaticLimits]
            /\ \/ macPc' = "report" /\ UNCHANGED failed
               \/ macPc' = "failing" /\ failed' = TRUE
    /\ UNCHANGED <<world, late, todo, candidates, generated, drafted, files, report, ended,
                   verdict, clean, appChanges>>

(* _remove_manifest *)
RemoveManifest == None

Failing ==
    /\ macPc = "failing" /\ macPc' = "report"
    /\ macManifest' = RemoveManifest
    /\ UNCHANGED <<world, work, files, report, ended, verdict, clean, appChanges>>

(* _write_report, and prepare's handling of its failure.                      *)
WriteReport(works) ==
    /\ macPc = "report" /\ macPc' = "idle"
    /\ IF works THEN /\ report' = IF failed THEN "failed" ELSE "complete"
                     /\ ended' = report' /\ UNCHANGED macManifest
       ELSE ended' = "failed" /\ macManifest' = RemoveManifest /\ UNCHANGED report
    /\ late' = FALSE /\ failed' = FALSE /\ candidates' = {} /\ generated' = {} /\ drafted' = NoDraft
    /\ UNCHANGED <<world, todo, files, verdict, clean, appChanges>>

Killed ==
    /\ macPc # "idle" /\ macPc' = "idle" /\ ended' = "killed"
    /\ late' = FALSE /\ failed' = FALSE /\ todo' = <<>>
    /\ candidates' = {} /\ generated' = {} /\ drafted' = NoDraft
    /\ UNCHANGED <<world, files, macManifest, report, verdict, clean, appChanges>>

-----------------------------------------------------------------------------
(* What happens between the programs. *)

AppChange ==
    /\ macPc = "idle" /\ verdict = "none" /\ appChanges < MaxAppChanges
    /\ appChanges' = appChanges + 1 /\ clean' = FALSE
    /\ UNCHANGED <<macPc, work, report, ended, verdict>>

Rebuild(m, debugged) ==
    /\ AppChange /\ app[m] = 1
    /\ app' = [app EXCEPT ![m] = 2]
    /\ dsyms' = dsyms \cup {Dsym(m, a, 2, TRUE) : a \in IF debugged THEN Archs ELSE {}}
    /\ UNCHANGED <<inventory, receipt, empty, images, stripped, rusts, files, macManifest>>

(* The Xcode phase runs again. *)
Phase(inv) ==
    /\ AppChange /\ Distributed(inv) = DOMAIN app /\ inv.waived = empty
    /\ inventory' = inv /\ receipt' = Receipt(inv, app, "Release")
    /\ UNCHANGED <<app, empty, dsyms, images, stripped, rusts, files, macManifest>>

DisownAll ==
    /\ AppChange /\ inventory' = [inventory EXCEPT !.products = {}, !.sources = [t \in {} |-> {}]]
    /\ UNCHANGED <<app, receipt, empty, dsyms, images, stripped, rusts, files, macManifest>>

Fill ==
    /\ AppChange /\ empty # {} /\ empty' = {}
    /\ UNCHANGED <<app, inventory, receipt, dsyms, images, stripped, rusts, files, macManifest>>

(* A dSYM is overwritten by one of another build or one without lines.        *)
Spoil(s, build, usable) ==
    /\ AppChange /\ files' = [files EXCEPT ![s] = Dsym(s[1], s[2], build, usable)]
    /\ UNCHANGED <<world, macManifest>>

(* A module disappears from the manifest, or is said to be prebuilt.          *)
Hide(m, excuse) ==
    /\ AppChange /\ macManifest # None
    /\ macManifest' = [artifacts |-> {x \in macManifest.artifacts : x.slice[1] # m},
                    required |-> {s \in macManifest.required : s[1] # m},
                    limits |-> macManifest.limits \cup
                        {Limit("prebuilt", m, a, "none") : a \in IF excuse THEN Archs ELSE {}}]
    /\ UNCHANGED <<world, files>>

-----------------------------------------------------------------------------
(* The audit. *)

(* audit_macos looks for mapped images itself, slice by slice.                *)
OwnedByInventory(m, a) == SourceOf(m) # "prebuilt"
Owned(m, a) == SourceOf(m) # "prebuilt" \/ Mapped(m, a) # {}

ArtifactHolds(x) ==
    LET m == x.slice[1] IN
    /\ x.slice \in Slices /\ x.source = SourceOf(m)
    /\ files[x.slice].build = app[m] /\ files[x.slice].usable

Listed == {x.slice : x \in macManifest.artifacts}

LimitHolds(l) ==
    CASE l.kind \in {"lines", "linker"} -> l \in LineLimits
      [] l.kind = "static" -> l \in StaticLimits
      [] l.kind = "prebuilt" -> /\ <<l.target, l.arch>> \in Slices
                                /\ ~Owned(l.target, l.arch)
                                /\ <<l.target, l.arch>> \notin Listed
      [] l.kind = "dart" -> l.target = "dart"
      [] l.kind = "go" -> l.target = "core"

(* The app, the manifest and the inventory belong together. *)
AppAudited ==
    /\ macManifest # None
    /\ Loads(inventory, receipt, app, "Release", empty)
    /\ {"runner", "rust"} \subseteq DOMAIN app
    /\ Listed # {} /\ macManifest.required # {}

RequiredAudited ==
    /\ macManifest.required \subseteq Listed
    /\ HostsWithin({s[1] : s \in macManifest.required})
    /\ \A s \in Slices : s[1] # "dart" /\ Owned(s[1], s[2]) => s \in macManifest.required

LimitsAudited ==
    /\ \A l \in macManifest.limits : LimitHolds(l)
    /\ LineLimits \subseteq macManifest.limits /\ StaticLimits \subseteq macManifest.limits
    /\ Slices \subseteq Listed \cup {<<l.target, l.arch>> : l \in
           {k \in macManifest.limits : k.kind \in {"prebuilt", "dart", "go"}}}

AppAccepts ==
    /\ AppAudited /\ RequiredAudited /\ LimitsAudited
    /\ \A x \in macManifest.artifacts : ArtifactHolds(x)

(* Rust's units are looked for again; that may fail, which stops the upload.  *)
AuditApp(works) ==
    /\ macPc = "idle" /\ verdict = "none"
    /\ verdict' = IF ~AppAccepts THEN "refused" ELSE IF works /\ rusts = Archs THEN "accepted" ELSE "unread"
    /\ UNCHANGED <<world, macPc, work, results, clean, appChanges>>

MacNext ==
    \/ Construct \/ PrepareApp \/ Load \/ Late \/ Overdue \/ Dart \/ Unmatched \/ Finish \/ Failing \/ Killed
    \/ \E makes \in BOOLEAN : Generate(makes)
    \/ \E proven \in IF Turn THEN RustReader(Arch) ELSE {} : Normalize(proven)
    \/ \E works \in BOOLEAN : WriteReport(works) \/ AuditApp(works)
    \/ \E m \in {"plugin", "runner", "rust"}, debugged \in BOOLEAN : Rebuild(m, debugged)
    \/ \E inv \in Inventories : Phase(inv)
    \/ DisownAll \/ Fill
    \/ \E s \in (DOMAIN files) \cap ({"asset", "plugin", "rust"} \X {"arm64"}), build \in 1..2 :
           Spoil(s, build, build = 2)
    \/ \E m \in {"asset", "plugin", "rust", "core"}, excuse \in BOOLEAN : Hide(m, excuse)

MacSpec == MacInit /\ [][MacNext]_macVars

-----------------------------------------------------------------------------
MacTypeOK ==
    /\ DOMAIN app \subseteq Debugged \cup {"dart"}
    /\ macPc \in {"idle", "made", "load", "rows", "failing", "report"}
    /\ \A s \in DOMAIN files : s \in Debugged \X Archs
    /\ report \in {"none", "failed", "complete"} /\ ended \in {"never", "killed", "failed", "complete"}
    /\ verdict \in {"none", "refused", "unread", "accepted"} /\ appChanges \in 0..MaxAppChanges

AppAccepted == verdict = "accepted"
Covered(s) ==
    /\ \E x \in macManifest.artifacts : x.slice = s
    /\ files[s] = Dsym(s[1], s[2], app[s[1]], TRUE)

(* What is uploaded has, for every slice of the app that was compiled here, a *)
(* dSYM of this build with lines, whatever was rebuilt, edited, dropped or  *)
(* declared prebuilt since the preparation (audit_macos).                   *)
AcceptedIsCovered ==
    AppAccepted => \A m \in DOMAIN app, a \in Archs :
                    m \in {"core", "plugin", "runner", "rust"} \/ Mapped(m, a) # {} => Covered(<<m, a>>)

(* Every gap the audit lets through is stated, and stated truly: a module is   *)
(* called prebuilt only if nothing shows that it was compiled here, a target *)
(* linker-only only while its files are empty, and the hosts of every other  *)
(* target have a dSYM.                                                      *)
LimitsAreTrue ==
    AppAccepted =>
        /\ \A s \in Slices : Covered(s) \/ s[1] = "dart" \/ Limit("prebuilt", s[1], s[2], "none") \in macManifest.limits
        /\ \A l \in macManifest.limits :
               /\ l.kind = "prebuilt" => l.target \in {"asset", "vendor"} /\ Mapped(l.target, l.arch) = {}
               /\ l.kind = "linker" => l.target \in empty
        /\ \A t \in (DOMAIN inventory.sources) \ empty, a \in Archs :
               \A h \in inventory.sources[t] : Covered(<<h, a>>) /\ Limit("lines", t, a, h) \in macManifest.limits

(* The audit shares no list with the preparation, yet refuses nothing that a   *)
(* complete preparation of the same app left behind (Preparer, audit_macos). *)
PreparedIsAccepted == clean /\ ended = "complete" => verdict # "refused"

=============================================================================
