----------------------------- MODULE MacInventory -----------------------------
(***************************************************************************)
(* The Xcode phase that records who built which module of a macOS app      *)
(* (tool/sentry_macos_inventory.py).  It walks the Swift packages the      *)
(* runner links, from product to target to product, and notes in which     *)
(* image of the app each source target ended up; tells the vendor's images *)
(* apart by their UUID; waives targets that only carry linker settings;    *)
(* adds what CocoaPods built; and writes the inventory with its receipt.   *)
(*                                                                         *)
(* The packages are small and fixed in shape: Root is Flutter's generated  *)
(* package, Plugin a plugin of it, Vendor a package whose one product has  *)
(* a binary target and a source target beside it, Shared a package that    *)
(* several of them may use.  What the manifests, the resolver, the final   *)
(* app and the vendor's framework say about them is chosen freely.         *)
(***************************************************************************)
EXTENDS MacReceipt, Naturals, SequencesExt

Products == {"Root", "Plugin", "Shared", "Vendor"}
SourceTargets == {"root", "plugin", "shared", "helper"}

(* linkage   of each library product                                        *)
(* images    the modules of the app that a product may have become          *)
(* payload   the binary target's file: a static archive, or the image with   *)
(*           the UUID of a module; other, of none                           *)
(* helper    the files of the target beside it: comments, code, or code      *)
(*           that needs Shared                                              *)
(* declares  whether Root declares Shared, and links it on macOS            *)
(* resolved  the path of Shared in the resolver's workspace state; Root       *)
(*           declares a                                                     *)
(* backwards the order of every list of a manifest                          *)
Graphs ==
    [direct : {{}, {"Root"}, {"Root", "Vendor"}},
     linkage : {l \in [Products -> {"automatic", "static", "dynamic"}] :
                    l["Root"] = "automatic" /\ "dynamic" \notin {l["Plugin"], l["Shared"]}},
     images : SUBSET {"plugin", "shared", "vendor", "engine"},
     payload : {"archive", "vendor", "engine", "other"},
     helper : {"comments", "code", "needy"},
     declares : {"no", "elsewhere", "yes"},
     resolved : {"none", "a", "b"},
     backwards : BOOLEAN]

VARIABLES
    graph,      \* what there is to be found out; never changes
    walkPc,
    stack,      \* the calls of product and target still to be made
    visited,    \* the targets walked in each host
    parents,    \* the hosts from which each dynamic product was reached
    selected,   \* the products walked and the host of each
    sources,    \* the hosts of each source target found
    binary,     \* the hosts of the binary target
    dynamic,    \* those that are the vendor's image
    products,   \* the modules found to be built from source
    waived,     \* the linker-only helpers
    written     \* the receipt, with the inventory and the runtime it is for

walk == <<stack, visited, parents, selected>>
found == <<sources, binary, dynamic, products, waived>>
inventoryVars == <<graph, walkPc, walk, found, written>>

NoReceipt == [inventory |-> {}]
AppModules == {"runner", "rust", "core", "plugin", "shared", "vendor", "engine", "pod", "binpod"}

InventoryTypeOK ==
    /\ graph \in Graphs
    /\ walkPc \in {"start", "walk", "vendor", "hosts", "helpers", "pods", "written", "failed"}
    /\ \A i \in DOMAIN stack : stack[i].host \in AppModules /\ stack[i].owner \in Products
    /\ visited \subseteq (SourceTargets \cup {"vendor"}) \X AppModules
    /\ DOMAIN parents \subseteq AppModules /\ \A m \in DOMAIN parents : parents[m] \subseteq AppModules
    /\ selected \subseteq Products \X AppModules
    /\ DOMAIN sources \subseteq SourceTargets /\ \A t \in DOMAIN sources : sources[t] \subseteq AppModules
    /\ binary \subseteq AppModules /\ dynamic \subseteq AppModules
    /\ \A p \in products : p.module \in AppModules /\ p.source \in {"spm", "pods"}
    /\ waived \subseteq SourceTargets

-----------------------------------------------------------------------------
(* What the manifests and the app say. *)

Ordered(s) == IF graph.backwards THEN Reverse(s) ELSE s

TargetsOf(p) ==
    CASE p = "Root" -> <<"root">>
      [] p = "Plugin" -> <<"plugin">>
      [] p = "Shared" -> <<"shared">>
      [] p = "Vendor" -> Ordered(<<"helper", "vendor">>)

(* enabled: a dependency for other platforms is passed over. *)
Needs(t) ==
    CASE t = "root" -> Ordered(<<"Plugin">> \o (IF graph.declares = "yes" THEN <<"Shared">> ELSE <<>>))
      [] t = "plugin" -> Ordered(<<"Shared", "Vendor">>)
      [] t = "helper" -> IF graph.helper = "needy" THEN <<"Shared">> ELSE <<>>
      [] t = "shared" -> <<>>

(* matching_module: the final app decides whether an automatic library        *)
(* became an image of its own.                                              *)
ImageOf(p) ==
    {m \in graph.images : graph.linkage[p] # "static"
                          /\ m = CASE p = "Plugin" -> "plugin" [] p = "Shared" -> "shared"
                                   [] p = "Vendor" -> "vendor" [] p = "Root" -> "root"}

Put(f, x, v) == [y \in DOMAIN f \cup {x} |-> IF y = x THEN (IF x \in DOMAIN f THEN f[x] ELSE {}) \cup {v} ELSE f[y]]
Call(op, name, host, owner) == [op |-> op, name |-> name, host |-> host, owner |-> owner]

(* Whatever the graph is. *)
AnyGraph ==
    /\ graph \in Graphs
    /\ walkPc = "start"
    /\ stack = <<>> /\ visited = {} /\ parents = [m \in {} |-> {}] /\ selected = {}
    /\ sources = [t \in {} |-> {}] /\ binary = {} /\ dynamic = {} /\ products = {} /\ waived = {}
    /\ written = NoReceipt

(* Bound: the graphs a run walks.  Without Swift packages only CocoaPods are   *)
(* of interest, and where Shared hangs below Plugin and Vendor only, three   *)
(* choices of images.                                                       *)
InventoryInit ==
    /\ AnyGraph
    /\ graph.direct = {} =>
           graph = [graph EXCEPT !.linkage = [p \in Products |-> "automatic"], !.payload = "archive",
                                 !.helper = "code", !.declares = "no",
                                 !.resolved = "none", !.backwards = FALSE]
    /\ "engine" \in graph.images <=> graph.payload = "engine"
    /\ graph.declares = "yes" \/ graph.images \in {{}, {"plugin", "shared", "vendor"}, {"vendor", "engine"}}

-----------------------------------------------------------------------------
(* The walk. *)

PhaseFails ==
    /\ walkPc' = "failed"
    /\ UNCHANGED <<graph, walk, found, written>>

(* linked_packages, linked_manifests: the runner's link phases decide where   *)
(* the walk starts, whatever Flutter's metadata says.                       *)
StartWalk ==
    /\ walkPc = "start"
    /\ UNCHANGED <<graph, visited, parents, selected, found, written>>
    /\ \/ walkPc' = "failed" /\ UNCHANGED stack
       \/ /\ walkPc' = IF graph.direct = {} THEN "pods" ELSE "walk"
          /\ stack' = [i \in 1..Cardinality(graph.direct) |->
                          Call("product", IF i = 1 THEN "Root" ELSE "Vendor", "runner", "Root")]

Rest == Tail(stack)

(* product *)
Product ==
    /\ walkPc = "walk" /\ stack # <<>> /\ Head(stack).op = "product"
    /\ LET c == Head(stack)
           image == ImageOf(c.name)
           host == IF image = {} THEN c.host ELSE CHOOSE m \in image : TRUE
       IN  IF graph.linkage[c.name] = "dynamic" /\ image = {} THEN PhaseFails
           ELSE /\ parents' = IF image = {} THEN parents ELSE Put(parents, host, c.host)
                /\ selected' = selected \cup {<<c.name, host>>}
                /\ stack' = [i \in DOMAIN TargetsOf(c.name) |->
                                Call("target", TargetsOf(c.name)[i], host, c.name)]
                            \o (IF image = {} THEN <<>> ELSE <<Call("own", c.name, host, c.name)>>)
                            \o Rest
                /\ UNCHANGED <<graph, walkPc, visited, found, written>>

(* dependencies: what Root declares must agree with the resolver. *)
RootDisagrees(t) ==
    t = "root" /\ graph.declares # "no" /\ graph.resolved \notin {"none", "a"}

WalkedInAnyHost(t, host) == \E h \in AppModules : <<t, h>> \in visited
Walked(t, host) == <<t, host>> \in visited

(* target: once for each host. *)
Target ==
    /\ walkPc = "walk" /\ stack # <<>> /\ Head(stack).op = "target"
    /\ LET c == Head(stack)
           t == c.name
       IN  IF Walked(t, c.host)
           THEN stack' = Rest /\ UNCHANGED <<graph, walkPc, visited, parents, selected, found, written>>
           ELSE IF t = "vendor"
           THEN /\ binary' = binary \cup {c.host}
                /\ visited' = visited \cup {<<t, c.host>>} /\ stack' = Rest
                /\ UNCHANGED <<graph, walkPc, parents, selected, sources, dynamic, products, waived, written>>
           ELSE IF RootDisagrees(t) THEN PhaseFails
           ELSE /\ sources' = Put(sources, t, c.host)
                /\ visited' = visited \cup {<<t, c.host>>}
                /\ stack' = [i \in DOMAIN Needs(t) |-> Call("product", Needs(t)[i], c.host, c.owner)] \o Rest
                /\ UNCHANGED <<graph, walkPc, parents, selected, binary, dynamic, products, waived, written>>

(* The end of product: its image is owned if any source target is in it. *)
Own ==
    /\ walkPc = "walk" /\ stack # <<>> /\ Head(stack).op = "own"
    /\ stack' = Rest
    /\ products' = products \cup {p \in {[module |-> Head(stack).host, source |-> "spm"]} :
                                      \E t \in DOMAIN sources : p.module \in sources[t]}
    /\ UNCHANGED <<graph, walkPc, visited, parents, selected, sources, binary, dynamic, waived, written>>

(* ManifestDumper.dump: any manifest may fail, hang, or print too much. *)
DumpFails == walkPc = "walk" /\ stack # <<>> /\ PhaseFails

WalkEnds ==
    /\ walkPc = "walk" /\ stack = <<>>
    /\ walkPc' = "vendor"
    /\ UNCHANGED <<graph, walk, found, written>>

-----------------------------------------------------------------------------
(* What happens to the records of the walk: collect. *)

Disown(modules) == {p \in products : p.module \notin modules}

(* The vendor's images are recognized by their UUIDs; a module with the       *)
(* target's name and another UUID ends the phase.                           *)
Vendor ==
    /\ walkPc = "vendor"
    /\ LET shipped == graph.images \cap {graph.payload}
       IN  IF binary # {} /\ graph.payload # "archive" /\ "vendor" \in graph.images \ shipped THEN PhaseFails
           ELSE /\ walkPc' = "hosts"
                /\ dynamic' = IF binary = {} THEN {} ELSE shipped
                /\ binary' = IF dynamic' = {} THEN binary ELSE dynamic'
                /\ products' = Disown(dynamic')
                /\ UNCHANGED <<graph, walk, sources, waived, written>>

(* source_hosts: a source target does not live in the vendor's image but in   *)
(* the hosts from which that was reached.                                   *)
HostsKept(h) == {h}

RealHosts(h) ==
    IF h \notin dynamic THEN {h}
    ELSE (IF h \in DOMAIN parents THEN parents[h] ELSE {"runner"}) \ {h}

SourceHosts ==
    /\ walkPc = "hosts"
    /\ walkPc' = "helpers"
    /\ sources' = [t \in DOMAIN sources |-> UNION {RealHosts(h) : h \in sources[t]}]
    /\ UNCHANGED <<graph, walk, binary, dynamic, products, waived, written>>

(* _helper_sources, comments_only_source *)
EmptyTargets == IF graph.helper = "comments" THEN {"helper"} ELSE {}

LinkerOnlySomewhere(t) ==
    /\ t \in EmptyTargets
    /\ \E s \in selected : t \in ToSet(TargetsOf(s[1])) /\ s[2] \in sources[t]

(* _record_link_helpers: the target and the binary target are direct members  *)
(* of one selected product whose host is the only host of the target.       *)
LinkerOnly(t) ==
    /\ t \in EmptyTargets
    /\ \E s \in selected :
           /\ t \in ToSet(TargetsOf(s[1])) /\ "vendor" \in ToSet(TargetsOf(s[1]))
           /\ sources[t] = {s[2]} /\ s[2] \in binary

LinkHelpers ==
    /\ walkPc = "helpers"
    /\ walkPc' = "pods"
    /\ waived' = {t \in DOMAIN sources : LinkerOnly(t)}
    /\ products' = Disown({p.module : p \in {q \in products :
                       LET inside == {t \in DOMAIN sources : q.module \in sources[t]}
                       IN  inside # {} /\ inside \subseteq waived'}})
    /\ UNCHANGED <<graph, walk, sources, binary, dynamic, written>>

-----------------------------------------------------------------------------
(* CocoaPods, and the end. *)

Build(m) == IF m = graph.payload THEN "vendors" ELSE "ours"

(* Stale rows of the Pods inventory, what SwiftPM owns and what is vendored   *)
(* are no products of CocoaPods.                                            *)
PodsOwn(embedded, listed, distributed) ==
    products \cup {[module |-> m, source |-> "pods"] :
        m \in (listed \cap embedded \cap distributed)
              \ ({p.module : p \in products} \cup dynamic \cup {"binpod"})}

(* _collect_inventory, write_inventory: embedded is the list of Xcode's       *)
(* actual embed phase, listed what the Pods' post_install says it builds.   *)
Pods(embedded, missing, listed) ==
    /\ walkPc = "pods"
    /\ LET distributed == {"runner", "rust", "core"} \cup graph.images \cup (embedded \cap {"pod", "binpod"})
           inUse == embedded \cap distributed # {} \/ graph.direct = {}
           all == IF inUse /\ ~missing THEN PodsOwn(embedded, listed, distributed) ELSE products
           known == {p.module : p \in all} \cup {"binpod"} \cup dynamic
           inventory == [managers |-> (IF graph.direct # {} THEN {"spm"} ELSE {})
                                      \cup (IF inUse THEN {"pods"} ELSE {}),
                         products |-> all, sources |-> sources, waived |-> waived,
                         hosts |-> binary, dynamic |-> dynamic]
       IN  IF \/ Cardinality({p.module : p \in all}) # Cardinality(all)
              \/ inUse /\ (~(embedded \cap distributed \subseteq known) \/ (graph.direct = {} /\ missing))
           THEN PhaseFails
           ELSE /\ walkPc' = "written"
                /\ written' = Receipt(inventory, [m \in distributed |-> Build(m)], "Release")
                /\ UNCHANGED <<graph, walk, found>>

InventoryNext ==
    \/ StartWalk \/ Product \/ Target \/ Own \/ DumpFails \/ WalkEnds
    \/ Vendor \/ SourceHosts \/ LinkHelpers
    \/ \E embedded \in SUBSET {"pod", "binpod", "plugin"},
          listed \in {{"missing"}, {"pod"}, {"pod", "binpod", "plugin"}} :
           Pods(embedded, listed = {"missing"}, listed)

InventorySpec == InventoryInit /\ [][InventoryNext]_inventoryVars

-----------------------------------------------------------------------------
Inventory == written.inventory
Written == walkPc = "written"

(* The hosts of a target by definition: the images it was linked into along   *)
(* some chain of products from the runner.                                  *)
Edges ==
    UNION {{<<p, q>> : q \in UNION {ToSet(Needs(t)) : t \in ToSet(TargetsOf(p)) \ {"vendor"}}} : p \in Products}
Longer(chains) ==
    UNION {{Append(c, e[2]) : e \in {f \in Edges : f[1] = c[Len(c)]}} : c \in chains}
Chains ==
    LET one == {<<p>> : p \in graph.direct}
        two == Longer(one)
        three == Longer(two)
    IN  one \cup two \cup three \cup Longer(three)
HostOn(c) ==
    LET own == {i \in DOMAIN c : ImageOf(c[i]) \ dynamic # {}}
    IN  IF own = {} THEN {"runner"} ELSE ImageOf(c[CHOOSE i \in own : \A j \in own : j <= i])
HostsOf(t) == UNION {HostOn(c) : c \in {d \in Chains : t \in ToSet(TargetsOf(d[Len(d)]))}}

(* Every source target that is linked into the app is recorded with every     *)
(* image that holds its code, and with no image of the vendor, whatever the *)
(* order of the manifests and however often it is reached (product, target, *)
(* source_hosts).                                                           *)
EverySourceIsHosted ==
    Written => Inventory.sources = [t \in {u \in SourceTargets : HostsOf(u) # {}} |-> HostsOf(t)]

(* A target is waived only when it has no code, and a module stops being      *)
(* owned only when everything in it is waived (_record_link_helpers).       *)
OnlyHelpersAreWaived ==
    Written =>
        /\ \A t \in Inventory.waived : t \in EmptyTargets /\ Inventory.sources[t] \subseteq Inventory.hosts
        /\ \A t \in DOMAIN Inventory.sources \ EmptyTargets : Inventory.sources[t] \subseteq OwnedBy(Inventory)

(* No image of a vendor counts as built from source, by either manager, and   *)
(* no module is claimed by both (collect, pods_ownership).                  *)
VendorIsNotOwned ==
    Written =>
        /\ \A p \in Inventory.products :
               p.module # "binpod" /\ (Inventory.dynamic # {} => written.runtime[p.module] = "ours")
        /\ \A p, q \in Inventory.products : p.module = q.module => p = q

(* What a Swift package compiled counts as ours: code is never waived as a    *)
(* linker-only helper.  What a vendor built is claimed by neither manager,  *)
(* and no module by both (_record_link_helpers, pods_ownership).            *)
OwnershipIsTrue == OnlyHelpersAreWaived /\ VendorIsNotOwned

(* What the phase writes, the preparation and the audit accept as long as     *)
(* nothing changes (_collect_inventory, _load_inventory).                   *)
WrittenIsAccepted ==
    Written => Loads(Inventory, written, written.runtime, "Release", EmptyTargets)

=============================================================================
