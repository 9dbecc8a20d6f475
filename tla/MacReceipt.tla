------------------------------ MODULE MacReceipt ------------------------------
(***************************************************************************)
(* The inventory of a macOS app and the receipt written beside it          *)
(* (tool/sentry_macos_inventory.py): the Xcode phase writes both, the      *)
(* preparation of the dSYMs and the audit load them.  An inventory says    *)
(* which modules of the app were built from source, which package targets  *)
(* each module hosts, and which of those targets are waived because they   *)
(* only carry linker settings.                                             *)
(*                                                                         *)
(*   managers  the dependency managers, of "spm" and "pods"                *)
(*   products  the owned modules and the manager of each                   *)
(*   sources   the hosts of each package target compiled from source       *)
(*   waived    the targets with a proof that they are linker-only helpers  *)
(*   hosts     the hosts of the binary target                              *)
(*   dynamic   those of them that are the vendor's own image               *)
(***************************************************************************)
EXTENDS FiniteSets

(* Modules whose ownership no inventory has to state. *)
OwnProducts == {"runner", "rust", "core"}

Receipt(inventory, runtime, configuration) ==
    [inventory |-> inventory, runtime |-> runtime, configuration |-> configuration]

(* required_source_targets *)
Unwaived(inventory) == DOMAIN inventory.sources \ inventory.waived

OwnedBy(inventory) == {p.module : p \in inventory.products} \cup OwnProducts

HelperAsDeclared(inventory, t, empty) == inventory.sources[t] \subseteq inventory.hosts

(* _validate_link_helper: the files of a waived target are read again, and   *)
(* its hosts are those of the binary target it helps to link.               *)
HelperValid(inventory, t, empty) == t \in empty /\ inventory.sources[t] \subseteq inventory.hosts

(* _load_inventory: runtime is the build of every module of the app, empty   *)
(* the targets whose files hold nothing but comments now.                   *)
Loads(inventory, receipt, runtime, configuration, empty) ==
    LET modules == DOMAIN runtime
    IN  /\ receipt.inventory = inventory
        /\ receipt.configuration = configuration
        /\ receipt.runtime = runtime
        /\ inventory.managers \in (SUBSET {"spm", "pods"}) \ {{}}
        /\ \A p \in inventory.products : p.module \in modules /\ p.source \in inventory.managers
        /\ Cardinality({p.module : p \in inventory.products}) = Cardinality(inventory.products)
        /\ \A t \in DOMAIN inventory.sources :
               inventory.sources[t] # {} /\ inventory.sources[t] \subseteq modules
        /\ inventory.hosts \subseteq modules /\ inventory.dynamic \subseteq inventory.hosts
        /\ ("spm" \in inventory.managers) =
               (DOMAIN inventory.sources # {} \/ inventory.hosts # {})
        /\ \A t \in inventory.waived : HelperValid(inventory, t, empty)
        /\ \A t \in Unwaived(inventory) : inventory.sources[t] \subseteq OwnedBy(inventory)

=============================================================================
