----------------------------- MODULE MCIdentity -----------------------------
(***************************************************************************)
(* Small instances of Identity for TLC: the gate's own key, a delegator    *)
(* and a leaf whose key files some process holds as well, and a spare key  *)
(* that can become anybody's next key.                                     *)
(***************************************************************************)
EXTENDS Identity, TLC

CONSTANTS root, deputy, leaf, spare, g1, g2

MCKey == {root, deputy, leaf, spare}
MCSigner == {root, deputy, leaf}
MCTenantOf == (root :> "*") @@ (deputy :> "*") @@ (leaf :> "t1") @@ (spare :> "t1")
AllTenants == [k \in MCKey |-> "*"]

(* An operator may end any key. *)
Anyone == [s \in MCSigner |-> MCKey]

(* The deputy may end the root that registered it, and the leaf the deputy *)
(* that registered it, from another tenant: Reliable can fail in each way. *)
Each == (root :> {deputy}) @@ (deputy :> {root, leaf, spare}) @@ (leaf :> {deputy})

(* Processes are alike: no definition of Identity tells them apart. *)
ProcSymmetry == Permutations(Proc)
=============================================================================
