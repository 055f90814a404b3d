------------------------------ MODULE Lifeline ------------------------------
(***************************************************************************)
(* What the identity registry promises: an identity begins with a key of   *)
(* its own, has one acting key at a time, which a rotation replaces, and   *)
(* no acting key any more once it has been revoked.  A key serves one      *)
(* identity and serves it once.                                            *)
(*                                                                         *)
(* Identity.tla implements this as long as its calls take turns.           *)
(***************************************************************************)

CONSTANT Key    \* public keys; an identity is named after its first key

VARIABLES
  used,         \* keys that have been taken into service
  acting        \* the keys that act for an identity now

vars == <<used, acting>>

Init ==
  /\ used = {}
  /\ acting = [i \in Key |-> {}]

Begin(i) ==
  /\ i \notin used
  /\ used' = used \cup {i}
  /\ acting' = [acting EXCEPT ![i] = {i}]

Rotate(i, k) ==
  /\ k \notin used
  /\ used' = used \cup {k}
  /\ acting[i] # {}
  /\ acting' = [acting EXCEPT ![i] = {k}]

Revoke(i) ==
  /\ UNCHANGED used
  /\ acting[i] # {}
  /\ acting' = [acting EXCEPT ![i] = {}]

Next == \E i \in Key : Begin(i) \/ Revoke(i) \/ \E k \in Key : Rotate(i, k)

Spec == Init /\ [][Next]_vars
=============================================================================
