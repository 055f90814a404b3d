------------------------------ MODULE MCPolicy ------------------------------
(***************************************************************************)
(* Small instances of Policy for TLC: a tenant with two policies, and an   *)
(* operator's policy for the wildcard tenant; and, for Evaluation, amounts *)
(* with up to four digits before and three after the point in integers of  *)
(* 12 bits, policies and intents.                                          *)
(***************************************************************************)
EXTENDS Policy, TLC

CONSTANTS root, deputy, baseline, first, second, wide, v0, v1, v2, v3, g1, g2

MCVersionOf == (baseline :> v0) @@ (first :> v1) @@ (second :> v2) @@ (wide :> v3)
MCTenantOf == (baseline :> "*") @@ (first :> "t1") @@ (second :> "t1") @@ (wide :> "*")

(* Processes and keys are alike: no definition of Policy tells them apart. *)
CallerSymmetry == Permutations(Proc) \cup Permutations(Signer)

Digits(n) == UNION {[1..k -> {0, 4, 9, NotADigit}] : k \in 0..n}
MCText == [whole : Digits(4), fraction : Digits(3)]

(* 1 stands for "pay", 2 for "out": "pay", "pay.out" and "out". *)
Names == {<<1>>, <<1, 2>>, <<2>>}
Wide == {[name |-> <<>>, open |-> TRUE]}
Lists == {{}, {[name |-> <<>>, open |-> FALSE]}, Wide, {[name |-> <<1>>, open |-> TRUE]},
          {[name |-> <<1>>, open |-> FALSE]},
          {[name |-> <<2>>, open |-> FALSE], [name |-> <<1, 2>>, open |-> TRUE]}}
Small == {{[name |-> <<1>>, open |-> FALSE]}, Unset}

MCRule ==
  [tenant : {"*", "t1"}, actions : Lists, resources : {Wide}, executors : {Wide},
   max_ttl : {0, 10}, max_bytes : {64}, currencies : Small, beneficiaries : Small \cup {{}},
   limit : {Unset, 409, 450}]
  \cup
  [tenant : {"t1"}, actions : {Wide}, resources : {Wide}, executors : {Wide, {}},
   max_ttl : {10}, max_bytes : {64}, currencies : {Unset}, beneficiaries : {Unset}, limit : {Unset}]

Decimal(whole, fraction) == [whole |-> whole, fraction |-> fraction]
Payments ==
  [currency : {Unset, <<1>>, <<2>>}, minor : {Unset, 409, 410},
   text : {Decimal(<<4>>, <<0, 9>>), Decimal(<<4>>, <<4>>), Decimal(<<4>>, <<5>>), Decimal(<<>>, <<4>>)},
   beneficiary : {Unset, <<1>>, <<2>>}]
MCIntent ==
  [tenant : {"t1", "t2"}, action : Names, resource : {<<2>>}, ttl : {10}, bytes : {64},
   fractional : {FALSE}, money : Payments \cup {Unset}]
  \cup
  [tenant : {"t1"}, action : Names, resource : {<<2>>}, ttl : {10, 11}, bytes : {64, 65},
   fractional : BOOLEAN, money : {Unset}]
=============================================================================
