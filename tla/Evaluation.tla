----------------------------- MODULE Evaluation -----------------------------
(***************************************************************************)
(* What a policy says of an intent (src/src/phase3.rs): evaluate_policy,   *)
(* the patterns of its lists and the amounts of money, as operators.       *)
(*                                                                         *)
(* A name (of an action, a resource, a currency, ...) is a sequence of     *)
(* segments.  A pattern is a name, `open` if it ends in "*"; the pattern   *)
(* "*" is open and empty.  A decimal amount is the digits before and after *)
(* its point.                                                              *)
(***************************************************************************)
EXTENDS Naturals, Sequences, SequencesExt

CONSTANTS
  Segment,     \* what names are made of
  Text,        \* decimal amounts
  Rule,        \* policies: their tenant and constraints
  Intent,      \* intents, with the time-to-live that is asked for
  MaxInt,      \* the largest unsigned integer (2^64 - 1)
  Unset        \* a field that is not there

NotADigit == 10

Name == Seq(Segment)
List == SUBSET [name : Name, open : BOOLEAN]
Amount == [whole : Seq(0..NotADigit), fraction : Seq(0..NotADigit)]
Money == [currency : {Unset} \cup Name, minor : {Unset} \cup Nat, text : Amount, beneficiary : {Unset} \cup Name]

ASSUME EvaluationAssumption ==
  /\ MaxInt \in Nat /\ Unset \notin Nat
  /\ Text \subseteq Amount
  /\ \A rule \in Rule :
       /\ rule.actions \in List /\ rule.resources \in List /\ rule.executors \in List
       /\ rule.currencies \in {Unset} \cup List /\ rule.beneficiaries \in {Unset} \cup List
       /\ rule.limit \in {Unset} \cup Nat
       /\ rule.max_ttl \in Nat /\ rule.max_bytes \in Nat
  /\ \A intent \in Intent :
       /\ intent.action \in Name /\ intent.resource \in Name
       /\ intent.ttl \in Nat /\ intent.bytes \in Nat /\ intent.fractional \in BOOLEAN
       /\ intent.money \in {Unset} \cup Money

IsNumber(digits) == \A i \in DOMAIN digits : digits[i] # NotADigit

Value(digits) ==
  LET upTo[i \in 0..Len(digits)] == IF i = 0 THEN 0 ELSE 10 * upTo[i - 1] + digits[i]
  IN upTo[Len(digits)]

WellFormed(t) ==
  t.whole # <<>> /\ IsNumber(t.whole) /\ IsNumber(t.fraction) /\ Len(t.fraction) <= 2

(* Mutant of ParseMinorUnits: "1.5" is taken for "1.05". *)
ParseUnscaled(t) ==
  LET units == 100 * Value(t.whole) + Value(t.fraction) IN
  IF ~WellFormed(t) \/ Value(t.whole) > MaxInt \/ units > MaxInt THEN Unset ELSE units

(* The amount in hundredths, or Unset: the text is refused as malformed,   *)
(* or as too large for 64 bits, in the whole part or in the sum.           *)
ParseMinorUnits(t) ==
  LET cents == IF Len(t.fraction) = 1 THEN 10 * Value(t.fraction) ELSE Value(t.fraction)
      units == 100 * Value(t.whole) + cents
  IN
  IF ~WellFormed(t) \/ Value(t.whole) > MaxInt \/ units > MaxInt THEN Unset ELSE units

Matches(patterns, name) ==
  \E p \in patterns : p.name = name \/ (p.open /\ IsPrefix(p.name, name))

(* amount_minor is preferred to the text. *)
AmountOf(money) == IF money.minor # Unset THEN money.minor ELSE ParseMinorUnits(money.text)

MoneyVerdict(rule, money) ==
  LET amount == AmountOf(money)
      unpriced == money.currency = Unset \/ amount = Unset
      foreign == rule.currencies # Unset /\ ~Matches(rule.currencies, money.currency)
      unnamed == rule.beneficiaries # Unset /\ money.beneficiary = Unset
      stranger == rule.beneficiaries # Unset /\ ~Matches(rule.beneficiaries, money.beneficiary)
      within == rule.limit = Unset \/ amount <= rule.limit
  IN
  CASE unpriced                                         -> "error"
    [] ~unpriced /\ foreign                             -> "denied"
    [] ~unpriced /\ ~foreign /\ unnamed                 -> "error"
    [] ~unpriced /\ ~foreign /\ ~unnamed /\ stranger    -> "denied"
    [] ~unpriced /\ ~foreign /\ ~unnamed /\ ~stranger   -> IF within THEN "allowed" ELSE "denied"

(* Neither the list nor a pattern in it is empty. *)
IsPatternList(patterns) ==
  patterns # {} /\ \A p \in patterns : p.open \/ p.name # <<>>

ValidSpec(rule) ==
  /\ IsPatternList(rule.actions) /\ IsPatternList(rule.resources) /\ IsPatternList(rule.executors)
  /\ rule.max_ttl \in 1..86400
  /\ rule.max_bytes \in 1..10000000
  /\ rule.currencies # Unset => IsPatternList(rule.currencies)
  /\ rule.beneficiaries # Unset => IsPatternList(rule.beneficiaries)

(* The reason codes of a BLOCKED decision. *)
Reasons(rule, intent) ==
  {r \in {"TENANT", "ACTION", "RESOURCE", "TTL", "NON_DETERMINISTIC", "TOO_LARGE", "MONEY"} :
     \/ r = "TENANT" /\ rule.tenant \notin {"*", intent.tenant}
     \/ r = "ACTION" /\ ~Matches(rule.actions, intent.action)
     \/ r = "RESOURCE" /\ ~Matches(rule.resources, intent.resource)
     \/ r = "TTL" /\ intent.ttl > rule.max_ttl
     \/ r = "NON_DETERMINISTIC" /\ intent.fractional
     \/ r = "TOO_LARGE" /\ intent.bytes > rule.max_bytes
     \/ r = "MONEY" /\ intent.money # Unset /\ MoneyVerdict(rule, intent.money) = "denied"}

Evaluate(rule, intent) ==
  CASE ~ValidSpec(rule)                                                             -> "error"
    [] intent.money # Unset /\ MoneyVerdict(rule, intent.money) = "error"           -> "error"
    [] OTHER -> IF Reasons(rule, intent) = {} THEN "ALLOWED" ELSE "BLOCKED"

-----------------------------------------------------------------------------
(* Properties *)

(* An amount of a decimal text stands for exactly the value it is written  *)
(* as: the result, in hundredths, is the number that all its digits make,  *)
(* whatever the length of the fraction; it is refused only if it is        *)
(* malformed or does not fit.                                              *)
AmountsAreExact ==
  \A t \in Text :
    LET written == Value(t.whole \o t.fraction) * 100
        scale == 10 ^ Len(t.fraction)
        units == ParseMinorUnits(t)
    IN IF WellFormed(t) /\ written <= MaxInt * scale
         THEN units # Unset /\ units * scale = written
         ELSE units = Unset

(* The names a list admits. *)
Admits(patterns, name) ==
  \E p \in patterns : IF p.open THEN \E rest \in 0..Len(name) : p.name = SubSeq(name, 1, rest)
                      ELSE p.name = name

(* The value a payment carries never exceeds the limit it is allowed by.   *)
PaysAtMost(money, limit) ==
  IF money.minor # Unset THEN money.minor <= limit
  ELSE Value(money.text.whole \o money.text.fraction) * 100 <= limit * 10 ^ Len(money.text.fraction)

(* An intent is ALLOWED if and only if the policy is one that can be       *)
(* installed, it admits each of the names, the sizes are within its bounds *)
(* and the payment names its currency and, taken at the value its text is  *)
(* written as, goes to an admitted beneficiary in an admitted currency     *)
(* within the limit.                                                       *)
VerdictsAreExact ==
  \A rule \in Rule, intent \in Intent :
    Evaluate(rule, intent) = "ALLOWED" <=>
      /\ ValidSpec(rule)
      /\ rule.tenant = "*" \/ rule.tenant = intent.tenant
      /\ Admits(rule.actions, intent.action) /\ Admits(rule.resources, intent.resource)
      /\ intent.ttl <= rule.max_ttl /\ intent.bytes <= rule.max_bytes /\ ~intent.fractional
      /\ intent.money # Unset =>
           LET money == intent.money IN
           /\ money.currency # Unset
           /\ money.minor # Unset \/ ParseMinorUnits(money.text) # Unset
           /\ rule.currencies # Unset => Admits(rule.currencies, money.currency)
           /\ rule.beneficiaries # Unset =>
                money.beneficiary # Unset /\ Admits(rule.beneficiaries, money.beneficiary)
           /\ rule.limit # Unset => PaysAtMost(money, rule.limit)
=============================================================================
