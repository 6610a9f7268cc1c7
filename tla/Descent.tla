------------------------------ MODULE Descent ------------------------------
(***************************************************************************)
(* Induction over the natural numbers for the proofs of liveness.          *)
(*                                                                         *)
(* The induction theorems of the library take an operator, which no        *)
(* first-order prover can instantiate.  Here the predicate is a function.  *)
(* For a family of temporal formulas T(n), "what leads to what", that      *)
(* function cannot be written down, but in each behaviour there is one     *)
(* that says for which n the formula holds: SomeTruths gives it when it is *)
(* shown the family as a term, Truths([n \in Nat |-> T(n)]).               *)
(***************************************************************************)
EXTENDS Naturals, TLAPS, NaturalsInduction, WellFoundedInduction

\* True of anything: it only makes a family of formulas appear in a fact.
Truths(f) == f => f

\* A family of formulas has a table of truth values.
LEMMA SomeTruths ==
  ASSUME NEW f, Truths(f)
  PROVE  \E g : \A n \in Nat : g[n] <=> f[n]
OBVIOUS

\* What holds of 0, and of n + 1 when it holds of n, holds of all numbers: there
\* is no least number of which it does not.
LEMMA Induction ==
  ASSUME NEW f, f[0], \A n \in Nat : f[n] => f[n + 1]
  PROVE  \A n \in Nat : f[n]
<1> DEFINE Bad == {n \in Nat : ~f[n]}
<1>1. SUFFICES ASSUME Bad # {} PROVE FALSE
  OBVIOUS
<1>2. PICK m \in Bad : \A k \in Bad : <<k, m>> \notin OpToRel(<, Nat)
  BY <1>1, NatLessThanWellFounded, WFMin
<1>3. \A k \in Bad : ~(k < m)
  BY <1>2 DEF OpToRel
<1>4. m \in Nat /\ m # 0
  OBVIOUS
<1>5. m - 1 \in Bad
  BY <1>4
<1> QED
  BY <1>3, <1>4, <1>5
=============================================================================
