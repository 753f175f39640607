----------------------------- MODULE ListLemmas -----------------------------
(***************************************************************************)
(* Facts about numbers and lists that the proofs about the registry, the   *)
(* dive parser and the conversions share.                                  *)
(***************************************************************************)
EXTENDS Integers, Sequences, SequencesExt, TLAPS, SequenceTheorems, WellFoundedInduction

(* A set of numbers that is not empty has a smallest member: the form in   *)
(* which the proofs about loops use induction, as a smallest number of     *)
(* rounds after which something is wrong.                                  *)
LEMMA Least ==
  ASSUME NEW T \in SUBSET Nat, T # {}
  PROVE  \E n \in T : \A m \in T : n <= m
  <1> DEFINE R == OpToRel(<, Nat)
  <1>1. PICK n \in T : \A m \in T : <<m, n>> \notin R
    <2>1. IsWellFoundedOn(R, Nat) BY NatLessThanWellFounded
    <2> HIDE DEF R
    <2> QED BY <2>1, WFMin
  <1>2. \A m \in T : ~(m < n) BY <1>1 DEF OpToRel
  <1> QED BY <1>2

(* Induction from lo up to hi.                                             *)
LEMMA Upwards ==
  ASSUME NEW lo \in Nat, NEW hi \in Nat, NEW T, lo \in T,
         \A n \in (lo + 1) .. hi : n - 1 \in T => n \in T
  PROVE  \A n \in lo .. hi : n \in T
  <1> DEFINE B == {n \in Nat : n \in lo .. hi /\ n \notin T}
  <1>1. SUFFICES ASSUME B # {} PROVE FALSE OBVIOUS
  <1>2. PICK k \in B : \A m \in B : k <= m BY <1>1, Least
  <1>3. k # lo /\ k \in (lo + 1) .. hi BY <1>2
  <1>4. k - 1 \in Nat /\ k - 1 \in lo .. hi /\ k - 1 < k BY <1>3
  <1>5. k - 1 \notin B BY <1>2, <1>4
  <1>6. k - 1 \in T BY <1>4, <1>5
  <1> QED BY <1>2, <1>3, <1>6

(* A sequence, of whatever elements.                                       *)
IsList(s) == s \in Seq(ToSet(s))

(* A sequence of elements of any set is a list.                            *)
LEMMA SequenceIsList ==
  ASSUME NEW S, NEW s \in Seq(S)
  PROVE  IsList(s)
  <1>1. \A i \in 1 .. Len(s) : s[i] \in ToSet(s) BY DEF ToSet
  <1>2. s = [i \in 1 .. Len(s) |-> s[i]] /\ Len(s) \in Nat OBVIOUS
  <1>3. ASSUME NEW U, \A i \in 1 .. Len(s) : s[i] \in U PROVE s \in Seq(U) BY <1>2, <1>3
  <1> QED BY <1>1, <1>3 DEF IsList

(* One list behind another.                                                *)
LEMMA ConcatIsList ==
  ASSUME NEW s, NEW t, IsList(s), IsList(t)
  PROVE  /\ IsList(s \o t) /\ Len(s) \in Nat /\ Len(t) \in Nat
         /\ Len(s \o t) = Len(s) + Len(t)
         /\ \A i \in 1 .. Len(s) : (s \o t)[i] = s[i]
         /\ \A i \in 1 .. Len(t) : (s \o t)[Len(s) + i] = t[i]
  <1> DEFINE S == ToSet(s) \cup ToSet(t)
  <1>1. s \in Seq(S) /\ t \in Seq(S) BY DEF IsList
  <1> HIDE DEF S
  <1>2. Len(s) \in Nat /\ Len(t) \in Nat BY <1>1
  <1>3. /\ s \o t \in Seq(S) /\ Len(s \o t) = Len(s) + Len(t)
        /\ \A i \in 1 .. Len(s) + Len(t) :
             (s \o t)[i] = IF i <= Len(s) THEN s[i] ELSE t[i - Len(s)]
    BY <1>1, ConcatProperties
  <1>4. IsList(s \o t) BY <1>3, SequenceIsList
  <1>5. \A i \in 1 .. Len(s) : (s \o t)[i] = s[i] BY <1>2, <1>3
  <1>6. ASSUME NEW i \in 1 .. Len(t) PROVE (s \o t)[Len(s) + i] = t[i]
    <2>1. /\ Len(s) + i \in 1 .. Len(s) + Len(t) /\ ~(Len(s) + i <= Len(s))
          /\ (Len(s) + i) - Len(s) = i
      BY <1>2
    <2> QED BY <1>3, <2>1
  <1> QED BY <1>2, <1>3, <1>4, <1>5, <1>6

(* One element behind a list.                                              *)
LEMMA AppendIsList ==
  ASSUME NEW s, NEW x, IsList(s)
  PROVE  /\ IsList(Append(s, x)) /\ Len(s) \in Nat /\ Len(Append(s, x)) = Len(s) + 1
         /\ \A i \in 1 .. Len(s) : Append(s, x)[i] = s[i]
         /\ Append(s, x)[Len(s) + 1] = x
  <1> DEFINE S == ToSet(s) \cup {x}
  <1>1. s \in Seq(S) /\ x \in S BY DEF IsList
  <1> HIDE DEF S
  <1>2. Append(s, x) \in Seq(S) BY <1>1
  <1>3. IsList(Append(s, x)) BY <1>2, SequenceIsList
  <1> QED BY <1>1, <1>3

(* A list given by its elements.                                           *)
LEMMA FunctionIsList ==
  ASSUME NEW n \in Nat, NEW s, s = [i \in 1 .. n |-> s[i]]
  PROVE  IsList(s) /\ Len(s) = n
  <1> DEFINE S == {s[i] : i \in 1 .. n}
  <1>1. \A i \in 1 .. n : s[i] \in S OBVIOUS
  <1> HIDE DEF S
  <1>2. s \in Seq(S) /\ Len(s) = n BY <1>1
  <1> QED BY <1>2, SequenceIsList
=============================================================================
