---------------------------- MODULE Collections -----------------------------
(***************************************************************************)
(* The operations of the standard collections that the models share, each  *)
(* written so that it can be reasoned about.                               *)
(***************************************************************************)
EXTENDS Integers, Sequences

\* The part that Iterator::partition keeps: the elements of a sequence that are in
\* a set, in their order.  It is SelectSeq for a test given as a set.
Filter(s, S) ==
  LET F[i \in 0..Len(s)] ==
        IF i = 0 THEN << >>
        ELSE IF s[i] \in S THEN Append(F[i - 1], s[i]) ELSE F[i - 1]
  IN  F[Len(s)]

\* BTreeMap::insert, or a file written to a directory: the map with this value at the key, whatever was there.
Put(m, k, v) == [x \in {k} \cup DOMAIN m |-> IF x = k THEN v ELSE m[x]]
=============================================================================
