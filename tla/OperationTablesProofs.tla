----------------------- MODULE OperationTablesProofs -----------------------
(***************************************************************************)
(* What the constructors of OperationTables make: the entries of each, so  *)
(* that proofs about the tables need not unfold them.                      *)
(***************************************************************************)
EXTENDS OperationTables, TLAPS

(* An entry of a map, and a key that a map lacks.                          *)
Maps(f, key, value) == key \in DOMAIN f /\ f[key] = value
Lacks(f, key)       == key \notin DOMAIN f

(* Every entry of a row, of a union, or of a table with one value.         *)
LEMMA RowEntry ==
  ASSUME NEW key, NEW value, NEW x \in DOMAIN (key :> value)
  PROVE  x = key /\ (key :> value)[x] = value
BY DEF :>

LEMMA MergedEntry ==
  ASSUME NEW f, NEW g, NEW x \in DOMAIN (f @@ g)
  PROVE  \/ x \in DOMAIN f /\ (f @@ g)[x] = f[x]
         \/ x \in DOMAIN g /\ (f @@ g)[x] = g[x]
BY DEF @@

LEMMA EachEntry ==
  ASSUME NEW S, NEW value, NEW x \in DOMAIN Each(S, value)
  PROVE  x \in S /\ Each(S, value)[x] = value
BY DEF Each

LEMMA PlainEntry ==
  ASSUME NEW S, NEW x \in DOMAIN PlainAt(S)
  PROVE  x \in S /\ PlainAt(S)[x] = Plain
BY DEF PlainAt

(* The entries a row and a union have, and those they lack.                *)
LEMMA RowMaps == \A key, value : Maps(key :> value, key, value)
BY DEF Maps, :>

LEMMA RowLacks == \A key, value, x : x # key => Lacks(key :> value, x)
BY DEF Lacks, :>

LEMMA MergedMaps ==
  \A f, g, x, value :
    /\ Maps(f, x, value) => Maps(f @@ g, x, value)
    /\ Lacks(f, x) /\ Maps(g, x, value) => Maps(f @@ g, x, value)
BY DEF Maps, Lacks, @@

LEMMA MergedLacks ==
  \A f, g, x : Lacks(f, x) /\ Lacks(g, x) => Lacks(f @@ g, x)
BY DEF Lacks, @@
=============================================================================
