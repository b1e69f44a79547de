---------------------------- MODULE KeymapProofs ----------------------------
(***************************************************************************)
(* Proofs about libkeymap's arrays, for every set of items and every       *)
(* bound, and about the key tables that are built in them, for every set   *)
(* of tables, keys and entries and every length of line.                   *)
(***************************************************************************)
EXTENDS Keymap, LkArray, FiniteSetTheorems, WellFoundedInduction, TLAPS

-----------------------------------------------------------------------------
(* The array                                                               *)

(* The types without the claim that count is not negative.                 *)
ArrayType ==
    /\ total \in Nat
    /\ count \in Int
    /\ array \in [Indices(total) -> Item]

(* The inductive invariant behind ArrayTypeOK: count can only be           *)
(* decremented when an item is present, so it must be known to cover those *)
(* items.                                                                  *)
ArrayInv == ArrayType /\ CountCoversPresent

(* The present items are finitely many.                                    *)
LEMMA PresentFinite ==
    ASSUME NEW a, NEW n \in Nat
    PROVE  /\ IsFiniteSet(PresentIn(a, n))
           /\ Cardinality(PresentIn(a, n)) \in Nat
<1>1. IsFiniteSet(0 .. (n - 1))
  BY FS_Interval
<1>2. PresentIn(a, n) \subseteq 0 .. (n - 1)
  BY DEF PresentIn, Indices
<1>3. IsFiniteSet(PresentIn(a, n))
  BY <1>1, <1>2, FS_Subset
<1> QED
  BY <1>3, FS_CardinalityType

(* Storing e at i adds i to the present items or removes it from them, and *)
(* changes their number only when existence changes.                       *)
LEMMA StoreItem ==
    ASSUME NEW a, NEW n \in Nat, a \in [Indices(n) -> Item],
           NEW i \in Nat, NEW e \in Item,
           NEW m, m = ResizedTotal(n, i)
    PROVE  /\ m \in Nat
           /\ Store(a, n, i, e) \in [Indices(m) -> Item]
           /\ PresentIn(Store(a, n, i, e), m) = IF e # Zero THEN PresentIn(a, n) \union {i}
                                ELSE PresentIn(a, n) \ {i}
           /\ i \in PresentIn(a, n) <=> lk_array_exists(a, n, i)
<1>1. m \in Nat /\ i \in Indices(m) /\ n <= m
  BY DEF ResizedTotal, Indices
<1>2. Resized(a, n, i) \in [Indices(m) -> Item]
  BY DEF Resized, ResizedTotal, Indices, Item
<1>3. Store(a, n, i, e) \in [Indices(m) -> Item]
  BY <1>1, <1>2 DEF Store
<1>4. \A j \in Indices(m) : Store(a, n, i, e)[j] = IF j = i THEN e ELSE IF j < n THEN a[j] ELSE Zero
  BY <1>1, <1>2 DEF Store, Resized, ResizedTotal, Indices
<1>5. \A j \in Indices(n) : j \in Indices(m)
  BY <1>1 DEF Indices
<1>6. \A j \in Indices(m) : (j < n) <=> j \in Indices(n)
  BY <1>1 DEF Indices
<1>7. PresentIn(Store(a, n, i, e), m) = IF e # Zero THEN PresentIn(a, n) \union {i}
                        ELSE PresentIn(a, n) \ {i}
  <2>1. \A j : j \in PresentIn(Store(a, n, i, e), m) <=>
                  j \in Indices(m) /\ (IF j = i THEN e # Zero ELSE j \in PresentIn(a, n))
    BY <1>4, <1>5, <1>6 DEF PresentIn
  <2>2. \A j : j \in PresentIn(a, n) => j \in Indices(m)
    BY <1>5 DEF PresentIn
  <2> QED
    BY <2>1, <2>2, <1>1, Zenon
<1>8. i \in PresentIn(a, n) <=> lk_array_exists(a, n, i)
  BY DEF PresentIn, lk_array_exists
<1> QED
  BY <1>1, <1>3, <1>7, <1>8

(* How the number of present items follows a store or an unset.            *)
LEMMA CountStep ==
    ASSUME NEW S, IsFiniteSet(S), NEW i
    PROVE  /\ Cardinality(S) \in Nat
           /\ i \in S => /\ Cardinality(S \union {i}) = Cardinality(S)
                         /\ Cardinality(S \ {i}) = Cardinality(S) - 1
           /\ i \notin S => /\ Cardinality(S \union {i}) = Cardinality(S) + 1
                            /\ Cardinality(S \ {i}) = Cardinality(S)
<1>1. Cardinality(S) \in Nat
  BY FS_CardinalityType
<1>2. i \in S => S \union {i} = S
  OBVIOUS
<1>3. i \notin S => S \ {i} = S
  OBVIOUS
<1>4. i \in S => Cardinality(S \ {i}) = Cardinality(S) - 1
  BY FS_RemoveElement
<1>5. i \notin S => Cardinality(S \union {i}) = Cardinality(S) + 1
  BY FS_AddElement
<1> QED
  BY <1>1, <1>2, <1>3, <1>4, <1>5

-----------------------------------------------------------------------------
(* Every action, from a typed state, keeps the types and moves count and   *)
(* the present items as follows.                                           *)

LEMMA SetStep ==
    ASSUME ArrayType, NEW i \in Nat, NEW e \in Item, lk_array_set(i, e)
    PROVE  /\ ArrayType'
           /\ count' - Cardinality(Present') = count - Cardinality(Present)
<1>1. array \in [Indices(total) -> Item] /\ total \in Nat /\ count \in Int
  BY DEF ArrayType
<1> DEFINE S == PresentIn(array, total)
<1>0. /\ array' = Store(array, total, i, e)
      /\ total' = ResizedTotal(total, i)
  BY DEF lk_array_set
<1>2. /\ total' \in Nat
      /\ array' \in [Indices(total') -> Item]
      /\ PresentIn(array', total') = IF e # Zero THEN S \union {i} ELSE S \ {i}
      /\ i \in S <=> lk_array_exists(array, total, i)
  BY <1>0, <1>1, StoreItem
<1>3. IsFiniteSet(S) /\ Cardinality(S) \in Nat
  BY <1>1, PresentFinite
<1>4. count' = IF i \notin S /\ e # Zero THEN count + 1
               ELSE IF i \in S /\ e = Zero THEN count - 1 ELSE count
  BY <1>2 DEF lk_array_set
<1> HIDE DEF S
<1>c. /\ i \in S => /\ Cardinality(S \union {i}) = Cardinality(S)
                    /\ Cardinality(S \ {i}) = Cardinality(S) - 1
      /\ i \notin S => /\ Cardinality(S \union {i}) = Cardinality(S) + 1
                       /\ Cardinality(S \ {i}) = Cardinality(S)
  BY <1>3, CountStep
<1>5. Cardinality(PresentIn(array', total')) =
        IF i \notin S /\ e # Zero THEN Cardinality(S) + 1
        ELSE IF i \in S /\ e = Zero THEN Cardinality(S) - 1 ELSE Cardinality(S)
  BY <1>2, <1>3, <1>c
<1>6. Present = S /\ Present' = PresentIn(array', total')
  BY DEF S, Present
<1> QED
  BY <1>1, <1>2, <1>3, <1>4, <1>5, <1>6 DEF ArrayType

LEMMA UnsetStep ==
    ASSUME ArrayType, NEW i \in Nat, lk_array_unset(i)
    PROVE  /\ ArrayType'
           /\ count' - Cardinality(Present') = count - Cardinality(Present)
<1>1. array \in [Indices(total) -> Item] /\ total \in Nat /\ count \in Int
  BY DEF ArrayType
<1> DEFINE S == PresentIn(array, total)
<1>2. i \in Indices(total) /\ i \in S
  BY DEF lk_array_unset, lk_array_exists, PresentIn
<1>3. total' = total /\ array' \in [Indices(total') -> Item]
  BY <1>1, <1>2 DEF lk_array_unset, Item
<1>4. PresentIn(array', total') = S \ {i}
  BY <1>1, <1>2, <1>3 DEF lk_array_unset, PresentIn
<1>5. IsFiniteSet(S) /\ Cardinality(S) \in Nat
  BY <1>1, PresentFinite
<1>6. Present = S /\ Present' = PresentIn(array', total')
  BY DEF Present
<1>7. count' = count - 1
  BY DEF lk_array_unset
<1> HIDE DEF S
<1>8. Cardinality(S \ {i}) = Cardinality(S) - 1
  BY <1>2, <1>5, CountStep
<1> QED
  BY <1>1, <1>3, <1>4, <1>5, <1>6, <1>7, <1>8 DEF ArrayType

LEMMA AppendStep ==
    ASSUME ArrayType, count \in Nat, NEW e \in Item, lk_array_append(e)
    PROVE  /\ ArrayType'
           /\ count' = count + 1
           /\ Cardinality(Present') <= Cardinality(Present) + 1
<1>1. array \in [Indices(total) -> Item] /\ total \in Nat
  BY DEF ArrayType
<1> DEFINE S == PresentIn(array, total)
<1>0. /\ array' = Store(array, total, count, e)
      /\ total' = ResizedTotal(total, count)
  BY DEF lk_array_append
<1>2. /\ total' \in Nat
      /\ array' \in [Indices(total') -> Item]
      /\ PresentIn(array', total') = IF e # Zero THEN S \union {count} ELSE S \ {count}
  BY <1>0, <1>1, StoreItem
<1>3. IsFiniteSet(S) /\ Cardinality(S) \in Nat
  BY <1>1, PresentFinite
<1>4. count' = count + 1
  BY DEF lk_array_append
<1>6. Present = S /\ Present' = PresentIn(array', total')
  BY DEF Present
<1> HIDE DEF S
<1>c. /\ Cardinality(S \union {count}) \in {Cardinality(S), Cardinality(S) + 1}
      /\ Cardinality(S \ {count}) \in {Cardinality(S), Cardinality(S) - 1}
  BY <1>3, CountStep
<1>5. Cardinality(PresentIn(array', total')) <= Cardinality(S) + 1
  BY <1>2, <1>3, <1>c
<1> QED
  BY <1>2, <1>4, <1>5, <1>6 DEF ArrayType

LEMMA EmptyStep ==
    ASSUME ArrayType, lk_array_empty
    PROVE  /\ ArrayType'
           /\ count' = 0
           /\ Cardinality(Present') = 0
<1>1. total' = total /\ count' = 0 /\ array' = [i \in Indices(total) |-> Zero]
  BY DEF lk_array_empty
<1>2. ArrayType'
  BY <1>1 DEF ArrayType, Item
<1>3. Present' = {}
  BY <1>1 DEF Present, PresentIn
<1> QED
  BY <1>1, <1>2, <1>3, FS_EmptySet

LEMMA InitStep ==
    ASSUME ArrayInit
    PROVE  ArrayType /\ count = 0 /\ Cardinality(Present) = 0
<1>1. ArrayType /\ count = 0
  BY DEF ArrayInit, ArrayType, Item, Indices
<1>2. Present = {}
  BY DEF ArrayInit, Present, PresentIn, Indices
<1> QED
  BY <1>1, <1>2, FS_EmptySet

-----------------------------------------------------------------------------
(* The inductive invariant is kept by every call.                          *)
LEMMA InvariantKept ==
    /\ ArrayInit => ArrayInv
    /\ ArrayInv /\ [ArrayNext]_arrayvars => ArrayInv'
    /\ ArrayInv => ArrayTypeOK
<1>1. ArrayInit => ArrayInv
  BY InitStep DEF ArrayInv, CountCoversPresent
<1>2. ArrayInv /\ [ArrayNext]_arrayvars => ArrayInv'
  <2> SUFFICES ASSUME ArrayInv, [ArrayNext]_arrayvars PROVE ArrayInv'
    OBVIOUS
  <2>0. /\ ArrayType /\ Cardinality(Present) <= count
        /\ Cardinality(Present) \in Nat /\ count \in Nat
    BY PresentFinite DEF ArrayInv, CountCoversPresent, ArrayType, Present
  <2>1. CASE \E i \in Indices(MaxTotal), e \in Stored : lk_array_set(i, e)
    <3>1. PICK i \in Nat, e \in Item : lk_array_set(i, e)
      BY <2>1, ArrayAssumption DEF Indices, Item
    <3>2. ArrayType' /\ count' - Cardinality(Present') = count - Cardinality(Present)
      BY <2>0, <3>1, SetStep
    <3>3. Cardinality(Present') \in Nat
      BY <3>2, PresentFinite DEF ArrayType, Present
    <3> QED
      BY <2>0, <3>2, <3>3 DEF ArrayInv, CountCoversPresent, ArrayType
  <2>2. CASE \E i \in Indices(MaxTotal) : lk_array_unset(i)
    <3>1. PICK i \in Nat : lk_array_unset(i)
      BY <2>2, ArrayAssumption DEF Indices
    <3>2. ArrayType' /\ count' - Cardinality(Present') = count - Cardinality(Present)
      BY <2>0, <3>1, UnsetStep
    <3>3. Cardinality(Present') \in Nat
      BY <3>2, PresentFinite DEF ArrayType, Present
    <3> QED
      BY <2>0, <3>2, <3>3 DEF ArrayInv, CountCoversPresent, ArrayType
  <2>3. CASE \E e \in Stored : lk_array_append(e)
    <3>1. PICK e \in Item : lk_array_append(e)
      BY <2>3, ArrayAssumption DEF Item
    <3>2. /\ ArrayType' /\ count' = count + 1
          /\ Cardinality(Present') <= Cardinality(Present) + 1
      BY <2>0, <3>1, AppendStep
    <3>3. Cardinality(Present') \in Nat
      BY <3>2, PresentFinite DEF ArrayType, Present
    <3> QED
      BY <2>0, <3>2, <3>3 DEF ArrayInv, CountCoversPresent, ArrayType
  <2>4. CASE lk_array_empty
    BY <2>0, <2>4, EmptyStep DEF ArrayInv, CountCoversPresent
  <2>5. CASE UNCHANGED arrayvars
    BY <2>0, <2>5 DEF ArrayInv, CountCoversPresent, ArrayType, Present, PresentIn, arrayvars
  <2> QED
    BY <2>1, <2>2, <2>3, <2>4, <2>5 DEF ArrayNext
<1>3. ArrayInv => ArrayTypeOK
  BY PresentFinite DEF ArrayInv, ArrayType, ArrayTypeOK, CountCoversPresent, Present
<1> QED
  BY <1>1, <1>2, <1>3

(* Whatever mix of set, unset, append and empty an owner calls, the array  *)
(* stays well-formed, count covers the present items, and so the unguarded *)
(* "a->count--" of lk_array_unset and lk_array_set never wraps around.     *)
THEOREM CountNeverWraps == ArraySpec => [](ArrayTypeOK /\ CountCoversPresent)
<1>1. ArrayInv => CountCoversPresent
  BY DEF ArrayInv
<1> QED
  BY <1>1, InvariantKept, PTL DEF ArraySpec

(* For an owner that only sets and unsets (keymap, key maps, key_constant, *)
(* func_table), count is what array.h calls it: the number of elements.    *)
THEOREM SparseCount == ArraySpec => []CountIsPresent
<1> DEFINE SInv == ArrayInv /\ CountIsPresent
<1>1. ArrayInit => SInv
  BY InitStep, InvariantKept DEF CountIsPresent
<1>2. SInv /\ [ArrayNext]_arrayvars => SInv'
  <2> SUFFICES ASSUME SInv, [ArrayNext]_arrayvars, calls' \subseteq {"set", "unset"}
               PROVE  count' = Cardinality(Present')
    BY InvariantKept DEF CountIsPresent, SparseOwner
  <2>s. calls' = calls
    BY DEF ArrayNext, arrayvars
  <2>0. ArrayType /\ count = Cardinality(Present) /\ Cardinality(Present) \in Nat
    BY <2>s, PresentFinite DEF ArrayInv, CountIsPresent, SparseOwner, ArrayType, Present
  <2>1. CASE \E i \in Indices(MaxTotal), e \in Stored : lk_array_set(i, e)
    <3>1. PICK i \in Nat, e \in Item : lk_array_set(i, e)
      BY <2>1, ArrayAssumption DEF Indices, Item
    <3>2. ArrayType' /\ count' - Cardinality(Present') = count - Cardinality(Present)
      BY <2>0, <3>1, SetStep
    <3>3. Cardinality(Present') \in Nat
      BY <3>2, PresentFinite DEF ArrayType, Present
    <3> QED
      BY <2>0, <3>2, <3>3 DEF ArrayType
  <2>2. CASE \E i \in Indices(MaxTotal) : lk_array_unset(i)
    <3>1. PICK i \in Nat : lk_array_unset(i)
      BY <2>2, ArrayAssumption DEF Indices
    <3>2. ArrayType' /\ count' - Cardinality(Present') = count - Cardinality(Present)
      BY <2>0, <3>1, UnsetStep
    <3>3. Cardinality(Present') \in Nat
      BY <3>2, PresentFinite DEF ArrayType, Present
    <3> QED
      BY <2>0, <3>2, <3>3 DEF ArrayType
  <2>3. ~ \E e \in Stored : lk_array_append(e)
    BY <2>s DEF lk_array_append
  <2>4. ~ lk_array_empty
    BY <2>s DEF lk_array_empty
  <2>5. CASE UNCHANGED arrayvars
    BY <2>0, <2>5 DEF Present, PresentIn, arrayvars
  <2> QED
    BY <2>1, <2>2, <2>3, <2>4, <2>5 DEF ArrayNext
<1> QED
  BY <1>1, <1>2, PTL DEF ArraySpec

-----------------------------------------------------------------------------
(* For an owner that only appends and empties (ctx->key_line).             *)

ListInv ==
    ListOwner => /\ ArrayTypeOK
                 /\ AppendSlotFree
                 /\ count <= MaxTotal

LEMMA ListAppend ==
    ASSUME ListInv, ListOwner, calls' = calls, NEW e \in Stored, lk_array_append(e)
    PROVE  ListInv' /\ AsList' = Append(AsList, e) /\ Len(AsList) = count
<1>1. /\ total \in Nat /\ count \in Nat /\ array \in [Indices(total) -> Item]
      /\ count <= total /\ count < MaxTotal /\ e \in Item /\ MaxTotal \in Nat
  BY ArrayAssumption DEF ListInv, ArrayTypeOK, AppendSlotFree, lk_array_append, Item
<1>2. /\ array' = Store(array, total, count, e) /\ count' = count + 1
      /\ total' = ResizedTotal(total, count)
  BY DEF lk_array_append
<1>3. total' \in Nat /\ array' \in [Indices(total') -> Item]
  BY <1>1, <1>2, StoreItem
<1>4. total <= total' /\ count < total'
  BY <1>1, <1>2 DEF ResizedTotal
<1>5. \A j \in Indices(total') :
         array'[j] = IF j = count THEN e ELSE IF j < total THEN array[j] ELSE Zero
  BY <1>1, <1>2, <1>4 DEF Store, Resized, ResizedTotal, Indices
<1>6. \A j \in Indices(total) : j >= count => array[j] = Zero
  BY DEF ListInv, AppendSlotFree
<1>7. AppendSlotFree'
  BY <1>1, <1>2, <1>3, <1>4, <1>5, <1>6 DEF AppendSlotFree, Indices
<1>8. AsList \in Seq(Item) /\ Len(AsList) = count
  BY <1>1 DEF AsList, Indices
<1>9. AsList' = Append(AsList, e)
  <2>0. ListOwner'
    BY DEF ListOwner
  <2>1. AsList' = [i \in 1 .. count + 1 |-> array'[i - 1]]
    BY <1>2, <2>0 DEF AsList
  <2>2. \A i \in 1 .. count + 1 : array'[i - 1] = IF i = count + 1 THEN e ELSE array[i - 1]
    <3> SUFFICES ASSUME NEW i \in Int, 1 <= i, i <= count + 1
                 PROVE  array'[i - 1] = IF i = count + 1 THEN e ELSE array[i - 1]
      BY <1>1
    <3> DEFINE j == i - 1
    <3>a. count \in Nat /\ total \in Nat /\ total' \in Nat
      BY <1>1, <1>3
    <3>b. count < total' /\ count <= total
      BY <1>1, <1>4
    <3>c. j \in Int /\ 0 <= j /\ j <= count
      BY <3>a
    <3>d. j = count <=> i = count + 1
      BY <3>a
    <3> HIDE DEF j
    <3>e. \A m \in Nat : count < m => j \in Indices(m)
      BY <3>a, <3>c DEF Indices
    <3>1. j \in Indices(total') /\ (j # count => j < total)
      BY <3>a, <3>b, <3>c, <3>e
    <3>2. array'[j] = IF i = count + 1 THEN e ELSE array[j]
      BY <1>5, <3>1, <3>d
    <3> QED
      BY <3>2 DEF j
  <2>3. Append(AsList, e) = [i \in 1 .. count + 1 |-> IF i = count + 1 THEN e ELSE array[i - 1]]
    BY <1>1, <1>8 DEF AsList
  <2> QED
    BY <2>1, <2>2, <2>3
<1> QED
  BY <1>1, <1>2, <1>3, <1>7, <1>8, <1>9 DEF ListInv, ArrayTypeOK

LEMMA ListEmpty ==
    ASSUME ListInv, ListOwner, calls' = calls, lk_array_empty
    PROVE  ListInv' /\ AsList' = <<>>
<1>1. total \in Nat /\ MaxTotal \in Nat
  BY ArrayAssumption DEF ListInv, ArrayTypeOK
<1>2. total' = total /\ count' = 0 /\ array' = [i \in Indices(total) |-> Zero]
  BY DEF lk_array_empty
<1>3. ListInv'
  BY <1>1, <1>2 DEF ListInv, ArrayTypeOK, AppendSlotFree, Item
<1>4. AsList' = <<>>
  BY <1>2 DEF AsList
<1> QED
  BY <1>3, <1>4

(* An owner of another kind shows an empty list that never changes.        *)
LEMMA ListInvariant ==
    /\ ArrayInit => ListInv
    /\ ListInv /\ [ArrayNext]_arrayvars => ListInv'
    /\ ListInv /\ [ArrayNext]_arrayvars => [List!ListNext]_AsList
<1>1. ArrayInit => ListInv
  BY ArrayAssumption DEF ArrayInit, ListInv, ArrayTypeOK, AppendSlotFree, Indices
<1>2. ASSUME ListInv, [ArrayNext]_arrayvars
      PROVE  ListInv' /\ [List!ListNext]_AsList
  <2>0. calls' = calls /\ (ListOwner' <=> ListOwner)
    BY <1>2 DEF ArrayNext, arrayvars, ListOwner
  <2>1. CASE ListOwner /\ \E e \in Stored : lk_array_append(e)
    <3>1. PICK e \in Stored : lk_array_append(e)
      BY <2>1
    <3>2. ListInv' /\ AsList' = Append(AsList, e) /\ Len(AsList) = count
      BY <1>2, <2>0, <2>1, <3>1, ListAppend
    <3>3. count < MaxTotal
      BY <3>1 DEF lk_array_append
    <3> QED
      BY <3>2, <3>3 DEF List!ListNext, List!AppendValue
  <2>2. CASE ListOwner /\ lk_array_empty
    BY <1>2, <2>0, <2>2, ListEmpty DEF List!ListNext, List!StartLine
  <2>3. CASE UNCHANGED arrayvars
    <3>1. ListInv'
      BY <1>2, <2>3 DEF ListInv, ArrayTypeOK, AppendSlotFree, ListOwner, arrayvars
    <3>2. AsList' = AsList
      BY <2>3 DEF AsList, ListOwner, arrayvars
    <3> QED
      BY <3>1, <3>2
  <2>4. CASE ~ListOwner
    BY <2>0, <2>4 DEF ListInv, AsList
  <2>5. ListOwner => /\ ~ \E i \in Indices(MaxTotal), e \in Stored : lk_array_set(i, e)
                     /\ ~ \E i \in Indices(MaxTotal) : lk_array_unset(i)
    BY DEF lk_array_set, lk_array_unset, ListOwner
  <2> QED
    BY <1>2, <2>1, <2>2, <2>3, <2>4, <2>5 DEF ArrayNext
<1> QED
  BY <1>1, <1>2

(* An append of such an owner writes to a zero slot inside or just behind  *)
(* the allocation: no value of the line read so far is lost.               *)
THEOREM AppendNeverOverwrites == ArraySpec => []AppendSlotFree
<1>1. ListInv => AppendSlotFree
  BY DEF ListInv, AppendSlotFree
<1> QED
  BY <1>1, ListInvariant, PTL DEF ArraySpec

(* ctx->key_line is a list: every lk_array_append adds the value at its    *)
(* end, lk_array_empty starts a new line, whatever memory is reused.       *)
THEOREM KeyLineIsList == ArraySpec => RefinesList
<1>1. ArrayInit => List!ListInit
  BY DEF ArrayInit, AsList, List!ListInit
<1> QED
  BY <1>1, ListInvariant, PTL DEF ArraySpec, RefinesList, List!ListSpec

-----------------------------------------------------------------------------
(* The key tables                                                          *)

Cell == Code \union {NoKey}

(* The line being stored, and the loop over the tables.                    *)
LineOK ==
    /\ pc = "columns" => /\ line.key \in Key
                         /\ line.entries \in Lines
                         /\ "keymaps" \in keywords => todo \subseteq maps
    /\ col \in Nat

(* A keymaps line names at least one table.                                *)
KeymapsNonEmpty == "keymaps" \in keywords => maps # {}

(* Where lk_add_constants will read a marked key: without a keymaps line   *)
(* the plain table exists, or the one-entry line that marked the key is    *)
(* about to create it.                                                     *)
PlainReadable ==
    (constant # {} /\ "keymaps" \notin keywords /\ pc # "failed") =>
        0 \in maps \/ (pc = "columns" /\ 0 \in todo)

(* The loop of do_constant_key and how far lk_add_constants has come.      *)
FillOK ==
    /\ pc = "fill" => /\ line.key \in rest
                      /\ line.entries[1] \in Code
                      /\ todo \subseteq maps
                      /\ \A t \in maps \ {0} : t \notin todo => keys[t][line.key] # NoKey
    /\ pc \in {"constants", "fill"} => rest \subseteq constant
    /\ pc \in {"constants", "fill", "done"} =>
           \A k \in constant \ rest, t \in maps \ {0} : keys[t][k] # NoKey
    /\ pc = "done" => rest = {}

IInv == TypeOK /\ LineOK /\ KeymapsNonEmpty /\ PlainReadable /\ FillOK

-----------------------------------------------------------------------------
(* A set of numbers that is not empty has a least element, so the loops    *)
(* always find a next table.                                               *)
LEMMA FirstIn ==
    ASSUME NEW S, S \subseteq Nat, S # {}
    PROVE  First(S) \in S /\ \A y \in S : First(S) <= y
<1>1. PICK x \in S : \A y \in S : ~ (<<y, x>> \in OpToRel(<, Nat))
  BY NatLessThanWellFounded, WFMin
<1>2. ASSUME NEW y \in S, y < x PROVE FALSE
  <2>1. <<y, x>> \in Nat \X Nat /\ <<y, x>>[1] = y /\ <<y, x>>[2] = x
    OBVIOUS
  <2>2. <<y, x>> \in OpToRel(<, Nat)
    BY <1>2, <2>1, Zenon DEF OpToRel
  <2> QED
    BY <1>1, <2>2
<1>3. \A y \in S : x <= y
  BY <1>2
<1> QED
  BY <1>3 DEF First

LEMMA FirstZero ==
    ASSUME NEW S, S \subseteq Nat, 0 \in S
    PROVE  First(S) = 0
<1>1. First(S) \in S /\ \A y \in S : First(S) <= y
  BY FirstIn
<1>2. First(S) \in Nat /\ First(S) <= 0
  BY <1>1
<1> QED
  BY <1>2

LEMMA PutOK ==
    ASSUME NEW cells \in [Table -> [Key -> Cell]],
           NEW t \in Table, NEW k \in Key, NEW c \in Code
    PROVE  /\ Put(cells, t, k, c) \in [Table -> [Key -> Cell]]
           /\ Put(cells, t, k, c)[t][k] = c
           /\ \A u \in Table, j \in Key :
                 (u # t \/ j # k) => Put(cells, t, k, c)[u][j] = cells[u][j]
BY DEF Put, Cell

(* What a successful lk_add_key does to the cells: it fills its own cell,  *)
(* empties none, and touches no table that does not exist.                 *)
LEMMA AddKeyOK ==
    ASSUME keys \in [Table -> [Key -> Cell]], maps \subseteq Table,
           NEW t \in Table, NEW k \in Key, NEW c \in Code
    PROVE  /\ AddKey(t, k, c) \in [Table -> [Key -> Cell]]
           /\ AddKey(t, k, c)[t][k] # NoKey
           /\ \A u \in Table, j \in Key : keys[u][j] # NoKey => AddKey(t, k, c)[u][j] # NoKey
           /\ \A u \in Table \ (maps \union {t}), j \in Key : AddKey(t, k, c)[u][j] = keys[u][j]
<1>0. NoKey \notin Code
  BY KeymapAssumption
<1>1. CASE Kept(t, k, c)
  BY <1>1 DEF AddKey, Kept
<1>2. CASE ~Kept(t, k, c) /\ ~GivesMeta(t, k, c)
  <2>1. AddKey(t, k, c) = Put(keys, t, k, c)
    BY <1>2 DEF AddKey
  <2>2. /\ Put(keys, t, k, c) \in [Table -> [Key -> Cell]]
        /\ Put(keys, t, k, c)[t][k] = c
        /\ \A u \in Table, j \in Key :
              (u # t \/ j # k) => Put(keys, t, k, c)[u][j] = keys[u][j]
    BY PutOK
  <2> QED
    BY <1>0, <2>1, <2>2
<1>3. CASE ~Kept(t, k, c) /\ GivesMeta(t, k, c)
  <2> DEFINE a == WithAlt(t)
             m == K("META", c.val)
             once == Put(keys, t, k, c)
  <2>1. AddKey(t, k, c) = Put(once, a, k, m)
    BY <1>3 DEF AddKey
  <2>2. a \in maps /\ a \in Table /\ a # t
    BY <1>3 DEF GivesMeta
  <2>3. m \in Code
    BY DEF K, Code, KeyType
  <2>4. /\ once \in [Table -> [Key -> Cell]]
        /\ once[t][k] = c
        /\ \A u \in Table, j \in Key : (u # t \/ j # k) => once[u][j] = keys[u][j]
    BY PutOK
  <2> HIDE DEF a, m, once
  <2>5. /\ Put(once, a, k, m) \in [Table -> [Key -> Cell]]
        /\ Put(once, a, k, m)[a][k] = m
        /\ \A u \in Table, j \in Key : (u # a \/ j # k) => Put(once, a, k, m)[u][j] = once[u][j]
    BY <2>2, <2>3, <2>4 DEF Put, Cell
  <2> QED
    BY <1>0, <2>1, <2>2, <2>3, <2>4, <2>5
<1> QED
  BY <1>1, <1>2, <1>3

(* The entries do_constant_key makes are keysyms.                          *)
LEMMA ConstantForOK ==
    ASSUME NEW c \in Code, NEW t \in Nat
    PROVE  ConstantFor(c, t) \in Code
<1>1. CASE ~IsLetter(c)
  BY <1>1 DEF ConstantFor
<1>2. CASE IsLetter(c)
  <2>1. c.val \in 65 .. 122
    BY <1>2 DEF IsLetter, Code
  <2>2. Control(c.val) \in 0 .. 255
    BY <2>1 DEF Control
  <2>3. OtherCase(c.val) \in 0 .. 255
    BY <1>2 DEF OtherCase, IsLetter, Code
  <2>4. c.val \in 0 .. 255
    BY DEF Code
  <2> QED
    BY <1>2, <2>2, <2>3, <2>4 DEF ConstantFor, Defs, K, Code, KeyType
<1> QED
  BY <1>1, <1>2
-----------------------------------------------------------------------------
LEMMA InitOK == Init => IInv
BY KeymapAssumption DEF Init, IInv, TypeOK, LineOK, KeymapsNonEmpty, PlainReadable, FillOK

LEMMA KeymapsLineOK ==
    ASSUME IInv, NEW R \in SUBSET Table, R # {}, KeymapsLine(R)
    PROVE  IInv'
BY DEF IInv, TypeOK, LineOK, KeymapsNonEmpty, PlainReadable, FillOK, KeymapsLine

LEMMA KeymapsLineFailsOK ==
    ASSUME IInv, NEW R \in SUBSET Table, KeymapsLineFails(R)
    PROVE  IInv'
BY DEF IInv, TypeOK, LineOK, KeymapsNonEmpty, PlainReadable, FillOK, KeymapsLineFails

LEMMA AltIsMetaLineOK ==
    ASSUME IInv, AltIsMetaLine
    PROVE  IInv'
BY DEF IInv, TypeOK, LineOK, KeymapsNonEmpty, PlainReadable, FillOK, AltIsMetaLine

LEMMA KeycodeLineOK ==
    ASSUME IInv, NEW k \in Key, NEW entries \in Lines, KeycodeLine(k, entries)
    PROVE  IInv'
<1>1. PICK n \in 0 .. MaxColumns : entries \in [1 .. n -> Entry]
  BY DEF Lines
<1>2. n \in Nat /\ Len(entries) = n /\ 0 .. (n - 1) \subseteq Table
  BY <1>1, KeymapAssumption
<1>3. keys' \in [Table -> [Key -> Cell]]
  BY DEF IInv, TypeOK, KeycodeLine, DelKey, Cell
<1>4. \A t \in Table, j \in Key : keys[t][j] = NoKey => keys'[t][j] = NoKey
  BY DEF IInv, TypeOK, KeycodeLine, DelKey
<1>5. TypeOK'
  BY <1>2, <1>3, <1>4 DEF IInv, TypeOK, KeycodeLine, Cell
<1>6. LineOK'
  BY DEF IInv, LineOK, KeycodeLine
<1>7. KeymapsNonEmpty'
  BY DEF IInv, KeymapsNonEmpty, KeycodeLine
<1>8. PlainReadable'
  <2>1. CASE Len(entries) = 1
    BY <2>1, <1>2 DEF KeycodeLine, PlainReadable
  <2>2. CASE Len(entries) # 1
    BY <2>2 DEF IInv, KeycodeLine, PlainReadable
  <2> QED
    BY <2>1, <2>2
<1>9. FillOK'
  BY DEF IInv, FillOK, KeycodeLine
<1> QED
  BY <1>5, <1>6, <1>7, <1>8, <1>9 DEF IInv

LEMMA StoreColumnOK ==
    ASSUME IInv, StoreColumn
    PROVE  IInv'
<1> DEFINE t == First(todo)
           k == line.key
           given == Len(line.entries) # 1 \/ col = 0
           c == IF col < Len(line.entries) THEN line.entries[col + 1] ELSE K_HOLE
<1>1. /\ pc = "columns" /\ todo # {} /\ todo \subseteq Table /\ Table \subseteq Nat
      /\ k \in Key /\ col \in Nat /\ line.entries \in Lines
      /\ keys \in [Table -> [Key -> Cell]] /\ maps \subseteq Table
      /\ UNCHANGED <<constant, keywords, line, rest>>
  BY KeymapAssumption DEF IInv, TypeOK, LineOK, StoreColumn, Cell
<1>2. t \in todo
  BY <1>1, FirstIn
<1>3. PICK n \in 0 .. MaxColumns : line.entries \in [1 .. n -> Entry]
  BY <1>1 DEF Lines
<1>4. c \in Code \union {BadCode}
  <2>1. n \in Nat /\ Len(line.entries) = n
    BY <1>3, KeymapAssumption
  <2>2. col < n => line.entries[col + 1] \in Entry
    BY <1>1, <1>3, <2>1
  <2>3. K_HOLE \in Code
    BY DEF K_HOLE, K, Code, KeyType
  <2> QED
    BY <2>1, <2>2, <2>3, KeymapAssumption
<1> HIDE DEF t, k, given, c
<1>5. CASE given /\ AddKeyFails(t, c)
  <2>1. pc' = "failed" /\ UNCHANGED <<maps, keys, todo, col, explicit>>
    BY <1>5 DEF StoreColumn, t, k, given, c
  <2> QED
    BY <1>1, <2>1 DEF IInv, TypeOK, LineOK, KeymapsNonEmpty, PlainReadable, FillOK
<1>6. CASE ~(given /\ AddKeyFails(t, c))
  <2>1. /\ keys' = IF given THEN AddKey(t, k, c) ELSE keys
        /\ maps' = maps \union {t} /\ todo' = todo \ {t} /\ col' = col + 1 /\ pc' = pc
    BY <1>6 DEF StoreColumn, t, k, given, c
  <2>2. given => c \in Code
    BY <1>4, <1>6 DEF AddKeyFails
  <2>3. t \in Table
    BY <1>1, <1>2
  <2>4. given => /\ AddKey(t, k, c) \in [Table -> [Key -> Cell]]
                 /\ \A u \in Table \ (maps \union {t}), j \in Key :
                       AddKey(t, k, c)[u][j] = keys[u][j]
    BY <1>1, <2>2, <2>3, AddKeyOK
  <2>5. TypeOK'
    BY <1>1, <2>1, <2>3, <2>4 DEF IInv, TypeOK, Cell
  <2>6. LineOK'
    <3>1. "keymaps" \in keywords' => todo' \subseteq maps'
      BY <1>1, <2>1 DEF IInv, LineOK
    <3>2. line.key' \in Key /\ line.entries' \in Lines /\ col' \in Nat
      BY <1>1, <2>1 DEF k
    <3> QED
      BY <3>1, <3>2 DEF LineOK
  <2>7. KeymapsNonEmpty'
    BY <2>1 DEF KeymapsNonEmpty
  <2>8. PlainReadable'
    BY <1>1, <2>1 DEF IInv, PlainReadable
  <2>9. FillOK'
    BY <1>1, <2>1 DEF FillOK
  <2> QED
    BY <2>5, <2>6, <2>7, <2>8, <2>9 DEF IInv
<1> QED
  BY <1>5, <1>6

LEMMA EndLineOK ==
    ASSUME IInv, EndLine
    PROVE  IInv'
BY DEF IInv, TypeOK, LineOK, KeymapsNonEmpty, PlainReadable, FillOK, EndLine

LEMMA ModifierLineOK ==
    ASSUME IInv, NEW t \in Table, NEW k \in Key, NEW c \in Entry, ModifierLine(t, k, c)
    PROVE  IInv'
<1>1. /\ pc = "line" /\ keys \in [Table -> [Key -> Cell]] /\ maps \subseteq Table
      /\ UNCHANGED <<constant, keywords, line, todo, col, rest>>
  BY DEF IInv, TypeOK, ModifierLine, Cell
<1>2. CASE AddKeyFails(t, c)
  <2>1. pc' = "failed" /\ UNCHANGED <<maps, keys>>
    BY <1>2 DEF ModifierLine
  <2> QED
    BY <1>1, <2>1 DEF IInv, TypeOK, LineOK, KeymapsNonEmpty, PlainReadable, FillOK
<1>3. CASE ~AddKeyFails(t, c)
  <2>1. keys' = AddKey(t, k, c) /\ maps' = maps \union {t} /\ pc' = pc
    BY <1>3 DEF ModifierLine
  <2>2. c \in Code
    BY <1>3, KeymapAssumption DEF AddKeyFails
  <2>3. /\ AddKey(t, k, c) \in [Table -> [Key -> Cell]]
        /\ \A u \in Table \ (maps \union {t}), j \in Key : AddKey(t, k, c)[u][j] = keys[u][j]
    BY <1>1, <2>2, AddKeyOK
  <2>4. TypeOK'
    BY <1>1, <2>1, <2>3 DEF IInv, TypeOK, Cell
  <2> QED
    BY <1>1, <2>1, <2>4 DEF IInv, LineOK, KeymapsNonEmpty, PlainReadable, FillOK
<1> QED
  BY <1>2, <1>3

LEMMA EndOfInputOK ==
    ASSUME IInv, EndOfInput
    PROVE  IInv'
BY DEF IInv, TypeOK, LineOK, KeymapsNonEmpty, PlainReadable, FillOK, EndOfInput

(* The table a marked key is read from exists.                             *)
LEMMA ReadTableExists ==
    ASSUME IInv, pc \in {"constants", "fill"}, constant # {}
    PROVE  r0 \in maps
<1>1. CASE "keymaps" \in keywords
  <2>1. maps # {} /\ maps \subseteq Nat
    BY <1>1, KeymapAssumption DEF IInv, KeymapsNonEmpty, TypeOK
  <2> QED
    BY <1>1, <2>1, FirstIn DEF r0
<1>2. CASE "keymaps" \notin keywords
  BY <1>2 DEF IInv, PlainReadable, r0
<1> QED
  BY <1>1, <1>2

LEMMA NextConstantOK ==
    ASSUME IInv, NextConstant
    PROVE  IInv'
<1> DEFINE k == First(rest)
           c == lk_get_key(r0, k)
<1>1. /\ pc = "constants" /\ rest # {} /\ rest \subseteq constant /\ rest \subseteq Nat
      /\ rest \subseteq Key /\ maps \subseteq Table /\ keys \in [Table -> [Key -> Cell]]
      /\ UNCHANGED <<maps, keys, constant, keywords, col, rest, explicit>>
  BY KeymapAssumption DEF IInv, TypeOK, FillOK, NextConstant, Cell
<1>2. k \in rest
  BY <1>1, FirstIn
<1>3. r0 \in maps
  BY <1>1, ReadTableExists
<1>4. c \in Code
  <2>1. keys[r0][k] \in Cell
    BY <1>1, <1>2, <1>3
  <2>2. K_HOLE \in Code
    BY DEF K_HOLE, K, Code, KeyType
  <2> QED
    BY <2>1, <2>2 DEF lk_get_key, Cell
<1> HIDE DEF k, c
<1>5. pc' = "fill" /\ line' = [key |-> k, entries |-> <<c>>] /\ todo' = ConstantTables(c)
  BY <1>3 DEF NextConstant, k, c
<1>6. ConstantTables(c) \subseteq maps /\ \A t \in maps \ {0} : t \in ConstantTables(c)
  BY DEF ConstantTables
<1>7. line'.key = k /\ line'.entries[1] = c
  BY <1>5
<1>8. TypeOK'
  BY <1>1, <1>5, <1>6 DEF IInv, TypeOK
<1>9. FillOK'
  BY <1>1, <1>2, <1>4, <1>5, <1>6, <1>7 DEF IInv, FillOK
<1> QED
  BY <1>1, <1>5, <1>8, <1>9 DEF IInv, LineOK, KeymapsNonEmpty, PlainReadable

LEMMA FillColumnOK ==
    ASSUME IInv, FillColumn
    PROVE  IInv'
<1> DEFINE t == First(todo)
           k == line.key
           c == ConstantFor(line.entries[1], t)
<1>1. /\ pc = "fill" /\ todo # {} /\ todo \subseteq maps /\ maps \subseteq Table
      /\ Table \subseteq Nat /\ k \in Key /\ k \in rest /\ line.entries[1] \in Code
      /\ keys \in [Table -> [Key -> Cell]]
      /\ todo' = todo \ {t}
      /\ UNCHANGED <<maps, constant, keywords, pc, line, col, rest, explicit>>
  BY KeymapAssumption DEF IInv, TypeOK, FillOK, FillColumn, Cell
<1>2. t \in todo /\ t \in Table /\ t \in Nat
  BY <1>1, FirstIn
<1>3. c \in Code
  BY <1>1, <1>2, ConstantForOK
<1>4. keys' = IF t > 0 /\ keys[t][k] # NoKey THEN keys ELSE AddKey(t, k, c)
  BY DEF FillColumn
<1> HIDE DEF t, k, c
<1>5. /\ AddKey(t, k, c) \in [Table -> [Key -> Cell]]
      /\ AddKey(t, k, c)[t][k] # NoKey
      /\ \A u \in Table, j \in Key : keys[u][j] # NoKey => AddKey(t, k, c)[u][j] # NoKey
      /\ \A u \in Table \ (maps \union {t}), j \in Key : AddKey(t, k, c)[u][j] = keys[u][j]
  <2>1. keys \in [Table -> [Key -> Cell]] /\ maps \subseteq Table
    BY <1>1
  <2>2. t \in Table /\ k \in Key /\ c \in Code
    BY <1>1, <1>2, <1>3
  <2> QED
    BY <2>1, <2>2, AddKeyOK
<1>6. /\ keys' \in [Table -> [Key -> Cell]]
      /\ t > 0 => keys'[t][k] # NoKey
      /\ \A u \in Table, j \in Key : keys[u][j] # NoKey => keys'[u][j] # NoKey
      /\ \A u \in Table \ maps, j \in Key : keys'[u][j] = keys[u][j]
  BY <1>1, <1>2, <1>4, <1>5
<1>7. TypeOK'
  <2>1. keys' \in [Table -> [Key -> Code \union {NoKey}]]
    BY <1>6 DEF Cell
  <2>2. \A u \in Table \ maps' : \A j \in Key : keys'[u][j] = NoKey
    <3>1. \A u \in Table \ maps : \A j \in Key : keys[u][j] = NoKey
      BY DEF IInv, TypeOK
    <3> QED
      BY <1>1, <1>6, <3>1
  <2>3. /\ maps' \subseteq Table /\ constant' \subseteq Key
        /\ keywords' \subseteq {"keymaps", "altismeta"}
        /\ pc' \in {"line", "columns", "constants", "fill", "done", "failed"}
        /\ todo' \subseteq Table /\ rest' \subseteq Key
    BY <1>1 DEF IInv, TypeOK
  <2> QED
    BY <2>1, <2>2, <2>3 DEF TypeOK
<1>8. \A u \in maps \ {0} : u \notin todo' => keys'[u][k] # NoKey
  <2> SUFFICES ASSUME NEW u \in maps, u # 0, u \notin todo'
               PROVE  keys'[u][k] # NoKey
    OBVIOUS
  <2>1. CASE u = t
    BY <1>1, <1>2, <1>6, <2>1
  <2>2. CASE u # t
    <3>1. keys[u][k] # NoKey
      BY <1>1, <2>2 DEF IInv, FillOK, k
    <3> QED
      BY <1>1, <1>6, <3>1
  <2> QED
    BY <2>1, <2>2
<1>9. \A j \in constant \ rest, u \in maps \ {0} : keys'[u][j] # NoKey
  BY <1>1, <1>6 DEF IInv, FillOK, TypeOK
<1>10. FillOK'
  BY <1>1, <1>8, <1>9 DEF IInv, FillOK, k
<1> QED
  BY <1>1, <1>7, <1>10 DEF IInv, LineOK, KeymapsNonEmpty, PlainReadable

LEMMA EndConstantOK ==
    ASSUME IInv, EndConstant
    PROVE  IInv'
<1>1. /\ pc = "fill" /\ todo = {} /\ pc' = "constants" /\ rest' = rest \ {line.key}
      /\ UNCHANGED <<maps, keys, constant, keywords, todo, col>>
  BY DEF EndConstant
<1>2. \A k \in constant \ rest', t \in maps \ {0} : keys[t][k] # NoKey
  BY <1>1 DEF IInv, FillOK
<1>3. FillOK'
  BY <1>1, <1>2 DEF IInv, FillOK
<1> QED
  BY <1>1, <1>3 DEF IInv, TypeOK, LineOK, KeymapsNonEmpty, PlainReadable

LEMMA EndConstantsOK ==
    ASSUME IInv, EndConstants
    PROVE  IInv'
BY DEF IInv, TypeOK, LineOK, KeymapsNonEmpty, PlainReadable, FillOK, EndConstants

-----------------------------------------------------------------------------
LEMMA StepOK == IInv /\ [Next]_vars => IInv'
<1> SUFFICES ASSUME IInv, [Next]_vars PROVE IInv'
  OBVIOUS
<1>1. CASE \E R \in SUBSET Table : R # {} /\ KeymapsLine(R)
  BY <1>1, KeymapsLineOK
<1>2. CASE \E R \in SUBSET Table : KeymapsLineFails(R)
  BY <1>2, KeymapsLineFailsOK
<1>3. CASE AltIsMetaLine
  BY <1>3, AltIsMetaLineOK
<1>4. CASE \E k \in Key, entries \in Lines : KeycodeLine(k, entries)
  BY <1>4, KeycodeLineOK
<1>5. CASE StoreColumn
  BY <1>5, StoreColumnOK
<1>6. CASE EndLine
  BY <1>6, EndLineOK
<1>7. CASE \E t \in Table, k \in Key, c \in Entry : ModifierLine(t, k, c)
  BY <1>7, ModifierLineOK
<1>8. CASE EndOfInput
  BY <1>8, EndOfInputOK
<1>9. CASE NextConstant
  BY <1>9, NextConstantOK
<1>10. CASE FillColumn
  BY <1>10, FillColumnOK
<1>11. CASE EndConstant
  BY <1>11, EndConstantOK
<1>12. CASE EndConstants
  BY <1>12, EndConstantsOK
<1>13. CASE UNCHANGED vars
  BY <1>13 DEF IInv, TypeOK, LineOK, KeymapsNonEmpty, PlainReadable, FillOK, vars
<1>14. CASE Finished
  BY <1>13, <1>14 DEF Finished
<1> QED
  BY <1>1, <1>2, <1>3, <1>4, <1>5, <1>6, <1>7, <1>8, <1>9, <1>10, <1>11, <1>12,
     <1>13, <1>14 DEF Next

(* The state keeps its shape, and a table that lk_map_exists does not      *)
(* report holds no key: alt_is_meta never writes to an absent Alt table.   *)
THEOREM TypeCorrect == Spec => []TypeOK
<1>1. IInv => TypeOK
  BY DEF IInv
<1> QED
  BY InitOK, StepOK, <1>1, PTL DEF Spec

(* The "impossible error" of lk_add_constants is impossible: every input   *)
(* that parses leaves a table from which the marked keys can be read.      *)
THEOREM ImpossibleErrorNever == Spec => []NoImpossibleError
<1>1. IInv => NoImpossibleError
  BY DEF IInv, TypeOK, NoImpossibleError
<1> QED
  BY InitOK, StepOK, <1>1, PTL DEF Spec

(* When lk_add_constants is done, each key of a one-entry line has an      *)
(* entry in every table but possibly the plain one.                        *)
THEOREM ConstantsReachAllMaps == Spec => []ConstantsFilled
<1>1. IInv => ConstantsFilled
  BY DEF IInv, FillOK, ConstantsFilled
<1> QED
  BY InitOK, StepOK, <1>1, PTL DEF Spec
(* A cell that a line gave an entry still has it, or is the plain cell of  *)
(* a one-entry line and has the letter in its CapsLock form.               *)
Won(t, k) ==
    \/ keys[t][k] = explicit[t][k]
    \/ /\ t = 0 /\ k \in constant /\ IsLetter(explicit[t][k])
       /\ keys[t][k] = K("LETTER", explicit[t][k].val)

(* While lines are read the cell has the entry itself: what alt_is_meta    *)
(* writes goes to empty cells.  The loop of do_constant_key starts with    *)
(* the plain table, and finds there the letter it was called for.          *)
LineWins ==
    /\ explicit \in [Table -> [Key -> Cell]]
    /\ pc \in {"line", "columns"} =>
           \A t \in Table, k \in Key : explicit[t][k] # NoKey => keys[t][k] = explicit[t][k]
    /\ pc \in {"constants", "fill", "done"} =>
           \A t \in Table, k \in Key : explicit[t][k] # NoKey => Won(t, k)
    /\ (pc = "fill" /\ 0 \in todo) =>
           IsLetter(line.entries[1]) /\ keys[0][line.key] = line.entries[1]

(* lk_add_key stores what it is given or keeps what is there, and changes  *)
(* no other cell but an empty one.                                         *)
LEMMA AddKeyKeeps ==
    ASSUME keys \in [Table -> [Key -> Cell]], maps \subseteq Table,
           NEW t \in Table, NEW k \in Key, NEW c \in Code
    PROVE  /\ AddKey(t, k, c)[t][k] = IF Kept(t, k, c) THEN keys[t][k] ELSE c
           /\ \A u \in Table, j \in Key :
                 (keys[u][j] # NoKey /\ (u # t \/ j # k)) => AddKey(t, k, c)[u][j] = keys[u][j]
<1>1. CASE Kept(t, k, c)
  BY <1>1 DEF AddKey
<1>2. CASE ~Kept(t, k, c) /\ ~GivesMeta(t, k, c)
  <2>1. AddKey(t, k, c) = Put(keys, t, k, c)
    BY <1>2 DEF AddKey
  <2> QED
    BY <1>2, <2>1, PutOK
<1>3. CASE ~Kept(t, k, c) /\ GivesMeta(t, k, c)
  <2> DEFINE a == WithAlt(t)
             m == K("META", c.val)
             once == Put(keys, t, k, c)
  <2>1. AddKey(t, k, c) = Put(once, a, k, m)
    BY <1>3 DEF AddKey
  <2>2. a \in Table /\ a # t /\ keys[a][k] = NoKey
    BY <1>3 DEF GivesMeta
  <2>3. m \in Code
    BY DEF K, Code, KeyType
  <2>4. /\ once \in [Table -> [Key -> Cell]]
        /\ once[t][k] = c
        /\ \A u \in Table, j \in Key : (u # t \/ j # k) => once[u][j] = keys[u][j]
    BY PutOK
  <2> HIDE DEF a, m, once
  <2>5. \A u \in Table, j \in Key : (u # a \/ j # k) => Put(once, a, k, m)[u][j] = once[u][j]
    BY <2>2, <2>3, <2>4, PutOK
  <2> QED
    BY <1>3, <2>1, <2>2, <2>4, <2>5
<1> QED
  BY <1>1, <1>2, <1>3

(* A line's successful lk_add_key keeps cells and history together.        *)
LEMMA StoredWins ==
    ASSUME keys \in [Table -> [Key -> Cell]], maps \subseteq Table,
           explicit \in [Table -> [Key -> Cell]],
           \A u \in Table, j \in Key : explicit[u][j] # NoKey => keys[u][j] = explicit[u][j],
           NEW t \in Table, NEW k \in Key, NEW c \in Code,
           keys' = AddKey(t, k, c),
           explicit' = IF Kept(t, k, c) THEN explicit ELSE Put(explicit, t, k, c)
    PROVE  /\ explicit' \in [Table -> [Key -> Cell]]
           /\ \A u \in Table, j \in Key : explicit'[u][j] # NoKey => keys'[u][j] = explicit'[u][j]
<1>1. CASE Kept(t, k, c)
  BY <1>1 DEF AddKey
<1>2. CASE ~Kept(t, k, c)
  <2> DEFINE after == Put(explicit, t, k, c)
  <2>0. /\ after \in [Table -> [Key -> Cell]]
        /\ after[t][k] = c
        /\ \A u \in Table, j \in Key : (u # t \/ j # k) => after[u][j] = explicit[u][j]
    BY DEF Put, Cell
  <2> HIDE DEF after
  <2>1. explicit' = after
    BY <1>2 DEF after
  <2>2. /\ keys'[t][k] = c
        /\ \A u \in Table, j \in Key :
              (keys[u][j] # NoKey /\ (u # t \/ j # k)) => keys'[u][j] = keys[u][j]
    BY <1>2, AddKeyKeeps
  <2> QED
    BY <2>0, <2>1, <2>2
<1> QED
  BY <1>1, <1>2

LEMMA KeycodeLineWins ==
    ASSUME IInv, LineWins, NEW k \in Key, NEW entries \in Lines, KeycodeLine(k, entries)
    PROVE  LineWins'
<1>1. pc = "line" /\ pc' = "columns" /\ keys \in [Table -> [Key -> Cell]]
  BY DEF IInv, TypeOK, KeycodeLine, Cell
<1>2. CASE Len(entries) = 1
  <2>1. keys' = DelKey(k) /\ explicit' = [t \in Table |-> [explicit[t] EXCEPT ![k] = NoKey]]
    BY <1>2 DEF KeycodeLine
  <2>2. explicit' \in [Table -> [Key -> Cell]]
    BY <2>1 DEF LineWins, Cell
  <2>3. \A t \in Table, j \in Key : explicit'[t][j] # NoKey => j # k /\ explicit'[t][j] = explicit[t][j]
    BY <2>1 DEF LineWins
  <2>4. \A t \in Table, j \in Key : j # k => keys'[t][j] = keys[t][j]
    BY <1>1, <2>1 DEF DelKey
  <2> QED
    BY <1>1, <2>2, <2>3, <2>4 DEF LineWins
<1>3. CASE Len(entries) # 1
  BY <1>1, <1>3 DEF LineWins, KeycodeLine
<1> QED
  BY <1>2, <1>3

(* A column of a line is a keysym of it, or VoidSymbol.                    *)
LEMMA EntryOK ==
    ASSUME IInv, pc = "columns"
    PROVE  (IF col < Len(line.entries) THEN line.entries[col + 1] ELSE K_HOLE) \in Code \union {BadCode}
<1>1. col \in Nat /\ line.entries \in Lines
  BY DEF IInv, LineOK
<1>2. PICK n \in 0 .. MaxColumns : line.entries \in [1 .. n -> Entry]
  BY <1>1 DEF Lines
<1>3. n \in Nat /\ Len(line.entries) = n
  BY <1>2, KeymapAssumption
<1>4. col < n => line.entries[col + 1] \in Entry
  BY <1>1, <1>2, <1>3
<1>5. K_HOLE \in Code
  BY DEF K_HOLE, K, Code, KeyType
<1> QED
  BY <1>3, <1>4, <1>5, KeymapAssumption

LEMMA StoreColumnWins ==
    ASSUME IInv, LineWins, StoreColumn
    PROVE  LineWins'
<1> DEFINE t == First(todo)
           k == line.key
           given == Len(line.entries) # 1 \/ col = 0
           c == IF col < Len(line.entries) THEN line.entries[col + 1] ELSE K_HOLE
<1>1. /\ pc = "columns" /\ todo # {} /\ todo \subseteq Table /\ Table \subseteq Nat
      /\ k \in Key /\ col \in Nat /\ line.entries \in Lines
      /\ keys \in [Table -> [Key -> Cell]] /\ maps \subseteq Table
  BY KeymapAssumption DEF IInv, TypeOK, LineOK, StoreColumn, Cell
<1>2. t \in Table
  BY <1>1, FirstIn
<1>3. c \in Code \union {BadCode}
  BY <1>1, EntryOK
<1> HIDE DEF t, k, given, c
<1>4. CASE given /\ AddKeyFails(t, c)
  <2>1. pc' = "failed" /\ UNCHANGED explicit
    BY <1>4 DEF StoreColumn, t, k, given, c
  <2> QED
    BY <2>1 DEF LineWins
<1>5. CASE given /\ ~AddKeyFails(t, c)
  <2>1. /\ keys' = AddKey(t, k, c) /\ pc' = pc
        /\ explicit' = IF Kept(t, k, c) THEN explicit ELSE Put(explicit, t, k, c)
    BY <1>5 DEF StoreColumn, t, k, given, c
  <2>2. c \in Code
    BY <1>3, <1>5 DEF AddKeyFails
  <2>3. /\ explicit \in [Table -> [Key -> Cell]]
        /\ \A u \in Table, j \in Key : explicit[u][j] # NoKey => keys[u][j] = explicit[u][j]
    BY <1>1 DEF LineWins
  <2>4. /\ explicit' \in [Table -> [Key -> Cell]]
        /\ \A u \in Table, j \in Key : explicit'[u][j] # NoKey => keys'[u][j] = explicit'[u][j]
    BY <1>1, <1>2, <2>1, <2>2, <2>3, StoredWins
  <2> QED
    BY <1>1, <2>1, <2>4 DEF LineWins
<1>6. CASE ~given
  <2>1. UNCHANGED <<keys, explicit, pc>>
    BY <1>6 DEF StoreColumn, t, k, given, c
  <2> QED
    BY <1>1, <2>1 DEF LineWins
<1> QED
  BY <1>4, <1>5, <1>6

LEMMA ModifierLineWins ==
    ASSUME IInv, LineWins, NEW t \in Table, NEW k \in Key, NEW c \in Entry, ModifierLine(t, k, c)
    PROVE  LineWins'
<1>1. pc = "line" /\ keys \in [Table -> [Key -> Cell]] /\ maps \subseteq Table
  BY DEF IInv, TypeOK, ModifierLine, Cell
<1>2. CASE AddKeyFails(t, c)
  <2>1. pc' = "failed" /\ UNCHANGED explicit
    BY <1>2 DEF ModifierLine
  <2> QED
    BY <2>1 DEF LineWins
<1>3. CASE ~AddKeyFails(t, c)
  <2>1. /\ keys' = AddKey(t, k, c) /\ pc' = pc
        /\ explicit' = IF Kept(t, k, c) THEN explicit ELSE Put(explicit, t, k, c)
    BY <1>3 DEF ModifierLine
  <2>2. c \in Code
    BY <1>3, KeymapAssumption DEF AddKeyFails
  <2>3. /\ explicit \in [Table -> [Key -> Cell]]
        /\ \A u \in Table, j \in Key : explicit[u][j] # NoKey => keys[u][j] = explicit[u][j]
    BY <1>1 DEF LineWins
  <2>4. /\ explicit' \in [Table -> [Key -> Cell]]
        /\ \A u \in Table, j \in Key : explicit'[u][j] # NoKey => keys'[u][j] = explicit'[u][j]
    BY <1>1, <2>1, <2>2, <2>3, StoredWins
  <2> QED
    BY <1>1, <2>1, <2>4 DEF LineWins
<1> QED
  BY <1>2, <1>3

(* do_constant_key is called with the plain entry when its loop visits the *)
(* plain table: the first table that exists is then the plain one.         *)
LEMMA NextConstantWins ==
    ASSUME IInv, LineWins, NextConstant
    PROVE  LineWins'
<1> DEFINE k == First(rest)
           c == lk_get_key(r0, k)
<1>1. /\ pc = "constants" /\ maps \subseteq Nat /\ UNCHANGED <<keys, constant, explicit>>
      /\ constant # {}
  BY KeymapAssumption DEF IInv, TypeOK, FillOK, NextConstant
<1>2. r0 \in maps
  BY <1>1, ReadTableExists
<1>3. pc' = "fill" /\ line' = [key |-> k, entries |-> <<c>>] /\ todo' = ConstantTables(c)
  BY <1>2 DEF NextConstant
<1>4. line'.key = k /\ line'.entries[1] = c
  BY <1>3
<1>5. ASSUME 0 \in todo' PROVE IsLetter(c) /\ keys[0][k] = c
  <2>1. IsLetter(c) /\ 0 \in maps
    BY <1>3, <1>5 DEF ConstantTables
  <2>2. First(maps) = 0
    BY <1>1, <2>1, FirstZero
  <2>3. r0 = 0
    BY <2>2 DEF r0
  <2>4. ~IsLetter(K_HOLE)
    BY DEF IsLetter, K_HOLE, K
  <2> QED
    BY <2>1, <2>3, <2>4 DEF lk_get_key
<1> HIDE DEF k, c
<1>6. \A t \in Table, j \in Key : explicit'[t][j] # NoKey => Won(t, j)'
  BY <1>1 DEF LineWins, Won
<1>7. explicit' \in [Table -> [Key -> Cell]]
  BY <1>1 DEF LineWins
<1> QED
  BY <1>1, <1>3, <1>4, <1>5, <1>6, <1>7 DEF LineWins

(* One table of do_constant_key: a table above the plain one is filled     *)
(* when its cell is empty, and the plain cell keeps its letter.            *)
LEMMA FillColumnWins ==
    ASSUME IInv, LineWins, FillColumn
    PROVE  LineWins'
<1> DEFINE t == First(todo)
           k == line.key
           e == line.entries[1]
           c == ConstantFor(e, t)
<1>1. /\ pc = "fill" /\ todo # {} /\ todo \subseteq Nat /\ todo \subseteq Table
      /\ k \in Key /\ k \in constant /\ e \in Code
      /\ keys \in [Table -> [Key -> Cell]] /\ maps \subseteq Table /\ NoKey \notin Code
      /\ todo' = todo \ {t}
      /\ UNCHANGED <<maps, constant, pc, line, explicit>>
  BY KeymapAssumption DEF IInv, TypeOK, FillOK, FillColumn, Cell
<1>2. t \in todo /\ t \in Table /\ t \in Nat /\ \A y \in todo : t <= y
  BY <1>1, FirstIn
<1>3. c \in Code
  BY <1>1, <1>2, ConstantForOK
<1>4. 0 \notin todo'
  <2>1. 0 \in todo => t = 0
    BY <1>2
  <2> QED
    BY <1>1, <2>1
<1>5. keys' = IF t > 0 /\ keys[t][k] # NoKey THEN keys ELSE AddKey(t, k, c)
  BY DEF FillColumn
<1>6. t = 0 => IsLetter(e) /\ keys[0][k] = e /\ c = K("LETTER", e.val)
  <2>1. ASSUME t = 0 PROVE IsLetter(e) /\ keys[0][k] = e
    BY <1>1, <1>2, <2>1 DEF LineWins
  <2>2. Defs(e.val, 0) = K("LETTER", e.val)
    BY DEF Defs, M_ALT
  <2> QED
    BY <2>1, <2>2 DEF ConstantFor
<1>7. ~Kept(0, k, K("LETTER", e.val))
  BY DEF Kept, K_HOLE, K
<1>8. K("LETTER", e.val).val = e.val
  BY DEF K
<1> HIDE DEF t, k, e, c
<1>9. /\ AddKey(t, k, c)[t][k] = IF Kept(t, k, c) THEN keys[t][k] ELSE c
      /\ \A u \in Table, j \in Key :
            (keys[u][j] # NoKey /\ (u # t \/ j # k)) => AddKey(t, k, c)[u][j] = keys[u][j]
  BY <1>1, <1>2, <1>3, AddKeyKeeps
<1>10. ASSUME NEW u \in Table, NEW j \in Key, explicit'[u][j] # NoKey PROVE Won(u, j)'
  <2>1. Won(u, j) /\ explicit[u][j] \in Code
    BY <1>1, <1>10 DEF LineWins, Cell
  <2>2. keys[u][j] # NoKey
    <3>1. IsLetter(explicit[u][j]) => K("LETTER", explicit[u][j].val) \in Code
      BY <2>1 DEF K, Code, KeyType
    <3> QED
      BY <1>1, <2>1, <3>1 DEF Won
  <2>3. CASE keys'[u][j] = keys[u][j]
    BY <1>1, <2>1, <2>3 DEF Won
  <2>4. CASE keys'[u][j] # keys[u][j]
    <3>1. u = t /\ j = k /\ t = 0 /\ keys' = AddKey(t, k, c)
      BY <1>2, <1>5, <1>9, <2>2, <2>4
    <3>2. keys'[0][k] = K("LETTER", e.val)
      BY <1>6, <1>7, <1>9, <3>1
    <3>3. IsLetter(explicit[0][k]) /\ explicit[0][k].val = e.val
      <4>1. CASE keys[0][k] = explicit[0][k]
        BY <1>6, <3>1, <4>1
      <4>2. CASE keys[0][k] # explicit[0][k]
        <5>1. IsLetter(explicit[0][k]) /\ keys[0][k] = K("LETTER", explicit[0][k].val)
          BY <2>1, <3>1, <4>2 DEF Won
        <5>2. K("LETTER", explicit[0][k].val).val = explicit[0][k].val
          BY DEF K
        <5> QED
          BY <1>6, <3>1, <5>1, <5>2
      <4> QED
        BY <4>1, <4>2
    <3> QED
      BY <1>1, <3>1, <3>2, <3>3 DEF Won
  <2> QED
    BY <2>3, <2>4
<1>11. explicit' \in [Table -> [Key -> Cell]]
  BY <1>1 DEF LineWins
<1> QED
  BY <1>1, <1>4, <1>10, <1>11 DEF LineWins

LEMMA StepWins == IInv /\ LineWins /\ [Next]_vars => LineWins'
<1> SUFFICES ASSUME IInv, LineWins, [Next]_vars PROVE LineWins'
  OBVIOUS
<1>1. CASE \E k \in Key, entries \in Lines : KeycodeLine(k, entries)
  BY <1>1, KeycodeLineWins
<1>2. CASE StoreColumn
  BY <1>2, StoreColumnWins
<1>3. CASE \E t \in Table, k \in Key, c \in Entry : ModifierLine(t, k, c)
  BY <1>3, ModifierLineWins
<1>4. CASE NextConstant
  BY <1>4, NextConstantWins
<1>5. CASE FillColumn
  BY <1>5, FillColumnWins
<1>6. CASE \E R \in SUBSET Table : (R # {} /\ KeymapsLine(R)) \/ KeymapsLineFails(R)
  BY <1>6 DEF LineWins, Won, KeymapsLine, KeymapsLineFails
<1>7. CASE AltIsMetaLine
  BY <1>7 DEF LineWins, Won, AltIsMetaLine
<1>8. CASE EndLine
  BY <1>8 DEF LineWins, Won, EndLine
<1>9. CASE EndOfInput
  BY <1>9 DEF LineWins, Won, EndOfInput
<1>10. CASE EndConstant
  BY <1>10 DEF LineWins, Won, EndConstant
<1>11. CASE EndConstants
  BY <1>11 DEF LineWins, Won, EndConstants
<1>12. CASE UNCHANGED vars
  BY <1>12 DEF LineWins, Won, vars
<1> QED
  BY <1>1, <1>2, <1>3, <1>4, <1>5, <1>6, <1>7, <1>8, <1>9, <1>10, <1>11, <1>12 DEF Next, Finished

(* The last line that gave a cell an entry wins (LastLineWins): over       *)
(* alt_is_meta, over the VoidSymbols of short lines, and over the copies   *)
(* lk_add_constants makes.                                                 *)
THEOREM TheLastLineWins == Spec => []LastLineWins
<1>1. Init => LineWins
  BY DEF Init, LineWins, Cell
<1>2. IInv /\ LineWins => LastLineWins
  BY DEF LineWins, Won, LastLineWins
<1> QED
  BY <1>1, <1>2, InitOK, StepOK, StepWins, PTL DEF Spec

-----------------------------------------------------------------------------
(* The entry of the key's one-entry line as its table has it: a letter of  *)
(* the plain table gets its CapsLock form.                                 *)
SameEntry(c, e) == c = e \/ (IsLetter(e) /\ c = K("LETTER", e.val))

(* Where the entries come from that no line gave.  Before lk_add_constants *)
(* they are copies alt_is_meta made; the loop of do_constant_key does not  *)
(* change the meaning of the entry it copies.                              *)
Origin ==
    /\ pc \in {"line", "columns"} =>
           \A t \in Table, k \in Key : (explicit[t][k] = NoKey /\ keys[t][k] # NoKey) => MetaCopy(t, k)
    /\ pc \in {"constants", "fill", "done"} =>
           \A t \in Table, k \in Key : (explicit[t][k] = NoKey /\ keys[t][k] # NoKey) =>
               \/ k \in constant /\ keys[t][k] = ConstantFor(lk_get_key(r0, k), t)
               \/ MetaCopy(t, k)
    /\ pc = "fill" => SameEntry(lk_get_key(r0, line.key), line.entries[1])

LEMMA SameMeaning ==
    ASSUME NEW c, NEW e, SameEntry(c, e), NEW t
    PROVE  ConstantFor(c, t) = ConstantFor(e, t)
<1>1. CASE c = e
  BY <1>1
<1>2. CASE IsLetter(e) /\ c = K("LETTER", e.val)
  <2>1. c.typ = "LETTER" /\ c.val = e.val
    BY <1>2 DEF K
  <2>2. IsLetter(c)
    BY <1>2, <2>1 DEF IsLetter
  <2> QED
    BY <1>2, <2>1, <2>2 DEF ConstantFor
<1> QED
  BY <1>1, <1>2 DEF SameEntry

(* An Alt table is above the one it belongs to and is its own.             *)
LEMMA AltAbove ==
    ASSUME NEW t \in Nat
    PROVE  /\ WithAlt(t) \in Nat /\ WithAlt(t) >= t
           /\ WithAlt(WithAlt(t)) = WithAlt(t)
<1>1. CASE (t \div 8) % 2 = 1
  BY <1>1 DEF WithAlt, M_ALT
<1>2. CASE (t \div 8) % 2 # 1
  <2>1. (t + 8) \div 8 = (t \div 8) + 1
    OBVIOUS
  <2>2. ((t \div 8) + 1) % 2 = 1
    BY <1>2
  <2> QED
    BY <1>2, <2>1, <2>2 DEF WithAlt, M_ALT
<1> QED
  BY <1>1, <1>2

(* The cells lk_add_key writes: its own, and an empty one of the Alt table. *)
LEMMA AddKeyCells ==
    ASSUME keys \in [Table -> [Key -> Cell]], maps \subseteq Table,
           NEW t \in Table, NEW k \in Key, NEW c \in Code,
           NEW u \in Table, NEW j \in Key
    PROVE  \/ AddKey(t, k, c)[u][j] = keys[u][j]
           \/ u = t /\ j = k /\ AddKey(t, k, c)[u][j] = c
           \/ /\ u = WithAlt(t) /\ u # t /\ j = k /\ "altismeta" \in keywords
              /\ AddKey(t, k, c)[u][j] = K("META", c.val)
<1>1. CASE Kept(t, k, c)
  BY <1>1 DEF AddKey
<1>2. CASE ~Kept(t, k, c) /\ ~GivesMeta(t, k, c)
  <2>1. AddKey(t, k, c) = Put(keys, t, k, c)
    BY <1>2 DEF AddKey
  <2> QED
    BY <2>1, PutOK
<1>3. CASE ~Kept(t, k, c) /\ GivesMeta(t, k, c)
  <2> DEFINE a == WithAlt(t)
             m == K("META", c.val)
             once == Put(keys, t, k, c)
  <2>1. AddKey(t, k, c) = Put(once, a, k, m)
    BY <1>3 DEF AddKey
  <2>2. a \in Table /\ a # t /\ "altismeta" \in keywords
    BY <1>3 DEF GivesMeta
  <2>3. m \in Code
    BY DEF K, Code, KeyType
  <2>4. /\ once \in [Table -> [Key -> Cell]]
        /\ once[t][k] = c
        /\ \A v \in Table, i \in Key : (v # t \/ i # k) => once[v][i] = keys[v][i]
    BY PutOK
  <2> HIDE DEF m, once
  <2>5. /\ Put(once, a, k, m)[a][k] = m
        /\ (u # a \/ j # k) => Put(once, a, k, m)[u][j] = once[u][j]
    BY <2>2, <2>3, <2>4, PutOK
  <2> QED
    BY <2>1, <2>2, <2>4, <2>5 DEF m
<1> QED
  BY <1>1, <1>2, <1>3

(* While lines are read, what lk_add_key writes is recorded or is a copy.  *)
LEMMA StoredOrigin ==
    ASSUME keys \in [Table -> [Key -> Cell]], maps \subseteq Table,
           explicit \in [Table -> [Key -> Cell]],
           \A u \in Table, j \in Key : (explicit[u][j] = NoKey /\ keys[u][j] # NoKey) => MetaCopy(u, j),
           NEW t \in Table, NEW k \in Key, NEW c \in Code,
           keys' = AddKey(t, k, c), keywords' = keywords,
           explicit' = IF Kept(t, k, c) THEN explicit ELSE Put(explicit, t, k, c)
    PROVE  \A u \in Table, j \in Key : (explicit'[u][j] = NoKey /\ keys'[u][j] # NoKey) => MetaCopy(u, j)'
<1>1. CASE Kept(t, k, c)
  BY <1>1 DEF AddKey, MetaCopy
<1>2. CASE ~Kept(t, k, c)
  <2> SUFFICES ASSUME NEW u \in Table, NEW j \in Key, explicit'[u][j] = NoKey, keys'[u][j] # NoKey
               PROVE  MetaCopy(u, j)'
    OBVIOUS
  <2>1. explicit' = Put(explicit, t, k, c) /\ NoKey \notin Code
    BY <1>2, KeymapAssumption
  <2>2. (u # t \/ j # k) /\ explicit[u][j] = NoKey
    <3>1. /\ Put(explicit, t, k, c)[t][k] = c
          /\ (u # t \/ j # k) => Put(explicit, t, k, c)[u][j] = explicit[u][j]
      BY DEF Put, Cell
    <3> QED
      BY <2>1, <3>1
  <2>3. CASE keys'[u][j] = keys[u][j]
    BY <2>2, <2>3 DEF MetaCopy
  <2>4. CASE u = WithAlt(t) /\ "altismeta" \in keywords /\ keys'[u][j] = K("META", c.val)
    <3>1. WithAlt(u) = u
      BY <2>4, AltAbove, KeymapAssumption
    <3>2. keys'[u][j].typ = "META"
      BY <2>4 DEF K
    <3> QED
      BY <2>4, <3>1, <3>2 DEF MetaCopy
  <2> QED
    BY <2>2, <2>3, <2>4, AddKeyCells
<1> QED
  BY <1>1, <1>2

LEMMA KeycodeLineOrigin ==
    ASSUME IInv, LineWins, Origin, NEW k \in Key, NEW entries \in Lines, KeycodeLine(k, entries)
    PROVE  Origin'
<1>1. pc = "line" /\ pc' = "columns" /\ keys \in [Table -> [Key -> Cell]] /\ keywords' = keywords
  BY DEF IInv, TypeOK, KeycodeLine, Cell
<1>2. CASE Len(entries) = 1
  <2>1. keys' = DelKey(k) /\ explicit' = [t \in Table |-> [explicit[t] EXCEPT ![k] = NoKey]]
    BY <1>2 DEF KeycodeLine
  <2>2. \A t \in Table : keys'[t][k] = NoKey
    BY <1>1, <2>1 DEF DelKey, IInv, TypeOK
  <2>3. \A t \in Table, j \in Key : j # k => keys'[t][j] = keys[t][j] /\ explicit'[t][j] = explicit[t][j]
    BY <1>1, <2>1 DEF DelKey, LineWins
  <2> QED
    BY <1>1, <2>2, <2>3 DEF Origin, MetaCopy
<1>3. CASE Len(entries) # 1
  <2>1. UNCHANGED <<keys, explicit>>
    BY <1>3 DEF KeycodeLine
  <2> QED
    BY <1>1, <2>1 DEF Origin, MetaCopy
<1> QED
  BY <1>2, <1>3

LEMMA StoreColumnOrigin ==
    ASSUME IInv, LineWins, Origin, StoreColumn
    PROVE  Origin'
<1> DEFINE t == First(todo)
           k == line.key
           given == Len(line.entries) # 1 \/ col = 0
           c == IF col < Len(line.entries) THEN line.entries[col + 1] ELSE K_HOLE
<1>1. /\ pc = "columns" /\ todo # {} /\ todo \subseteq Table /\ Table \subseteq Nat
      /\ k \in Key /\ keywords' = keywords
      /\ keys \in [Table -> [Key -> Cell]] /\ maps \subseteq Table
      /\ explicit \in [Table -> [Key -> Cell]]
  BY KeymapAssumption DEF IInv, TypeOK, LineOK, StoreColumn, LineWins, Cell
<1>2. t \in Table
  BY <1>1, FirstIn
<1>3. c \in Code \union {BadCode}
  BY <1>1, EntryOK
<1> HIDE DEF t, k, given, c
<1>4. CASE given /\ AddKeyFails(t, c)
  <2>1. pc' = "failed"
    BY <1>4 DEF StoreColumn, t, k, given, c
  <2> QED
    BY <2>1 DEF Origin
<1>5. CASE given /\ ~AddKeyFails(t, c)
  <2>1. /\ keys' = AddKey(t, k, c) /\ pc' = pc
        /\ explicit' = IF Kept(t, k, c) THEN explicit ELSE Put(explicit, t, k, c)
    BY <1>5 DEF StoreColumn, t, k, given, c
  <2>2. c \in Code
    BY <1>3, <1>5 DEF AddKeyFails
  <2>3. \A u \in Table, j \in Key : (explicit[u][j] = NoKey /\ keys[u][j] # NoKey) => MetaCopy(u, j)
    BY <1>1 DEF Origin
  <2>4. \A u \in Table, j \in Key : (explicit'[u][j] = NoKey /\ keys'[u][j] # NoKey) => MetaCopy(u, j)'
    BY <1>1, <1>2, <2>1, <2>2, <2>3, StoredOrigin
  <2> QED
    BY <1>1, <2>1, <2>4 DEF Origin
<1>6. CASE ~given
  <2>1. UNCHANGED <<keys, explicit, pc>>
    BY <1>6 DEF StoreColumn, t, k, given, c
  <2> QED
    BY <1>1, <2>1 DEF Origin, MetaCopy
<1> QED
  BY <1>4, <1>5, <1>6

LEMMA ModifierLineOrigin ==
    ASSUME IInv, LineWins, Origin, NEW t \in Table, NEW k \in Key, NEW c \in Entry, ModifierLine(t, k, c)
    PROVE  Origin'
<1>1. /\ pc = "line" /\ keys \in [Table -> [Key -> Cell]] /\ maps \subseteq Table /\ keywords' = keywords
      /\ explicit \in [Table -> [Key -> Cell]]
  BY DEF IInv, TypeOK, ModifierLine, LineWins, Cell
<1>2. CASE AddKeyFails(t, c)
  <2>1. pc' = "failed"
    BY <1>2 DEF ModifierLine
  <2> QED
    BY <2>1 DEF Origin
<1>3. CASE ~AddKeyFails(t, c)
  <2>1. /\ keys' = AddKey(t, k, c) /\ pc' = pc
        /\ explicit' = IF Kept(t, k, c) THEN explicit ELSE Put(explicit, t, k, c)
    BY <1>3 DEF ModifierLine
  <2>2. c \in Code
    BY <1>3, KeymapAssumption DEF AddKeyFails
  <2>3. \A u \in Table, j \in Key : (explicit[u][j] = NoKey /\ keys[u][j] # NoKey) => MetaCopy(u, j)
    BY <1>1 DEF Origin
  <2>4. \A u \in Table, j \in Key : (explicit'[u][j] = NoKey /\ keys'[u][j] # NoKey) => MetaCopy(u, j)'
    BY <1>1, <2>1, <2>2, <2>3, StoredOrigin
  <2> QED
    BY <1>1, <2>1, <2>4 DEF Origin
<1> QED
  BY <1>2, <1>3

LEMMA NextConstantOrigin ==
    ASSUME IInv, Origin, NextConstant
    PROVE  Origin'
<1> DEFINE k == First(rest)
           c == lk_get_key(r0, k)
<1>1. /\ pc = "constants" /\ maps \subseteq Nat /\ constant # {}
      /\ UNCHANGED <<keys, constant, explicit, keywords, maps>>
  BY KeymapAssumption DEF IInv, TypeOK, FillOK, NextConstant
<1>2. r0 \in maps
  BY <1>1, ReadTableExists
<1>3. pc' = "fill" /\ line' = [key |-> k, entries |-> <<c>>]
  BY <1>2 DEF NextConstant
<1>4. line'.key = k /\ line'.entries[1] = c
  BY <1>3
<1>5. r0' = r0 /\ \A j : lk_get_key(r0, j)' = lk_get_key(r0, j)
  BY <1>1 DEF r0, lk_get_key
<1>6. SameEntry(lk_get_key(r0, line.key), line.entries[1])'
  BY <1>4, <1>5 DEF SameEntry
<1> HIDE DEF k, c
<1> QED
  BY <1>1, <1>3, <1>5, <1>6 DEF Origin, MetaCopy

(* One table of do_constant_key: the cell gets what the entry means for    *)
(* it, and the table the entry was read from keeps it.                     *)
LEMMA FillColumnOrigin ==
    ASSUME IInv, LineWins, Origin, FillColumn
    PROVE  Origin'
<1>0. PICK k, e : k = line.key /\ e = line.entries[1]
  OBVIOUS
<1> DEFINE t == First(todo)
           c == ConstantFor(e, t)
<1>1. /\ pc = "fill" /\ todo # {} /\ todo \subseteq Nat /\ todo \subseteq maps
      /\ k \in Key /\ k \in constant /\ e \in Code
      /\ keys \in [Table -> [Key -> Cell]] /\ maps \subseteq Table /\ maps \subseteq Nat
      /\ NoKey \notin Code
      /\ UNCHANGED <<maps, constant, keywords, pc, line, explicit>>
  BY <1>0, KeymapAssumption DEF IInv, TypeOK, FillOK, FillColumn, Cell
<1>2. t \in todo /\ t \in Table /\ t \in Nat /\ t \in maps /\ \A y \in todo : t <= y
  BY <1>1, FirstIn
<1>3. c \in Code
  BY <1>1, <1>2, ConstantForOK
<1>4. keys' = IF t > 0 /\ keys[t][k] # NoKey THEN keys ELSE AddKey(t, k, c)
  BY <1>0 DEF FillColumn
<1>5. r0 \in maps /\ r0 \in Nat /\ r0 <= t /\ r0' = r0
  <2>1. r0 \in maps
    BY <1>1, ReadTableExists
  <2>2. r0 = 0 \/ r0 = First(maps)
    BY DEF r0
  <2>3. \A y \in maps : First(maps) <= y
    BY <1>1, <1>2, FirstIn
  <2>4. r0' = r0
    BY <1>1 DEF r0
  <2> QED
    BY <1>1, <1>2, <2>1, <2>2, <2>3, <2>4
<1>6. t = 0 => IsLetter(e) /\ keys[0][k] = e /\ c = K("LETTER", e.val)
  <2>1. ASSUME t = 0 PROVE IsLetter(e) /\ keys[0][k] = e
    BY <1>0, <1>1, <1>2, <2>1 DEF LineWins
  <2>2. Defs(e.val, 0) = K("LETTER", e.val)
    BY DEF Defs, M_ALT
  <2> QED
    BY <2>1, <2>2 DEF ConstantFor
<1>7. SameEntry(lk_get_key(r0, k), e)
  BY <1>0, <1>1 DEF Origin
<1>8. \A u \in Table, j \in Key :
         \/ keys'[u][j] = keys[u][j]
         \/ u = t /\ j = k /\ keys'[u][j] = c
         \/ u > t /\ WithAlt(u) = u /\ j = k /\ "altismeta" \in keywords /\ keys'[u][j].typ = "META"
  <2> SUFFICES ASSUME NEW u \in Table, NEW j \in Key, keys' = AddKey(t, k, c)
               PROVE  \/ keys'[u][j] = keys[u][j]
                      \/ u = t /\ j = k /\ keys'[u][j] = c
                      \/ u > t /\ WithAlt(u) = u /\ j = k /\ "altismeta" \in keywords /\ keys'[u][j].typ = "META"
    BY <1>4
  <2>1. u \in Nat /\ WithAlt(t) >= t /\ WithAlt(t) \in Nat /\ WithAlt(WithAlt(t)) = WithAlt(t)
    BY <1>2, AltAbove, KeymapAssumption
  <2>2. K("META", c.val).typ = "META"
    BY DEF K
  <2> HIDE DEF t, c
  <2> QED
    BY <1>1, <1>2, <1>3, <2>1, <2>2, AddKeyCells
<1>9. SameEntry(lk_get_key(r0, k)', e)
  <2>1. CASE keys'[r0][k] = keys[r0][k]
    BY <1>5, <1>7, <2>1 DEF lk_get_key
  <2>2. CASE r0 = t /\ keys'[r0][k] = c /\ t = 0
    <3>1. lk_get_key(r0, k)' = c
      BY <1>1, <1>3, <1>5, <2>2 DEF lk_get_key
    <3> QED
      BY <1>6, <2>2, <3>1 DEF SameEntry
  <2>3. CASE r0 = t /\ keys'[r0][k] = c /\ t > 0 /\ keys[t][k] = NoKey
    <3>1. lk_get_key(r0, k) = K_HOLE
      BY <2>3 DEF lk_get_key
    <3>2. e = K_HOLE
      BY <1>7, <3>1 DEF SameEntry, K_HOLE, K
    <3>3. ~IsLetter(K_HOLE)
      BY DEF IsLetter, K_HOLE, K
    <3>4. c = K_HOLE
      BY <3>2, <3>3 DEF ConstantFor
    <3>5. lk_get_key(r0, k)' = K_HOLE
      BY <1>5, <2>3, <3>4 DEF lk_get_key
    <3> QED
      BY <3>2, <3>5 DEF SameEntry
  <2>4. t > 0 /\ keys[t][k] # NoKey => keys' = keys
    BY <1>4
  <2> HIDE DEF t, c
  <2> QED
    BY <1>1, <1>2, <1>5, <1>8, <2>1, <2>2, <2>3, <2>4
<1>10. \A j \in Key : j # k => lk_get_key(r0, j)' = lk_get_key(r0, j)
  <2> SUFFICES ASSUME NEW j \in Key, j # k PROVE lk_get_key(r0, j)' = lk_get_key(r0, j)
    OBVIOUS
  <2>1. keys'[r0][j] = keys[r0][j]
    BY <1>1, <1>5, <1>8
  <2> QED
    BY <1>5, <2>1 DEF lk_get_key
<1>11. \A u : /\ ConstantFor(lk_get_key(r0, k), u) = ConstantFor(e, u)
              /\ ConstantFor(lk_get_key(r0, k)', u) = ConstantFor(e, u)
  BY <1>7, <1>9, SameMeaning
<1>12. (SameEntry(lk_get_key(r0, line.key), line.entries[1]))'
  BY <1>0, <1>1, <1>9 DEF SameEntry
<1>13. ASSUME NEW u \in Table, NEW j \in Key, explicit'[u][j] = NoKey, keys'[u][j] # NoKey
       PROVE  \/ j \in constant' /\ keys'[u][j] = ConstantFor(lk_get_key(r0, j)', u)
              \/ MetaCopy(u, j)'
  <2> HIDE DEF t, c
  <2>1. CASE keys'[u][j] = keys[u][j]
    <3>1. \/ j \in constant /\ keys[u][j] = ConstantFor(lk_get_key(r0, j), u)
          \/ MetaCopy(u, j)
      BY <1>1, <1>13, <2>1 DEF Origin
    <3>2. ConstantFor(lk_get_key(r0, j)', u) = ConstantFor(lk_get_key(r0, j), u)
      BY <1>10, <1>11
    <3> QED
      BY <1>1, <2>1, <3>1, <3>2 DEF MetaCopy
  <2>2. CASE u = t /\ j = k /\ keys'[u][j] = c
    BY <1>1, <1>11, <2>2 DEF c
  <2>3. CASE WithAlt(u) = u /\ j = k /\ "altismeta" \in keywords /\ keys'[u][j].typ = "META"
    BY <1>1, <2>3 DEF MetaCopy
  <2> QED
    BY <1>8, <2>1, <2>2, <2>3
<1> HIDE DEF t, c
<1> QED
  BY <1>1, <1>12, <1>13 DEF Origin

LEMMA StepOrigin == IInv /\ LineWins /\ Origin /\ [Next]_vars => Origin'
<1> SUFFICES ASSUME IInv, LineWins, Origin, [Next]_vars PROVE Origin'
  OBVIOUS
<1>1. CASE \E k \in Key, entries \in Lines : KeycodeLine(k, entries)
  BY <1>1, KeycodeLineOrigin
<1>2. CASE StoreColumn
  BY <1>2, StoreColumnOrigin
<1>3. CASE \E t \in Table, k \in Key, c \in Entry : ModifierLine(t, k, c)
  BY <1>3, ModifierLineOrigin
<1>4. CASE NextConstant
  BY <1>4, NextConstantOrigin
<1>5. CASE FillColumn
  BY <1>5, FillColumnOrigin
<1>6. CASE \E R \in SUBSET Table : (R # {} /\ KeymapsLine(R)) \/ KeymapsLineFails(R)
  BY <1>6 DEF Origin, MetaCopy, KeymapsLine, KeymapsLineFails
<1>7. CASE AltIsMetaLine
  BY <1>7 DEF Origin, MetaCopy, AltIsMetaLine
<1>8. CASE EndLine
  BY <1>8 DEF Origin, MetaCopy, EndLine
<1>9. CASE EndOfInput
  BY <1>9 DEF Origin, MetaCopy, EndOfInput
<1>10. CASE EndConstant
  BY <1>10 DEF Origin, MetaCopy, lk_get_key, r0, EndConstant
<1>11. CASE EndConstants
  BY <1>11 DEF Origin, MetaCopy, lk_get_key, r0, EndConstants
<1>12. CASE UNCHANGED vars
  BY <1>12 DEF Origin, MetaCopy, SameEntry, lk_get_key, r0, vars
<1> QED
  BY <1>1, <1>2, <1>3, <1>4, <1>5, <1>6, <1>7, <1>8, <1>9, <1>10, <1>11, <1>12 DEF Next, Finished

(* No old definition survives a one-entry line (NothingLeftOver): an entry *)
(* that no line gave is what the one-entry line means for its table, or a  *)
(* copy alt_is_meta made.                                                  *)
THEOREM OldDefinitionsKilled == Spec => []NothingLeftOver
<1>1. Init => LineWins /\ Origin
  BY DEF Init, LineWins, Origin, Cell
<1>2. Origin => NothingLeftOver
  BY DEF Origin, NothingLeftOver
<1> QED
  BY <1>1, <1>2, InitOK, StepOK, StepWins, StepOrigin, PTL DEF Spec

=============================================================================
