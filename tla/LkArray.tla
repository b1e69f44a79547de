------------------------------ MODULE LkArray ------------------------------
(***************************************************************************)
(* libkeymap's growable array (src/src/libkeymap/array.c).                 *)
(*                                                                         *)
(* One array stores items of a fixed size.  An item whose bytes are all    *)
(* zero is "absent": lk_array_exists looks at the bytes and nothing else.  *)
(* The same structure has two kinds of owners in the library:              *)
(*   sparse owners  lk_array_set / lk_array_unset at an index              *)
(*                  (ctx->keymap, each key map, key_constant, func_table)  *)
(*   list owners    lk_array_append / lk_array_empty (ctx->key_line)       *)
(* and ctx->accent_table is both at once: diacr.c appends, sets and        *)
(* unsets.  Which entry points the owner uses is chosen at the start.      *)
(***************************************************************************)
EXTENDS Integers, Sequences, FiniteSets

CONSTANTS
    Elem,           \* items with at least one nonzero byte
    Zero,           \* the all-zero item
    Stored,         \* the items this owner sets or appends
    MaxTotal,       \* bound on the indices set and on the list appended to
    Owners          \* for each kind of owner, the entry points it calls

ASSUME ArrayAssumption ==
    /\ Zero \notin Elem
    /\ Stored \subseteq Elem \union {Zero}
    /\ MaxTotal \in Nat
    /\ Owners \subseteq SUBSET {"set", "unset", "append", "empty"}

VARIABLES
    calls,          \* the entry points this owner calls; never changes
    array,          \* the items, indexed from 0
    total,          \* allocated items
    count           \* "Number of elements"

arrayvars == <<calls, array, total, count>>

Item == Elem \union {Zero}

Indices(n) == 0 .. (n - 1)

SparseOwner == calls \subseteq {"set", "unset"}
ListOwner == calls \subseteq {"append", "empty"}

-----------------------------------------------------------------------------
(* lk_array_exists: outside the array nothing exists.                      *)

lk_array_exists(a, n, i) == i \in Indices(n) /\ a[i] # Zero

(* Mutant: fresh memory instead of realloc.                                *)
ResizedAnew(a, n, i) ==
    IF i < n THEN a ELSE [j \in Indices(i + 1) |-> Zero]

(* array_resize: realloc to i + 1 items and zero the new ones.             *)
Resized(a, n, i) ==
    [j \in Indices(IF i >= n THEN i + 1 ELSE n) |-> IF j < n THEN a[j] ELSE Zero]

ResizedTotal(n, i) == IF i >= n THEN i + 1 ELSE n

(* memcpy of e to index i of the resized array.                            *)
Store(a, n, i, e) == [Resized(a, n, i) EXCEPT ![i] = e]

(* The items that lk_array_exists reports.                                 *)
PresentIn(a, n) == {i \in Indices(n) : a[i] # Zero}

Present == PresentIn(array, total)

-----------------------------------------------------------------------------
(* lk_array_init with size 0, as every owner calls it.                     *)
ArrayInit ==
    /\ calls \in Owners
    /\ array = [i \in Indices(0) |-> Zero]
    /\ total = 0
    /\ count = 0

(* lk_array_set: count moves only when the item appears or disappears.     *)
(* Storing Zero is how a caller may clear an item in place.                *)
lk_array_set(i, e) ==
    /\ "set" \in calls
    /\ LET existed_before == lk_array_exists(array, total, i)
           exists_after == e # Zero
       IN /\ array' = Store(array, total, i, e)
          /\ total' = ResizedTotal(total, i)
          /\ count' = IF ~existed_before /\ exists_after THEN count + 1
                      ELSE IF existed_before /\ ~exists_after THEN count - 1
                      ELSE count

(* Mutant: unset without looking whether the item is present.              *)
UnsetUnchecked(i) ==
    /\ "unset" \in calls
    /\ i \in Indices(total)
    /\ array' = [array EXCEPT ![i] = Zero]
    /\ count' = count - 1
    /\ UNCHANGED total

(* lk_array_unset: outside the array it fails; an absent item is left.     *)
lk_array_unset(i) ==
    /\ "unset" \in calls
    /\ lk_array_exists(array, total, i)
    /\ array' = [array EXCEPT ![i] = Zero]
    /\ count' = count - 1
    /\ UNCHANGED total

(* lk_array_append: the new item goes to index count, whatever is there.   *)
lk_array_append(e) ==
    /\ "append" \in calls
    /\ count < MaxTotal
    /\ array' = Store(array, total, count, e)
    /\ total' = ResizedTotal(total, count)
    /\ count' = count + 1

(* lk_array_empty: zero the items and keep the memory.                     *)
lk_array_empty ==
    /\ "empty" \in calls
    /\ array' = [i \in Indices(total) |-> Zero]
    /\ count' = 0
    /\ UNCHANGED total

ArrayNext ==
    /\ \/ \E i \in Indices(MaxTotal), e \in Stored : lk_array_set(i, e)
       \/ \E i \in Indices(MaxTotal) : lk_array_unset(i)
       \/ \E e \in Stored : lk_array_append(e)
       \/ lk_array_empty
    /\ UNCHANGED calls

ArraySpec == ArrayInit /\ [][ArrayNext]_arrayvars

-----------------------------------------------------------------------------
(* Properties                                                              *)

(* The items fill the allocation exactly, and the unsigned count, which    *)
(* lk_array_unset decrements without a test, never passes below zero.      *)
ArrayTypeOK ==
    /\ total \in Nat
    /\ count \in Nat
    /\ array \in [Indices(total) -> Item]

(* lk_array_unset and the clearing branch of lk_array_set decrement the    *)
(* unsigned count without a test.  Whatever mix of calls the owner makes,  *)
(* count is at least the number of present items, so it never wraps below  *)
(* zero (a wrapped count would make lk_array_append ask for a huge array). *)
CountCoversPresent == Cardinality(Present) <= count

(* array.h describes count as "Number of elements".  For an owner that     *)
(* only sets and unsets, it is exactly the number of present items.  (For  *)
(* the mixed owner it is not: an append onto a present item counts twice.) *)
CountIsPresent == SparseOwner => count = Cardinality(Present)

(* For an owner that only appends and empties, the items from count on are *)
(* zero and count fits the allocation: the next append overwrites nothing. *)
AppendSlotFree ==
    ListOwner =>
        /\ count <= total
        /\ \A i \in Indices(total) : i >= count => array[i] = Zero

(* The list such an owner sees, and its specification.                     *)
AsList == IF ListOwner THEN [i \in 1 .. count |-> array[i - 1]] ELSE <<>>

List == INSTANCE LkList WITH list <- AsList, Value <- Stored, MaxEntries <- MaxTotal

RefinesList == List!ListSpec
=============================================================================
