--------------------------- MODULE MessageEdit ---------------------------
(***************************************************************************)
(* What an edit does to the parts of a message: apply_message_event of      *)
(* crates/santi-db/src/message_events.rs, without the checks on the row     *)
(* (MessageLedger has them).  A part, text or image, is a function of its   *)
(* fields.  An edit is a sequence of items, each with an index (from zero,  *)
(* as in the protocol) and, but for removals, the part to insert or the     *)
(* fields to merge over one.  A merge that yields no part is refused like   *)
(* an index that is out of bounds and not told apart from it; one that      *)
(* makes an image of a text is left out.                                    *)
(***************************************************************************)
EXTENDS Integers, FiniteSets, SequencesExt

CONSTANTS
    Parts,       \* the parts the loops are looked at on
    Merges,      \* what is merged over them
    MaxParts,    \* bound: how many parts a message has
    MaxItems     \* bound: how many items an edit has

ASSUME MessageEditAssumption ==
    /\ \A part \in Parts : part = [field \in DOMAIN part |-> part[field]]
    /\ MaxParts \in Nat /\ MaxItems \in Nat

Indexes(items) == {items[k].index : k \in DOMAIN items}

\* valid_index and valid_insert_index.
ValidIndex(len, index) == index \in 0..(len - 1)
ValidInsertIndex(len, index) == index \in 0..len

\* merge_message_part: the fields given replace those of the part; serde drops
\* the fields a part of its type does not have.
Merged(part, merge) ==
    [field \in DOMAIN part |->
        IF field \in DOMAIN merge THEN merge[field] ELSE part[field]]

\* Patch: in the order given, each merged over the part that is there.
PatchFits(parts, items) == \A i \in Indexes(items) : ValidIndex(Len(parts), i)

Patched(parts, items) ==
    LET after[k \in 0..Len(items)] ==
            IF k = 0 THEN parts
            ELSE [after[k - 1] EXCEPT ![items[k].index + 1] = Merged(@, items[k].part)]
    IN  after[Len(items)]

\* Mutant: the items are inserted from the last to the first, as removals are.
MutantBefore(items, a, b) ==
    \/ items[a].index > items[b].index
    \/ items[a].index = items[b].index /\ a < b

\* sort_by_key, which is stable: whose turn is first.
Before(items, a, b) ==
    \/ items[a].index < items[b].index
    \/ items[a].index = items[b].index /\ a < b

Place(items, k) == Cardinality({l \in DOMAIN items : l = k \/ Before(items, l, k)})

Sorted(items) ==
    [n \in DOMAIN items |-> items[CHOOSE k \in DOMAIN items : Place(items, k) = n]]

\* Insert: by ascending index, each into what the ones before it made.
InsertFits(parts, items) ==
    \A k \in DOMAIN items : ValidInsertIndex(Len(parts) + k - 1, Sorted(items)[k].index)

Inserted(parts, items) ==
    LET sorted == Sorted(items)
        after[k \in 0..Len(items)] ==
            IF k = 0 THEN parts
            ELSE InsertAt(after[k - 1], sorted[k].index + 1, sorted[k].part)
    IN  after[Len(items)]

\* Remove: every index once, from the last to the first.
RemoveFits(parts, items) == \A i \in Indexes(items) : ValidIndex(Len(parts), i)

Removed(parts, items) ==
    LET after[k \in 0..Len(parts)] ==
            IF k = 0 THEN parts
            ELSE IF Len(parts) - k \in Indexes(items)
                 THEN RemoveAt(after[k - 1], Len(parts) - k + 1)
                 ELSE after[k - 1]
    IN  after[Len(parts)]

\* The edit is accepted, and what it makes of the parts.
Fits(op, parts, items) ==
    CASE op = "patch"  -> PatchFits(parts, items)
      [] op = "insert" -> InsertFits(parts, items)
      [] op = "remove" -> RemoveFits(parts, items)
      [] OTHER         -> TRUE

Edited(op, parts, items) ==
    CASE op = "patch"  -> Patched(parts, items)
      [] op = "insert" -> Inserted(parts, items)
      [] op = "remove" -> Removed(parts, items)
      [] OTHER         -> parts

---------------------------------------------------------------------------
(* What a client may count on, stated without the loops.                    *)

\* The items that give a field of the i-th part.
Giving(items, i, field) ==
    {k \in DOMAIN items : items[k].index + 1 = i /\ field \in DOMAIN items[k].part}

\* Every field of a patched part has the last value given for it, the others
\* and the other parts are untouched.
PatchExact(parts, items) ==
    Patched(parts, items) =
        [i \in DOMAIN parts |->
            [field \in DOMAIN parts[i] |->
                LET giving == Giving(items, i, field)
                IN  IF giving = {} THEN parts[i][field]
                    ELSE items[Max(giving)].part[field]]]

\* The parts at the positions that no item names, in their order.
Others(parts, items) ==
    LET kept == {i \in DOMAIN parts : i - 1 \notin Indexes(items)}
    IN  [k \in 1..Cardinality(kept) |->
            parts[CHOOSE i \in kept : Cardinality({j \in kept : j <= i}) = k]]

RemoveExact(parts, items) == Removed(parts, items) = Others(parts, items)

\* Items with different indexes are found at these indexes, and what is around
\* them is what was there before.
InsertExact(parts, items) ==
    Cardinality(Indexes(items)) = Len(items) =>
        LET made == Inserted(parts, items)
        IN  /\ \A k \in DOMAIN items : made[items[k].index + 1] = items[k].part
            /\ Others(made, items) = parts
==========================================================================
