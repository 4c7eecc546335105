------------------------- MODULE MCMessageLedger -------------------------
(* MessageLedger for TLC: two messages of two authors, the envelopes that    *)
(* interfere, and the inputs the edits are checked on.                       *)
EXTENDS MessageLedger

CONSTANTS m1, m2, alice, bob

MCMessageIds == {m1, m2}

Text(words) == [text |-> words]
Image(data) == [mime_type |-> "png", data_base64 |-> data]

x == Text(<<"x">>)
y == Text(<<"y">>)

MCParts == {x, Image("a")}
MCMerges == {y, [data_base64 |-> "b"]}

Item(index, part) == [index |-> index, part |-> part]

Create(id, m, who, fixed, parts, bootstrap) ==
    [id |-> id, op |-> "create", message |-> m, sender |-> who, base |-> 0,
     fixed |-> fixed, parts |-> parts, bootstrap |-> bootstrap]

Edit(id, op, m, who, base, items) ==
    [id |-> id, op |-> op, message |-> m, sender |-> who, base |-> base,
     fixed |-> FALSE, parts |-> items, bootstrap |-> FALSE]

MCEnvelopes == {
    Create(1, m1, alice, FALSE, <<x, y>>, TRUE),
    Create(2, m2, bob, TRUE, <<x>>, TRUE),
    Edit(3, "patch", m1, alice, 1, << Item(0, y) >>),
    Edit(4, "insert", m1, alice, 1, << Item(1, x), Item(0, y) >>),
    Edit(5, "remove", m1, alice, 2, << Item(1, x) >>),
    Edit(6, "fix", m1, alice, 1, << >>),
    Edit(7, "fix", m1, alice, 2, << >>),
    Edit(8, "patch", m1, bob, 1, << Item(0, x) >>)}

CallSymmetry == Permutations(Calls)
==========================================================================
