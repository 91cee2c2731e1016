------------------------------ MODULE MCMenus ------------------------------
(* Instances of Menus for TLC.  The title array holds three bytes and the
   terminator with room to spare, a window ten rows. *)
EXTENDS Menus, TLC

Ent(type, in, key, value) == [type |-> type, inside |-> in, name |-> key, value |-> value]
Entries ==
    {Ent("STR", TRUE, "STITLE", v) : v \in {<<65>>, <<47, 195, 169>>, <<65, 65, 65, 65>>}}
    \cup {Ent("STR", TRUE, "TITLE", <<66>>), Ent("VAL", TRUE, "STITLE", <<67>>),
          Ent("STR", FALSE, "CATEGORY", <<68>>), Ent("STR", TRUE, "CATEGORY", <<68>>)}
File(ents) == [size |-> 20 + 16 * Len(ents) + 1, io |-> TRUE, magic |-> TRUE,
               count |-> Len(ents), ents |-> ents]
Files == {File(e) : e \in UNION {[1..n -> Entries] : n \in 0..2}}
Whole == File(<<Ent("STR", TRUE, "TITLE", <<66>>)>>)
Damaged == {[Whole EXCEPT !.io = FALSE], [Whole EXCEPT !.magic = FALSE],
            [Whole EXCEPT !.count = 201], [Whole EXCEPT !.size = 20],
            [Whole EXCEPT !.size = 30], SfoMissing}
MCCards ==
    {[app |-> a, sfo |-> Whole] : a \in {"missing", "empty"}}
    \cup {[app |-> "there", sfo |-> f] : f \in Files \cup Damaged}

Matches(n) == [i \in 1..n |-> "match"]
MCFolders ==
    {Matches(n) : n \in {0, 1, 8, 9, 10, 11, 12, 19, 20, 21, 23, 27}}
    \cup {<<"dir", "big", "match", "other">>, <<"match", "blank", "match">>,
          <<"match", "error">>, [i \in 1..25 |-> "other"] \o Matches(1)}

Units == {65, 47, 127, 128, 2047, 2048, 65535, 55357, 56832}
MCTyped == {<<u>> : u \in Units} \cup {<<u, 58>> : u \in Units} \cup {<<55357, 56832, 65>>, <<>>}
MCNumbers == {0, 65535, 99999}
MCRegisters == {0, 5, 13, 31, 172, 255}
=============================================================================
