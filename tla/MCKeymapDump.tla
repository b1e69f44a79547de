---------------------------- MODULE MCKeymapDump ----------------------------
(***************************************************************************)
(* A small instance of KeymapDump: the plain, Shift and Alt tables and one *)
(* beyond the sixteen of a letter; every row over letters, digits, their   *)
(* Meta forms and VoidSymbol for one key, and two for another.             *)
(***************************************************************************)
EXTENDS KeymapDump

MCTable == {0, 1, 8, 16}

MCEntry == {K("LETTER", 97), K("LETTER", 65), K("LATIN", 97), K("LATIN", 49), K("META", 97), K("META", 49), K_HOLE}

Rows == {r \in [MCTable -> MCEntry] : r[16] \in {K("LATIN", 97), K_HOLE}}

OtherRows ==
    {[t \in MCTable |-> K("FN", 1)],
     [t \in MCTable |-> IF t = 8 THEN K("META", 50) ELSE K("LATIN", 50)]}

MCKernels ==
    {[maps |-> m, keys |-> [t \in MCTable |-> [k \in Key |-> IF k = 0 \/ t \notin m THEN K_HOLE
                                                 ELSE IF k = 1 THEN r[t] ELSE s[t]]]] :
        m \in {{0}, {0, 1}, {0, 8}, {0, 1, 8}, {0, 16}}, r \in Rows, s \in OtherRows}

=============================================================================
