--------------------------- MODULE MCFormulaStore ---------------------------
(* Two formulas of a user and one of the catalog, two revisions of each.     *)
EXTENDS FormulaStore

Calculations == {0, 1}
Contents ==
    {[uses |-> {}, calc |-> 0, active |-> TRUE],
     [uses |-> {}, calc |-> 1, active |-> TRUE],
     [uses |-> {<<"base", 1>>}, calc |-> 0, active |-> TRUE]}

(* A client brings a body of its own under the name of a revision. *)
Brought == {<<<<"base", 1>>, [uses |-> {}, calc |-> 1, active |-> TRUE]>>}

(* A store with a formula that uses another, and one of the catalog as it is *)
(* or as an older version of the program had packaged it.                    *)
Documents ==
    {[NoBodies EXCEPT ![<<"base", 1>>] = [uses |-> {}, calc |-> 0, active |-> TRUE],
                      ![<<"user", 1>>] = [uses |-> {<<"base", 1>>}, calc |-> 0, active |-> TRUE],
                      ![<<"ta", 1>>] = [uses |-> {}, calc |-> 0, active |-> TRUE]]}
=============================================================================
