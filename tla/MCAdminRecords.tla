--------------------------- MODULE MCAdminRecords ---------------------------
(* The instance of AdminRecords for TLC. For each key the values submitted   *)
(* are those at and around its limits, and one of every wrong type.          *)
EXTENDS AdminRecords, TLC

Around(lo, hi) == {Int64(lo - 1), Int64(lo), Int64(hi), Int64(hi + 1)}

Samples(k) ==
    IF k \notin ALL_KEYS THEN {}
    ELSE LET lo == REGISTRY[k].minimum
             hi == REGISTRY[k].maximum IN
         {Null, Other, Bool(TRUE), Bool(FALSE)} \cup Around(lo, hi)
         \cup {Text(n, padded, FALSE) : n \in {0, 1, hi, hi + 1}, padded \in BOOLEAN}
         \cup {Text(n, padded, TRUE) : n \in {2, 16}, padded \in BOOLEAN}
         \cup {Object(exact, amount, usd) : exact \in BOOLEAN, usd \in BOOLEAN,
                 amount \in Around(lo, hi) \cup {Null, Bool(TRUE), Other}}

Symmetry == Permutations(Rows) \cup Permutations(Requests)
                \cup Permutations(Names) \cup Permutations(Slugs)

=============================================================================
