--------------------------- MODULE MCProductChoice ---------------------------
(* Two products, the first cheaper and with more leverage.                 *)
EXTENDS ProductChoice

MCProducts ==
    << [con_id |-> "p1", issuer_fee_pct |-> 0, leverage |-> 10],
       [con_id |-> "p2", issuer_fee_pct |-> 1, leverage |-> 5] >>
=============================================================================
