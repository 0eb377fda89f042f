---------------------------- MODULE MCRuneReserve ----------------------------
(***************************************************************************)
(* An instance of RuneReserve: a deposit on the mint's address, an old one  *)
(* on a quote's address, and two withdrawals that need one or both.         *)
(***************************************************************************)
EXTENDS RuneReserve

CONSTANTS own, quoted, small, large, f1, f2

MCDeposits == {own, quoted}
MCValue == [d \in MCDeposits |-> IF d = own THEN 2 ELSE 1]
MCAmount == [w \in {small, large} |-> IF w = small THEN 1 ELSE 2]
=============================================================================
