--------------------------- MODULE MCCreditBudget ---------------------------
(* Two credits a minute, five a day (three for the search of               *)
(* MCHardDailyLimit); three minutes, of which the ledger remembers two;    *)
(* three jobs of up to two symbols, one more than the day allows.          *)
EXTENDS CreditBudget
=============================================================================
