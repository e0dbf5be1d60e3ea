---------------------------- MODULE MCBallocClients ----------------------------
(***************************************************************************)
(* BallocClients on a small memory.                                        *)
(***************************************************************************)
EXTENDS BallocClients

CONSTANTS c1, c2

MCClient == {c1, c2}

\* the counter handed over: below, at and above the number of marked blocks
MCInitUsed == {0, 2, UIntMax}

===============================================================================
