------------------------------- MODULE MCSync -------------------------------
(***************************************************************************)
(* Sync with two handlers, so that one of a broken connection still runs      *)
(* while the next one works.                                                *)
(***************************************************************************)
EXTENDS Sync, TLC, MCKeys

CONSTANTS c1, c2, MaxFaults

Handlers == {c1, c2}

\* bound: faults of all kinds together.
FewFaults == breaks' + crashes' + wipes' + partial' <= MaxFaults

SyncSpec == Init /\ [][Next /\ FewFaults]_vars /\ Fairness
=============================================================================
