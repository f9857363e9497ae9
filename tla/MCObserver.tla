----------------------------- MODULE MCObserver -----------------------------
(* Observer with two game threads.                                         *)
EXTENDS Observer, TLC

CONSTANTS t1, t2

MCThreads == {t1, t2}

AllConfigs == Config

Switches(p, c, a, e) == [poll |-> p, codec |-> c, application |-> a, experiment |-> e]

\* Everything recorded; the serializer alone; and a file that asks for rule
\* recording without the limit, which validate_config refuses.
FewConfigs ==
  {Switches(TRUE, TRUE, TRUE, FALSE), Switches(FALSE, FALSE, FALSE, FALSE),
   Switches(FALSE, TRUE, FALSE, FALSE)}

Symmetry == Permutations(MCThreads)
=============================================================================
