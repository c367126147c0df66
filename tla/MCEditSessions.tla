---------------------------- MODULE MCEditSessions ----------------------------
(* Instances of EditSessions for TLC.                                         *)
EXTENDS EditSessions

CONSTANTS a1, a2

Draft(addr, key) == [addr |-> addr, key |-> key]

\* The plugin has no key yet; its address is kept or changed, with no key, with
\* its own and with one of another address.
MCStored == {Draft(a1, None)}
MCSubmitted ==
  {Draft(a1, a1), Draft(a2, None), Draft(a2, a2), Draft(a2, a1)}
=============================================================================
