------------------------ MODULE MCConfigTransaction ------------------------
(* Instances of ConfigTransaction for TLC.                                 *)
EXTENDS ConfigTransaction, TLC
CONSTANTS p1, p2, bA, bB, s1, s2

\* Bounds, two instances in one: a long history of one plugin in intact files, beside
\* a plugin nobody touches; or two plugins that are saved once each, with one
\* credential, the second at its old address, while a file may be damaged.
LongHistory ==
  /\ damage = 0
  /\ yaml[p2].revision = 1 /\ save[p2] = NoSave /\ journal[p2] = NoRecord

Tried == UNION {{attempt[p].old.secret, attempt[p].new.secret} : p \in Plugins}

Neighbours ==
  /\ \A p \in Plugins :
       /\ yaml[p].revision <= 2
       /\ save[p] # NoSave => save[p].previous = 1
       /\ journal[p] # NoRecord => journal[p].previous = 1
  /\ ~({s1, s2} \subseteq Tried)
  /\ save[p2] # NoSave => save[p2].after = save[p2].before

MCSymmetry == Permutations({bA, bB}) \cup Permutations({s1, s2})
=============================================================================
