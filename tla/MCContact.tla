----------------------------- MODULE MCContact -----------------------------
EXTENDS Contact, TLC

CONSTANTS
  MaxClosing  \* bound: rows that are closing at a time

\* The accepters are interchangeable.
Symmetry == Permutations(Accepters)

\* Two are the ends of a contact that close against each other, or two contacts.
FewClose ==
  Cardinality({p \in Ends \X Accepters : row[p[1]][p[2]].closing}) <= MaxClosing

MCSpec == Init /\ [][Next /\ FewClose']_vars
=============================================================================
