------------------------------- MODULE MCTxn --------------------------------
EXTENDS Txn, TLC

CONSTANTS k1, k2, a

KeySet == {k1, k2}
ValueSet == {a}
AllLevels == {"READ_UNCOMMITTED", "READ_COMMITTED",
              "REPEATABLE_READ", "SERIALIZABLE"}

\* The keys are only compared with one another.
KeySymmetry == Permutations(KeySet)
=============================================================================
