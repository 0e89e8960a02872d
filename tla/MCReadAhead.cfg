\* Three files, two IO workers, a budget of two units; a footer announces less than
\* the budget, exactly the budget, or more than it.
CONSTANTS
  N = 3
  Workers = {w1, w2}
  Limit = 2
  Sizes = {1, 2, 3}
SPECIFICATION FairSpec
INVARIANTS TypeOK BudgetExact OversizedAlone AdmitInOrder NoEarlyStop NoLostWakeup CleanReturn IInv
PROPERTIES OrderedSafety OrderedVisitSpec
