-------------------------- MODULE MCOrderLifecycle --------------------------
EXTENDS OrderLifecycle, TLC

Symmetry == Permutations(Orders) \cup Permutations(Proposals)

FaultBudget   == [crash |-> 1, disconnect |-> 1, lockTimeout |-> 1,
                  reconcile |-> 1]
OutageBudget  == [crash |-> 1, disconnect |-> 1, lockTimeout |-> 1,
                  reconcile |-> 0]
RestartBudget == [crash |-> 1, disconnect |-> 0, lockTimeout |-> 0,
                  reconcile |-> 0]
=============================================================================
