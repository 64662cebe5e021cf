CONSTANTS
  c1 = c1
  c2 = c2
  c3 = c3
  Clients <- MCClients
  Weights <- MCWeights
  Limits <- MCLimits
SPECIFICATION FairSpec
INVARIANTS PermitsConserved NoLostWakeup
PROPERTIES EveryWaiterServed ImplementsPool
