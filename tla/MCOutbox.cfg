CONSTANTS
  Recipients = {"b"}
  Epochs <- MCEpochs
  Own = {"s1"}
  Foreign = {"f1"}
  SnapEpoch <- MCSnapEpoch
  Scope = {"s1"}
  Routes = {"r1", "r2"}
  InitialRoutes = {"r1", "withdrawn"}
  Secrets <- MCEpochs
  Admitted <- MCAdmitted
  Invited <- MCInvited
  InitialHeld <- MCHeld
  InitialOwed <- MCOwed
  Outdated <- MCOutdated
  Cap = 1
  MaxFaults = 2
SPECIFICATION Spec
CHECK_DEADLOCK FALSE
INVARIANTS RetiredOnlyIfHeld NothingForgotten ByteIdenticalRetries
PROPERTIES EveryObligationLands RedeliveryQuenches
