CONSTANTS
  Recipients = {"j"}
  Epochs <- ChainEpochs
  Own = {}
  Foreign = {}
  SnapEpoch <- MCSnapEpoch
  Scope = {}
  Routes = {}
  InitialRoutes = {"withdrawn"}
  Secrets <- ChainEpochs
  Admitted <- ChainAdmitted
  Invited <- ChainInvited
  InitialHeld <- ChainHeld
  InitialOwed <- ChainOwed
  Outdated = {}
  Cap = 1
  MaxFaults = 2
SPECIFICATION Spec
CHECK_DEADLOCK FALSE
INVARIANT RetiredOnlyIfHeld
