CONSTANTS
  Deployments <- OnlyCluster
  Registered <- Policies
  AllowListed <- Gateway
SPECIFICATION Spec
INVARIANT SyntheticIsMarked
