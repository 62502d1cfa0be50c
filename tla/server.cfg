CONSTANTS
  Deployments <- AllDeployments
  Registered <- Policies
  AllowListed <- Gateway
SPECIFICATION Spec
INVARIANTS TypeOK OwnWorkload SampleIsAllSample StoryMatches ConjurTokenKept
