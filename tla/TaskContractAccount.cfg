SPECIFICATION MCSpec
CONSTANTS
  Unset = Unset
  NoProfile = NoProfile
  NoContract = NoContract
  NoPlan = NoPlan
  Profiles <- MCProfiles
  Providers <- MCProviders
  Catalogs <- MCCatalogs
  WritePolicies <- MCWritePolicies
  RecipePolicies <- MCRecipePolicies
  Plans <- MCPlans
  RunInputs <- MCRunInputs
  ResumeInputs <- MCResumeInputs
  MaxTasks = 2
  Targets <- MCTargets
  MaxProposals = 2
INVARIANT ResumedUnderOwnAccount
