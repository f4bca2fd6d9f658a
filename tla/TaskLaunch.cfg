SPECIFICATION LaunchSpec
CONSTANTS
  Null = Null
  g1 = g1
  g2 = g2
  a1 = a1
  a2 = a2
  HostThreads <- ThreeThreads
  RootFlaws <- SomeRootFlaws
  TurnAnswers <- SomeTurnAnswers
  Endings <- SomeEndings
  Addresses <- TwoAddresses
  SkillLists <- SomeSkillLists
  Granters <- TwoGranters
  Epochs <- TwoEpochs
  Epoch = 1
  MaxAttempts = 2
  MaxCrashes = 1
CHECK_DEADLOCK FALSE
INVARIANTS HandoffIsStable AttemptsAreApart WriteTurnIsEarned GrantsAndProgressAreEarned
PROPERTIES LaunchesEnd
