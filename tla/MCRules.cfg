CONSTANTS
  Scenario <- AllEnvs
  None = None
SPECIFICATION Spec
INVARIANTS EntryIsSound CopiesAgree
PROPERTIES StopNeverLoosens
