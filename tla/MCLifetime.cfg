\* Every engine in every order of calls, two profiles, data that comes and goes.
CONSTANTS
  Handles = {e1, e2}
  Contexts = {c1, c2}
  Directories = {home, work}
  Default = home
  Words = {word}
  None = None
  MaxLessons = 2
SYMMETRY HandleSymmetry
SPECIFICATION Spec
INVARIANTS
  RegistryIsLive
  LearningIsKept
  ProfilesApart
