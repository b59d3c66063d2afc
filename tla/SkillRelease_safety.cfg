SPECIFICATION Spec
CONSTANTS
  Person = {ann, bob}
  Evaluator = {e1}
  Validator = {v1}
  Scope = {project, agent}
  Run = {r}
  Subject = {1, 2}
  MaxTime = 1
  Ttl = 1
  MaxReviews = 1
  MaxVersions = 2
  MaxDeployments = 3
  None = None
INVARIANT CanaryBesideStable
PROPERTIES ResolvesWhatIsInUse ReleasesOnEvidence
CONSTRAINT FewSteps
SYMMETRY Symmetric
