SPECIFICATION Spec
CONSTANTS
  r1 = r1  r2 = r2  r3 = r3
  ea = ea  eb = eb  ec = ec  ed = ed
  Requests = {r1, r2, r3}
  Rejected = {r3}
  Runs <- MCRuns
  Variations <- MCVariations
  Names = {ea, eb, ec, ed}
  SlashNames = {ec}
  Unsplittable = {}
  FaultyStages <- AllFaulty
  Probes = {p1}
  Runner = Runner
  Nobody = Nobody
  NoRequest = NoRequest
  NoName = NoName
CHECK_DEADLOCK FALSE
INVARIANTS
  TypeOK
  InExactlyOnePlace
  CollectedBreadthFirst
  IdleShowsOnlyFailures
PROPERTIES
  ImplementsService
  StatusIsOfOneRequest
  EnqueueCompletes
  StatusIsAnswered
  ErrorsAreSurvived
