SPECIFICATION Spec
CONSTANTS
  r1 = r1  r2 = r2  r3 = r3
  ea = ea  eb = eb  ec = ec  ed = ed
  Requests = {r1, r2}
  Rejected = {}
  Runs <- MCRuns
  Variations <- MCVariations
  Names = {ea, eb, ec, ed}
  SlashNames = {}
  Unsplittable = {ec}
  FaultyStages <- NoneFaulty
  Probes = {p1}
  Runner = Runner
  Nobody = Nobody
  NoRequest = NoRequest
  NoName = NoName
CHECK_DEADLOCK FALSE
PROPERTY
  QueueIsConsumed
