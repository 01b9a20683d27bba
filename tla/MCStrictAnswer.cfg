SPECIFICATION AnswerSpec
CONSTANTS
  d1 = d1
  g1 = g1
  g2 = g2
  NoChunks = NoChunks
  ra = ra
  rb = rb
  r1 = r1
  q1 = q1
  Docs = {d1}
  Generations = {g1, g2}
  Readers = {r1}
  Roles = {ra, rb}
  Queries = {q1}
  Allowed <- AllowedRoles
  Matches <- EveryDocument
  RetrievalVersions = {"v1"}
  MaxVersion = 1
SYMMETRY Symmetry
CONSTRAINT VersionBound
INVARIANTS
  AnswerIsolation
  AnswerNotOutdated
  RefusalIsDeserved
