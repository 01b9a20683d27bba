SPECIFICATION AnswerSpec
CONSTANTS
  d1 = d1
  g1 = g1
  NoChunks = NoChunks
  ra = ra
  r1 = r1
  r2 = r2
  q1 = q1
  Docs = {d1}
  Generations = {g1}
  Readers = {r1, r2}
  Roles = {ra}
  Queries = {q1}
  Allowed <- AllowedRoles
  Matches <- EveryDocument
  RetrievalVersions = {"v1"}
  MaxVersion = 1
SYMMETRY Symmetry
CONSTRAINT VersionBound
INVARIANTS
  QuotesAreCited
