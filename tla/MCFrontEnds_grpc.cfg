CONSTANTS
  Requests = {r1, r2}
  uuid = uuid
  UUID = UUID
  text = text
  ClientIds <- MCClientIds
  Canonical <- MCCanonical
  NoId = NoId
  Submissions <- MCSubmissions
  Absent = Absent
  INT_MAX = 64
  MAX_CLOCK = 1
SPECIFICATION Spec
INVARIANT
  GrpcRepliesCorrelated
