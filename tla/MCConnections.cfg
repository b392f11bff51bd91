SPECIFICATION Spec
CONSTANTS
  Users = {alice}
  Names = {openrouter}
  Creates = {c1, c2, c3}
  Approvals = {a1, a2}
  Requests = {r1, r2}
  NoSecret = NoSecret
  MaxFailures = 1
INVARIANTS TypeOK OneCredentialPerApproval LiveConnectionHasCredential
PROPERTY RevokedCredentialNeverUsed
CHECK_DEADLOCK FALSE
