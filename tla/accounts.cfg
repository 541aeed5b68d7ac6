SPECIFICATION Spec
CONSTANTS
  ann = ann
  bob = bob
  none = none
  q1 = q1
  q2 = q2
  Emails = {ann, bob}
  Roles = {"admin", "viewer"}
  FirstAdmins = {none, ann}
  NoEmail = none
  Requests = {q1, q2}
SYMMETRY Symmetry
PROPERTY LastAdminStands
PROPERTY FirstIsAdmin
PROPERTY OnlyAdminsAdminister
PROPERTY ChangesAreAskedFor
