SPECIFICATION Spec
CONSTANTS
  Requests = {r1, r2}
  MaxUsers = 2
  MaxRows = 2
  MaxHash = 3
INVARIANTS
  SessionsAreCurrent
  CredentialsKeepTheirPerson
PROPERTIES
  
  ExpiredRowsGo
