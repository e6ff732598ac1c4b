SPECIFICATION Spec
CONSTANTS
  requester = requester
  maintainer = maintainer
  Actors = {requester, maintainer}
  Times = {1, 2}
  Requests <- MCRequests
  MaxHistory = 7
INVARIANT
  RejectableUntilPublished
