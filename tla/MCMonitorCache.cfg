\* Two clients of the monitor, a report and a page, a clock that may be set back.
SPECIFICATION Spec
CONSTANTS
  report = report
  page = page
  Clients = {c1, c2}
  Routes = {report, page}
  Report = report
  Lifespan <- MCLifespan
  MaxTime = 3
  MaxSlip = 1
  MaxVersion = 1
  None = None
CONSTRAINT OneRoute
SYMMETRY ClientSymmetry
INVARIANTS
  AnswersYoung
  Inv
PROPERTIES
  ClientsMonotone
  FreshSparesUpstream
