CONSTANTS
  Binding = {a, b, c}
  Place = {p1, p2}
  First = a
  FirstPlace = p1
SPECIFICATION MCSpec
INVARIANTS PlanExact ReferencesFilled MaskExact
PROPERTIES ImplementsResolution Terminates
CHECK_DEADLOCK FALSE
