CONSTANT
  Passes = 6
SPECIFICATION Spec
INVARIANTS
  GeometryIsRight
  
  
  
CHECK_DEADLOCK FALSE
