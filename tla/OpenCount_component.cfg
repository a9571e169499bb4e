SPECIFICATION Spec
CONSTANTS
  Procs = {p1, p2, p3, p4, p5}
  Driver = "component"
INVARIANTS SingleHolder Reopenable
