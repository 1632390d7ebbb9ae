SPECIFICATION Spec
CONSTANTS
  P = 2
  Divisions = {"divByZerofier"}
  Lengths = {11}
  Divisors = {5}
  MaxThreads = {2}
INVARIANTS
  Divides
