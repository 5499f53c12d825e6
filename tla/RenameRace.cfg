SPECIFICATION Spec
CONSTANTS
  r1 = r1  r2 = r2  r3 = r3  u1 = u1  u2 = u2  ta = ta  tb = tb
  None = None
  Request <- Three
  User = {u1}
  Title = {ta, tb}
INVARIANT RenameShowsTitle
CHECK_DEADLOCK FALSE
