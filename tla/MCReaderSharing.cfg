\* Two receivers that compete for a reader.
SPECIFICATION Spec
CONSTANTS
  Receivers = {x1, x2}
  Readers = {r1, r2}
  Null = Null
INVARIANT OneOwner
