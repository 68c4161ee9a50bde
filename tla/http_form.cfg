SPECIFICATION Spec
INVARIANTS
  OfferedIsAccepted
