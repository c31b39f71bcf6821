SPECIFICATION Spec
CONSTANTS
  Workspace = {"w1", "w2"}
  Existing <- MCExisting
  Question = {"q1", "q2"}
  Blank = Blank
  AuthEnabled = TRUE
  Slots = {s1, s2}
SYMMETRY SlotSymmetry
INVARIANTS OneQueryAtATime AskWaits SelectorFollowsWorkspace
PROPERTIES ImplementsDesk
