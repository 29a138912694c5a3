SPECIFICATION Spec
CONSTANTS
  NumNodes = 4
  SelfLoops = FALSE
INVARIANTS
  ComponentsCorrect
  AllCyclesBroken
  VictimsDeadlocked
