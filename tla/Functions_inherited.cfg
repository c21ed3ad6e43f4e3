SPECIFICATION FunctionsSpec
CONSTANTS
  HasMoveConstructor = TRUE
  Families = {"classes"}
  Habits = {"implementsByInheritance"}
  Programs <- MCPrograms
  None = None
INVARIANT CallsRunOverrides
CHECK_DEADLOCK FALSE
