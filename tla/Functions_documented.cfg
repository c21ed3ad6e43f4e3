SPECIFICATION FunctionsSpec
CONSTANTS
  HasMoveConstructor = FALSE
  Families = {"ternary", "and", "condition", "case", "returnTemp", "breaking", "increment", "frees", "classes"}
  Habits = {"circular", "extendsWhatFollows", "usesWhatFollows", "interfacesFollow",
            "addsATable", "overloads", "leavesAbstract", "implementsByInheritance",
            "interfacesWithFields", "interfacesExtended"}
  Programs <- MCPrograms
  None = None
\* Each of these is violated: leave one in at a time.
INVARIANTS
  DestroyedOnce
  AcceptedMeansReturns
  ReportsAreRight
  NoFreeIsHonest
  CallsRunOverrides
  FieldsKeepTheirPlace
  IsFindsRelatives
  CirclesAreReported
CHECK_DEADLOCK FALSE
