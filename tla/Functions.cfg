SPECIFICATION FunctionsSpec
CONSTANTS
  HasMoveConstructor = TRUE
  Families = {"objects", "values", "classes"}
  Habits = {}
  Programs <- MCPrograms
  None = None
INVARIANTS DestroyedOnce AcceptedMeansReturns ReportsAreRight
           CallsRunOverrides FieldsKeepTheirPlace IsFindsRelatives SlotsFollowNames
PROPERTY WillReturnReturns
CHECK_DEADLOCK FALSE
