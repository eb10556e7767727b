SPECIFICATION InstallSpec
CONSTANTS
  MaxInstalls = 3
  Recipes <- AllRecipes
PROPERTY MovedWasChecked
 
CHECK_DEADLOCK FALSE
