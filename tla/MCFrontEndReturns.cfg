SPECIFICATION Spec
CONSTANTS Menus <- WaysOnly
INVARIANTS ReturnsOnEveryPath
CHECK_DEADLOCK FALSE
