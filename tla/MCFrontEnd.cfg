SPECIFICATION Spec
CONSTANTS Menus <- AllMenus
INVARIANTS TypeOK CursorFollowsScopes NestsByIndentation
           TreeIsChained ReturnsFound GoodTextAccepted
PROPERTIES Terminates
CHECK_DEADLOCK FALSE
