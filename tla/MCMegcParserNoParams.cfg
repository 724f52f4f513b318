SPECIFICATION Spec
CONSTANTS Texts <- UnitTexts
PROPERTIES AfterParameters
CHECK_DEADLOCK FALSE
