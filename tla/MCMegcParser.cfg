SPECIFICATION Spec
CONSTANTS Texts <- MixedTexts
INVARIANTS TypeOK FunctionsMatchText NothingLost CrashReported
PROPERTIES Terminates
CHECK_DEADLOCK FALSE
