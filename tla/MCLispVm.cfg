SPECIFICATION Spec
CONSTANTS
    None = None
    Scripts <- MCScripts
    Answers <- MCAnswers
    Globals <- MCGlobals
PROPERTIES MachineAgrees RunReturns
CHECK_DEADLOCK FALSE
