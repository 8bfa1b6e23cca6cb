SPECIFICATION ConsoleSpec
CONSTANTS
    Configs = {}
    Outcomes = {"All"}
    Errors = {"Failed"}
    MaxOps = 2
    MaxEvents = 2
    Texts = {}
    Entries = {"e"}
    Others = {0}
    Plain = 0
    Keys = {"enter", "esc", "v"}
    Rows = {"None"}
    Mouse = {}
    Kept = {"a"}
    MaxSelected = 1
    Rest = 1
    FirstRepeat = 0
    NextRepeat = 0
INVARIANTS
    CheckingIsChecking
CHECK_DEADLOCK FALSE
