CONSTANTS
    Observers = {"hooking_enabled"}
    Inis <- OneChange
SPECIFICATION Spec
INVARIANTS InitAnswersTrue InstalledAsAsked
PROPERTIES SpreadNeedsCap4 InstalledOnCleanGround
