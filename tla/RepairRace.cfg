SPECIFICATION Spec
PROPERTIES
    RepairLeavesForeignPage
