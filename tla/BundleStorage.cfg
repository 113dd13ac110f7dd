CONSTANTS
    Size <- MCSize
    Capacity = 3
    Keys = {1, 2, 3, 4}
    Window = 2
    Unlockable = {3}
    MaxSlot = 4
SPECIFICATION Spec
INVARIANTS NothingLeaks ArrivalOrder
PROPERTIES BufferedComeBack
CHECK_DEADLOCK FALSE
