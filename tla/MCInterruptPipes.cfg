SPECIFICATION Spec
CONSTANTS
    h = h  k1 = k1  k2 = k2  main = main  other = other
    Devices = {h, k1}  Hubs = {h}
    Tasks = {main}  TaskOf <- OneTask  Main = main
    NPipes = 3  MaxPackets <- TwoButHubs  MaxMoves = 2  Lengths = {3}
INVARIANTS
    NobodyForgotten
    PacketsInOrder
CHECK_DEADLOCK FALSE
