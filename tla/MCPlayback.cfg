SPECIFICATION Spec
CONSTANTS
    Rates = {2}
    Lengths = {2, 8}
    Positions = {5}
    MaxFramesPerPump = 3
    Quantum = 2
    TargetLead = 2
    MaxQuanta = 1
    SeekTolerance = 3
    Costs = {1, 5}
    MaxLate = 2
    MaxInputs = 3
INVARIANTS
    TransportSound
PROPERTIES
    TransportSettles
CHECK_DEADLOCK FALSE
