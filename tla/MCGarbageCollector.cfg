SPECIFICATION Spec
CONSTANTS
    proc = proc
    mainThread = mainThread
    routine = routine
    mainStack = mainStack
    routineStack = routineStack
    spareStack = spareStack
    cellA = cellA
    cellB = cellB
    cellC = cellC
    fin = fin
    Nil = Nil
    Process = proc
    Main = mainThread
    Routines = {routine}
    StackOf <- StackOfThread
    SpareStacks = {spareStack}
    Cells = {cellA, cellB, cellC}
    FinCells = {fin}
    MaxSlots = 2
    FlipPeriod = 2
    Programs <- MCPrograms
SYMMETRY CellSymmetry
CHECK_DEADLOCK FALSE
INVARIANTS
    ColorsSound
    NoDangling
    FinalizedUnreachable
