SPECIFICATION HungSpec
CONSTANTS
    Functions = {f1}
    Coroutines = {g1}
    Resolvers = {r1}
    Items = {i1, i2, i3}
    NoItem = NoItem
    Workers = 1
INVARIANTS TypeOK
PROPERTIES NoLateStart AnswerIsItsOwn TimeoutBoundsCall
CHECK_DEADLOCK TRUE
