SPECIFICATION Spec
CONSTANTS
    Tasks = {"t1", "t2"}
    Drivers = {"asyncpg", "psycopg"}
    MaxCancels = 2
CHECK_DEADLOCK TRUE
INVARIANT ClosesItsConnection
