\* Two readers, two tasks, a table that changes and tasks that fail.
SPECIFICATION FairSpec
CONSTANTS
    r1 = r1
    r2 = r2
    t1 = t1
    t2 = t2
    Reader = {r1, r2}
    Owner = o
    TaskSlot = {t1, t2}
    Nil = Nil
    MaxRows = 2
    MaxChanges = 2
    MaxFailures = 2
INVARIANTS TypeOK
PROPERTIES CountCatchesUp
