CONSTANTS
    e1 = e1  e2 = e2  e3 = e3
    Events = {e1, e2, e3}
    Repeated = {e3}
    Interval <- IntervalPlain
    Loop = loop
    Others = {other}
    MaxTime = 5
    Never = Never
SPECIFICATION MCSpec
INVARIANTS Sound PunctualAlone
PROPERTIES RunsOnlyDue AllRunAlone
CHECK_DEADLOCK FALSE
