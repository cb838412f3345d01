\* The calendar ends its walk at the end of the last year.
SPECIFICATION TimeSpec
CHECK_DEADLOCK FALSE
CONSTANTS
    Years <- AllYears
    Seconds <- SomeSeconds
INVARIANT LocalTimeIsCalendar
INVARIANT DosRoundTrip
PROPERTY DosOrderKept
