------------------------------- MODULE MCTime -------------------------------
\* Every day of the years of a DOS date and the ten before, at seconds around
\* the ends of a day, an hour, a minute, a 128-second unit and the 32-bit word.
EXTENDS Time

AllYears == 1970..2107
SomeSeconds == {0, 59, 60, 128, 3600, 23295, 23296, 86399}
=============================================================================
