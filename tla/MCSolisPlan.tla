---------------------------- MODULE MCSolisPlan -----------------------------
(* SolisPlan for TLC: days of four half-hours.                               *)
EXTENDS SolisPlan

AllDay == 0 .. PerDay - 1
FewTariffs == {{}, {0, 3}, {1, 2}, {2}}
\* Over the first midnight, and a day and a half ahead.
FewSessions == {<<21, 27>>, <<36, 42>>}
\* 20 minutes slow, an hour ahead and 20 fast, 30 minutes off.
FewSkews == {-4, 16, 6}
\* Only the one a day and a half ahead, and a clock that is right.
LateSession == {<<36, 42>>}
NoSkew == {0}
=============================================================================
