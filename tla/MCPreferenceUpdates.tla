------------------------- MODULE MCPreferenceUpdates -------------------------
EXTENDS PreferenceUpdates, TLC

CONSTANTS utc, ana, bia, porch

\* Two patches that are acceptable only in one order, the first with a window
\* over midnight and the end of the week, the second normalised; one that
\* undoes the first; and one that moves the window to an afternoon and softens
\* it.  Days have three minutes.
SchedulePatch  == [timezone |-> utc, days |-> {1, 7}, start_time |-> 2, end_time |-> 1,
                   behavior |-> "BLOCK_ALL"]
EnablePatch    == [enabled |-> TRUE, alert_mode |-> "RING_AND_NOTIFICATION"]
ClearPatch     == [end_time |-> None]
AfternoonPatch == [start_time |-> 0, end_time |-> 2, behavior |-> "NOTIFICATION_ONLY"]
Patches        == {SchedulePatch, EnablePatch, ClearPatch, AfternoonPatch}

\* A map of a later version.
Damages == {[version |-> 2, alert_mode |-> "NONE"]}
=============================================================================
