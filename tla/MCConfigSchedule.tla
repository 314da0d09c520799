--------------------------- MODULE MCConfigSchedule ---------------------------
(* One model in a crunch with a schedule, one in a crunch without, which   *)
(* comes and goes.                                                         *)
EXTENDS ConfigSchedule, TLC

CONSTANTS m1, m2, always, scheduled, s1, s2

Running(submission) == [submission |-> submission, desired |-> "RUNNING"]
Stopped(submission) == [submission |-> submission, desired |-> "STOPPED"]

CrunchOfDef == (m1 :> scheduled) @@ (m2 :> always)
ListingsDef == (m1 :> {Unlisted, Running(s1), Running(s2), Stopped(s1)}) @@ (m2 :> {Running(s1)})
=============================================================================
