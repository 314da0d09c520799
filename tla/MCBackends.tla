---------------------------- MODULE MCBackends ----------------------------
EXTENDS Backends

\* Two runs of one submission: one replaces the other for its resource.
OneSubmission == [r \in 1..2 |-> "submission"]
=============================================================================
