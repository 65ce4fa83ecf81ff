-------------------------- MODULE MCScheduledJobs --------------------------
(* Instances of ScheduledJobs for TLC *)
EXTENDS ScheduledJobs, TLC

CONSTANTS apple, samsung, p1, p2

TwoInstances == {p1, p2}
American     == {apple}
Korean       == {samsung}

=============================================================================
