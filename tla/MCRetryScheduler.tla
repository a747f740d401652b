-------------------------- MODULE MCRetryScheduler --------------------------
(* Two call jobs of one customer.                                          *)
EXTENDS RetryScheduler

CONSTANTS j1, j2
MCJobs == {j1, j2}
=============================================================================
