------------------------- MODULE MCScheduledWork -------------------------
\* Two replicas, one backup schedule and one inspection rule.
EXTENDS ScheduledWork
=============================================================================
