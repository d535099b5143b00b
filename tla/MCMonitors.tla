------------------------------ MODULE MCMonitors ------------------------------
EXTENDS Monitors, TLC

\* An interval of one tick of the clock.
Interval == {[cron |-> FALSE, every |-> 1]}
===============================================================================
