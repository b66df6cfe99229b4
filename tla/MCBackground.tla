----------------------------- MODULE MCBackground -----------------------------
\* Two backups and a restore of one, two reports on up to two objects, two
\* workers on one installation, one alert rule on two resources, one terminal
\* beside others, and two shells on one node.
EXTENDS BackgroundWork
=============================================================================
