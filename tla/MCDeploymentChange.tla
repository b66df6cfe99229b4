------------------------ MODULE MCDeploymentChange ------------------------
(* A small instance of DeploymentChange for TLC.                           *)
EXTENDS DeploymentChange
=============================================================================
