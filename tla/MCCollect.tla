----------------------------- MODULE MCCollect ------------------------------
(* Collect on the four clouds of types/cloud.go. *)
EXTENDS Collect

CONSTANTS AWS, AWS_GOV, AZURE, GCP

MCClouds == {AWS, AWS_GOV, AZURE, GCP}
=============================================================================
