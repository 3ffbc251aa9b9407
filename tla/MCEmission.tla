----------------------------- MODULE MCEmission -----------------------------
(* Three emissions or redeliveries of one webhook, two attempts each, a log *)
(* of two records and one reset.  How waits end and how deliveries end are  *)
(* independent of one another, so two of the four modes have every case.    *)
EXTENDS Emission

MCModes == {<<FALSE, FALSE>>, <<TRUE, TRUE>>}
=============================================================================
