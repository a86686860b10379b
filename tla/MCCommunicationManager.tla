----------------------- MODULE MCCommunicationManager -----------------------
(* Instances of CommunicationManager for TLC.                              *)
EXTENDS CommunicationManager
=============================================================================
