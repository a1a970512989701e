---------------------------- MODULE MCClientCare ----------------------------
EXTENDS ClientCare
=============================================================================
