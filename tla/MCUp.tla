------------------------------- MODULE MCUp --------------------------------
EXTENDS Up

MCMaxWrites == 3
MCMaxEdits == 2
MCStackAll == {"nil", "none", "s3"}
MCStackUp == {"none", "s3"}
MCHookServer == {"hooks"}
=============================================================================
