------------------------- MODULE MCOperationFactory -------------------------
EXTENDS OperationFactory

CONSTANTS admin, user

MCRoles == {admin, user}
MCIntervals == {0, 10}
=============================================================================
