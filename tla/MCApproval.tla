--------------------------- MODULE MCApproval ----------------------------
EXTENDS Approval
==========================================================================
