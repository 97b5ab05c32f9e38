--------------------------- MODULE MCTicketReview ---------------------------
EXTENDS TicketReview
=============================================================================
