--------------------------- MODULE MCAdminJournal ---------------------------
EXTENDS AdminJournal, TLC

CONSTANTS c1, c2, k1

==============================================================================
