--------------------------- MODULE MCCreditBudget ---------------------------
EXTENDS CreditBudget
=============================================================================
