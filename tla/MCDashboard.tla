------------------------------ MODULE MCDashboard ------------------------------
EXTENDS Dashboard
=============================================================================
