----------------------------- MODULE MCAuditTrail -----------------------------
EXTENDS AuditTrail

\* Everything after the first reading of the clock.
MCFilters == {[user |-> "", action |-> "", since |-> 3, until |-> 0]}
=============================================================================
