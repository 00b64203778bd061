----------------------------- MODULE MCBilling ------------------------------
EXTENDS Billing

\* Gateways and tiers with a recurring plan configured: one of two; none.
BasicPlans == Gateways \X {"basic"}
NoPlans == {}
=============================================================================
