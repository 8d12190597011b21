------------------------- MODULE MCCoreDNSSupervisor -------------------------
\* CoreDNSSupervisor on a small instance: its configuration gives every constant
\* a set of model values.
EXTENDS CoreDNSSupervisor
=============================================================================
