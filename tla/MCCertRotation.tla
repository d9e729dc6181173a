---------------------------- MODULE MCCertRotation ----------------------------
EXTENDS CertRotation

\* The defaults, and a CA that lives no longer than its default renewal age.
MCCertConfigs == {Default, [Default EXCEPT !.caDuration = 4, !.serverRenewBefore = 3]}
=============================================================================
