SPECIFICATION FairSpec
CONSTANTS
    CertConfigs <- MCCertConfigs
    Ages = {0, 1, 2}
    CAs = {1, 2, 3, 4, 5, 6}
    MaxHeld = 2
    MaxTime = 9
    MaxEdits = 1
    MaxAborts = 1
INVARIANTS TrustKept CertInv
PROPERTY TrustRestored
