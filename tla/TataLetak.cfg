SPECIFICATION Spec
CONSTANTS
    MaxSeed = 1
    Sidik <- SidikSatuDigit
    MaxBaris = 5
    MaxBobot = 6
INVARIANTS
    DorongTuntas
    SatuPerKolom
    ArahBaca
CHECK_DEADLOCK FALSE
