SPECIFICATION Spec
CONSTANTS
    w1 = w1
    w2 = w2
    h1 = h1
    Kosong = Kosong
    Pekerja <- SatuPekerja
    Penerima <- SatuPenerima
    Sewa = 1
    Jarak = 2
    JarakTolak = 1
    Mundur <- MundurUji
    MundurAtur = 2
    MaxJam = 3
    MaxBaris = 1
    MaxUbah = 0
    MaxPesan = 2
    MaxRusak = 1
    MaxPeristiwa = 2
INVARIANTS
    KotakSelaras
    TiadaTertinggal
PROPERTIES
    JarakAntarPesan
    HasilTetap
\* The clock of the instance stops at MaxJam.
CHECK_DEADLOCK FALSE
