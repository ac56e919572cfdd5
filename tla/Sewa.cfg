SPECIFICATION Spec
CONSTANTS
    w1 = w1
    w2 = w2
    h1 = h1
    Kosong = Kosong
    Pekerja <- DuaPekerja
    Penerima = {}
    Sewa = 1
    Jarak = 2
    JarakTolak = 1
    Mundur <- MundurUji
    MundurAtur = 2
    MaxJam = 3
    MaxBaris = 2
    MaxUbah = 2
    MaxPesan = 3
    MaxRusak = 1
    MaxPeristiwa = 2
SYMMETRY Simetri
PROPERTIES
    JadwalMaju
    JarakAntarPesan
\* The clock of the instance stops at MaxJam.
CHECK_DEADLOCK FALSE
