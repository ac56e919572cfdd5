SPECIFICATION Spec
CONSTANTS
    b1 = b1
    b2 = b2
    l1 = l1
    l2 = l2
    l3 = l3
    m1 = m1
    m2 = m2
    k1 = k1
    k2 = k2
    k3 = k3
    Kosong = Kosong
    Peramban <- DuaPeramban
    Laman <- TigaLaman
    Milik <- MilikUji
    Minta <- DuaMinta
    Kerja <- TigaKerja
    MaxUlah = 2
    MaxRusak = 1
INVARIANTS
    SatuSesi
    PutusTuntas
PROPERTIES
    UsirBeralasan
    MintaBerakhir
\* Users may stop.
CHECK_DEADLOCK FALSE
