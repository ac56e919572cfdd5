SPECIFICATION Spec
CONSTANTS
    o1 = o1
    o2 = o2
    u1 = u1
    u2 = u2
    p1 = p1
    p2 = p2
    Kosong = Kosong
    Opd <- DuaOpd
    Pengguna <- DuaPengguna
    Permintaan <- DuaPermintaan
SYMMETRY Simetri
INVARIANTS
    RiwayatSelaras
    SatuKepalaPerOpd
    AktifDiOpdHidup
\* Administrators may stop.
CHECK_DEADLOCK FALSE
