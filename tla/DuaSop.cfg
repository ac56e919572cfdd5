SPECIFICATION SpecBalapan
CONSTANTS
    s1 = s1
    s2 = s2
    o1 = o1
    p1 = p1
    p2 = p2
    p3 = p3
    k1 = k1
    k2 = k2
    Sop <- DuaSop
    Opd <- SatuOpd
    OpdSop <- SemuaMilikO1
    MaxBaris = 1
    Pengajuan <- SatuPengajuan
    Proses <- DuaProses
    MaxVersiNilai = 2
SYMMETRY Simetri
INVARIANTS
    DapatDitandatanganiTanpaBalapan
    SelesaiSesuaiTanpaBalapan
    TolakTetapTanpaBalapan
PROPERTIES
    MajuTanpaBalapan
\* Requests come from users and the rows of the instance run out: the system may stop.
CHECK_DEADLOCK FALSE
