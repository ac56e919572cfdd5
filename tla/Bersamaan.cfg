SPECIFICATION SpecBalapan
CONSTANTS
    s1 = s1
    s2 = s2
    o1 = o1
    p1 = p1
    p2 = p2
    p3 = p3
    k1 = k1
    k2 = k2
    Sop <- SatuSop
    Opd <- SatuOpd
    OpdSop <- SemuaMilikO1
    MaxBaris = 3
    Pengajuan <- DuaPengajuan
    Proses <- DuaProses
    MaxVersiNilai = 1
SYMMETRY Simetri
INVARIANTS
    SatuBerlakuPerSop
    PengesahanLengkap
    SatuRevisiTanpaBalapan
    SatuAktifTanpaBalapan
    PdfSelarasTanpaBalapan
PROPERTIES
    ArsipTerjaga
    TerminalTanpaBalapan
\* Requests come from users and the rows of the instance run out: the system may stop.
CHECK_DEADLOCK FALSE
