SPECIFICATION SpecAdil
CONSTANTS
    d1 = d1
    d2 = d2
    u1 = u1
    u2 = u2
    Kosong = Kosong
    Dokumen <- DuaDokumen
    Upaya <- DuaUpaya
    Paket <- PaketSama
    Posisi <- PosisiUrut
    BatasSapu = 4
    MaxMati = 1
    CommitAmbigu = FALSE
INVARIANTS
    PublikasiTersedia
    SapuAman
PROPERTIES
    YatimTerhapus
\* The attempts of the instance run out: the system may stop.
CHECK_DEADLOCK FALSE
