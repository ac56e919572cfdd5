SPECIFICATION SpecD
CONSTANTS
    a = a
    Penyunting <- SatuPenyunting
    Kosong = Kosong
    Jenis = {"FLOWCHART", "BPMN"}
    MaxUbah <- UbahUji
    MaxSegar <- SegarUji
    MaxRusak = 1
    MaxGambar = 2
INVARIANTS
    OverrideSesuaiLangkah
PROPERTIES
    DiagramTakMundur
    TakMenggantung
    SiramBerakhir
    DiagramTakMenggantung
CHECK_DEADLOCK FALSE
