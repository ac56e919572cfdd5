SPECIFICATION SpecE
CONSTANTS
    a = a
    b = b
    Penyunting <- DuaPenyunting
    Kosong = Kosong
    Jenis = {"FLOWCHART"}
    MaxUbah <- UbahUji
    MaxSegar <- SegarUji
    MaxRusak = 1
PROPERTY
    TanpaTimpaDiam
CHECK_DEADLOCK FALSE
