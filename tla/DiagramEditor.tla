---------------------------- MODULE DiagramEditor ----------------------------
(***************************************************************************)
(* The editor of SopEditor with its diagram: per kind of diagram a slice   *)
(* of arrow overrides, keyed by the ids of the langkah they join, saved by *)
(* useSopDiagramAutosave for the kind on the active tab.  That hook has a  *)
(* timer of its own and does not wait for a save under way.                *)
(***************************************************************************)
EXTENDS SopEditor

CONSTANT MaxGambar      \* bound: edits of the diagram by one editor

\* null is not a content.
ASSUME IsiAssumption == Kosong \notin (Penyunting \cup {Kosong}) \X Nat

VARIABLE dg             \* dg[c]: usePenyusunDiagramConfig and useSopDiagramAutosave

varsD == <<varsE, dg>>

DiagramBaru == [tab |-> Kosong, konfig |-> [j \in Jenis |-> Kosong], dasar |-> Kosong, ke |-> 0,
                tick |-> FALSE, status |-> "tenang"]

\* isDiagramHydrated.
Terhidrasi(d) == d.tab # Kosong

Slice(d) == d.konfig[d.tab]

InitD == InitE /\ dg = [c \in Penyunting |-> DiagramBaru]

-----------------------------------------------------------------------------
(***************************************************************************)
(* The page of c.                                                          *)
(***************************************************************************)
\* The effect on [slice, enabled]; its cleanup has cancelled the timer.
EfekDiagram(d, aktif) ==
    CASE ~aktif -> [d EXCEPT !.tick = FALSE]
      [] aktif /\ Slice(d) = d.dasar ->
             [d EXCEPT !.tick = FALSE, !.status = IF @ = "tunggu" THEN "tenang" ELSE @]
      [] OTHER -> [d EXCEPT !.tick = TRUE, !.status = IF @ = "simpan" THEN @ ELSE "tunggu"]

\* A step of the procedure's editor that may change enabled.
IkutEfek(c) ==
    LET baru == AktifDi(pn'[c], wb'[c])
    IN  dg' = [dg EXCEPT ![c] = IF baru = Aktif(c) THEN @ ELSE EfekDiagram(@, baru)]

\* The slices are taken from the workbench once.
Hidrasi(c) ==
    /\ Muat(c)
    /\ \E j \in Jenis :
           dg' = [dg EXCEPT ![c].tab = j, ![c].konfig = [k \in Jenis |-> diagram.isi[k].isi],
                            ![c].dasar = diagram.isi[j].isi]

Gambari(c, d) == [d EXCEPT !.konfig[d.tab] = <<c, d.ke + 1>>, !.ke = @ + 1]

\* An arrow is dragged or its path reset.
UbahDiagram(c) ==
    /\ Aktif(c) /\ Terhidrasi(dg[c]) /\ dg[c].ke < MaxGambar
    /\ dg' = [dg EXCEPT ![c] = EfekDiagram(Gambari(c, @), TRUE)]
    /\ UNCHANGED varsE

\* resetBaseline with the slice of the other tab.
PindahTab(c) ==
    /\ Terhidrasi(dg[c]) /\ pn[c].serah # "selesai"
    /\ \E j \in Jenis \ {dg[c].tab} :
           dg' = [dg EXCEPT ![c].tab = j, ![c].dasar = dg[c].konfig[j], ![c].tick = FALSE,
                            ![c].status = "tenang"]
    /\ UNCHANGED varsE

PermintaanDiagram(c) ==
    [dari |-> c, bagian |-> "DIAGRAM", ruas |-> {}, isi |-> Kosong,
     jenis |-> dg[c].tab, gambar |-> Slice(dg[c]), rev |-> wb[c].revD, gen |-> pn[c].gen,
     atas |-> Kosong, fase |-> "periksa", ditunggu |-> TRUE, lihat |-> Kosong]

\* performSave when the timer fires, whatever is under way.
TenggatDiagram(c) ==
    /\ dg[c].tick
    /\ IF Aktif(c) /\ Slice(dg[c]) # dg[c].dasar
       THEN /\ dg' = [dg EXCEPT ![c].tick = FALSE, ![c].status = "simpan"]
            /\ minta' = minta \cup {PermintaanDiagram(c)}
       ELSE /\ dg' = [dg EXCEPT ![c].tick = FALSE]
            /\ UNCHANGED minta
    /\ UNCHANGED <<varsServer, wb, segar, pn, segarKe, rusak>>

-----------------------------------------------------------------------------
(***************************************************************************)
(* PATCH /sop/diagram/:id.                                                 *)
(***************************************************************************)
\* Mutant: overrides are stored whatever langkah they name.
SaringTidak(r) == r.gambar

\* filterFlattenedDiagramRowsByLangkahIds: overrides of langkah that are gone
\* are dropped and the save succeeds.
Saring(r) == IF r.gen = prosedur.gen THEN r.gambar ELSE Kosong

\* upsertConfig.
TulisDiagram(r) ==
    /\ r.bagian = "DIAGRAM" /\ r.fase = "tulis"
    /\ IF Cocok(r, diagram.rev)
       THEN /\ diagram' = [rev |-> diagram.rev + 1,
                           isi |-> [diagram.isi EXCEPT ![r.jenis] =
                                        [isi |-> Saring(r), gen |-> r.gen]]]
            /\ Selesai(r)
       ELSE /\ Tolak(r)
            /\ UNCHANGED diagram
    /\ UNCHANGED <<terbuka, prosedur, wb, segar, pn, segarKe, rusak, dg>>

-----------------------------------------------------------------------------
(***************************************************************************)
(* What reaches the page of c.                                             *)
(***************************************************************************)
MilikDiagram(r) == r.bagian = "DIAGRAM" /\ r.ditunggu

\* then: the baseline becomes the slice sent, whatever tab is active by now.
TerimaDiagram(r) ==
    /\ MilikDiagram(r) /\ r.fase = "jawab"
    /\ LET c == r.dari
           d == [dg[c] EXCEPT !.dasar = r.gambar, !.status = "tenang"]
           baru == AktifDi(pn[c], r.lihat)
       IN  /\ dg' = [dg EXCEPT ![c] = IF baru = Aktif(c) THEN d ELSE EfekDiagram(d, baru)]
           /\ pn' = [pn EXCEPT ![c] = EfekBila(@, wb[c], r.lihat)]
           /\ wb' = [wb EXCEPT ![c] = r.lihat]
    /\ minta' = minta \ {r}
    /\ UNCHANGED <<varsServer, segar, segarKe, rusak>>

\* Mutant: the refusal leaves the indicator as it was.
GagalDiam(d) == d

\* catch.
GagalDiagram(d) == [d EXCEPT !.status = "galat"]

TolakDiagram(r) ==
    /\ MilikDiagram(r) /\ r.fase = "tolak"
    /\ dg' = [dg EXCEPT ![r.dari] = GagalDiagram(@)]
    /\ minta' = minta \ {r}
    /\ UNCHANGED <<varsServer, wb, segar, pn, segarKe, rusak>>

GangguanDiagram(r) ==
    /\ MilikDiagram(r)
    /\ Rusak
    /\ Terlantar(r)
    /\ dg' = [dg EXCEPT ![r.dari] = GagalDiagram(@)]
    /\ UNCHANGED <<varsServer, wb, segar, pn, segarKe>>

-----------------------------------------------------------------------------
LangkahLamanD(c) ==
    \/ (Buka(c) \/ Ubah(c) \/ Tenggat(c) \/ Siram(c) \/ Selesaikan(c) \/ BacaSegar(c))
           /\ UNCHANGED dg
    \/ (Segar(c) \/ Serahkan(c)) /\ IkutEfek(c)
    \/ Hidrasi(c) \/ UbahDiagram(c) \/ PindahTab(c) \/ TenggatDiagram(c)

LangkahPermintaanD(r) ==
    \/ (Periksa(r) \/ TulisProsedur(r) \/ BacaUlang(r) \/ TerimaTolak(r) \/ Gangguan(r))
           /\ UNCHANGED dg
    \/ Terima(r) /\ IkutEfek(r.dari)
    \/ TulisDiagram(r) \/ TerimaDiagram(r) \/ TolakDiagram(r) \/ GangguanDiagram(r)

NextD == (\E c \in Penyunting : LangkahLamanD(c)) \/ (\E r \in minta : LangkahPermintaanD(r))

\* As FairE, for each section of its own.
DitungguD(c, bagian) == {r \in Ditunggu(c) : r.bagian = bagian}
LayaniD(c, bagian) ==
    \E r \in DitungguD(c, bagian) :
        ((Periksa(r) \/ TulisProsedur(r) \/ BacaUlang(r)) /\ UNCHANGED dg) \/ TulisDiagram(r)
JawabD(c, bagian) ==
    \E r \in DitungguD(c, bagian) :
        \/ Terima(r) /\ IkutEfek(c)
        \/ TerimaTolak(r) /\ UNCHANGED dg
        \/ TerimaDiagram(r) \/ TolakDiagram(r)

FairD == \A c \in Penyunting :
    /\ WF_varsD(Tenggat(c) /\ UNCHANGED dg) /\ WF_varsD(TenggatDiagram(c))
    /\ WF_varsD(Serahkan(c) /\ IkutEfek(c))
    /\ \A bagian \in {"PROSEDUR", "DIAGRAM"} :
           WF_varsD(LayaniD(c, bagian)) /\ WF_varsD(JawabD(c, bagian))

SpecD == InitD /\ [][NextD]_varsD /\ FairD

-----------------------------------------------------------------------------
(***************************************************************************)
(* Properties.                                                             *)
(***************************************************************************)
\* A stored override names langkah of the procedure as it is, so a procedure
\* save of the steps may leave none behind and a late diagram save may bring none back.
OverrideSesuaiLangkah ==
    \A j \in Jenis : diagram.isi[j].isi # Kosong => diagram.isi[j].gen = prosedur.gen

\* Two saves of a slice under way at once never leave the older one stored, as
\* far as one editor is concerned.
DiagramTakMundur ==
    [][\A j \in Jenis :
           LET lama == diagram.isi[j].isi
               baru == diagram'.isi[j].isi
           IN  lama # Kosong /\ baru # Kosong /\ lama[1] = baru[1] => baru[2] >= lama[2]]_varsD

\* The indicator of a page that may save does not stay on waiting or saving.
DiagramTakMenggantung ==
    \A c \in Penyunting : (Aktif(c) /\ dg[c].status \in {"tunggu", "simpan"}) ~>
        (~Aktif(c) \/ dg[c].status \in {"tenang", "galat"})
=============================================================================
