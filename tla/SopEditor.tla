------------------------------ MODULE SopEditor ------------------------------
(***************************************************************************)
(* The editor of one version of an SOP: the rows of DetailSOP the server   *)
(* guards with prosedurRevision, the requests under way, and for each      *)
(* editor (a browser tab of a user) the autosave of the procedure.         *)
(*                                                                         *)
(* A content is <<c, k>>, the k-th edit of c.  A procedure has one for its *)
(* actors and one for its steps; a save sends and replaces those that were *)
(* edited.  Steps that are replaced get new ids, a new generation of them. *)
(* Of the overrides of a diagram those of arrows are modelled: no page can *)
(* create one of a label.                                                  *)
(* A workbench response is what the server held when it read the row.      *)
(***************************************************************************)
EXTENDS Naturals, FiniteSets

CONSTANTS
    Penyunting,     \* editors of the version
    Kosong,         \* null
    Jenis,          \* JenisDiagram, the kinds of diagram
    MaxUbah,        \* MaxUbah[c][u], bound: c edits section u in its first so many edits
    MaxSegar,       \* MaxSegar[c], bound: other workbench reads of c
    MaxRusak        \* bound: calls that fail or time out

\* The sections of SopProsedurSnapshot.
Ruas == {"pelaksana", "langkah"}

\* A content, a procedure, and a workbench response.
Isi == ((Penyunting \cup {Kosong}) \X Nat) \cup {Kosong}
Naskah == [Ruas -> Isi]
Tampak == [rev : Nat, revD : Nat, isi : Naskah, terbuka : BOOLEAN]

ASSUME KosongAssumption == Kosong \notin Penyunting \cup Tampak \cup Naskah
ASSUME JenisAssumption == Kosong \notin Jenis /\ Jenis # {}

VARIABLES
    terbuka,        \* DetailSOP.status is one of EDITABLE_STATUSES
    prosedur,       \* pelaksana and langkah and who wrote each, prosedurRevision, the
                    \* generation of the ids of the langkah
    diagram,        \* the arrow overrides of each kind, and diagramRevision
    minta,          \* PATCH requests under way
    wb,             \* wb[c]: the workbench in the query cache
    segar,          \* segar[c]: a workbench read on its way to c
    pn,             \* pn[c]: rows, useSopProsedurAutosave and handleComplete
    segarKe,        \* reads each editor asked for
    rusak           \* failures so far

varsServer == <<terbuka, prosedur, diagram>>
varsE == <<terbuka, prosedur, diagram, minta, wb, segar, pn, segarKe, rusak>>

NaskahAwal == [u \in Ruas |-> <<Kosong, 0>>]

\* No overrides; gen is the generation of the langkah overrides name.
TanpaOverride == [isi |-> Kosong, gen |-> 0]

\* The workbench, as getPenyusunWorkbench reads it.
Lihat == [rev |-> prosedur.rev, revD |-> diagram.rev, isi |-> prosedur.isi, terbuka |-> terbuka]

\* Before the page is open.
PenulisBaru == [muat |-> Kosong, gen |-> 0, draf |-> Kosong, dasar |-> Kosong, ke |-> 0,
                tick |-> FALSE, kirim |-> FALSE, status |-> "tenang", serah |-> "tidak"]

InitE ==
    /\ terbuka = TRUE
    /\ prosedur = [isi |-> NaskahAwal, rev |-> 0, gen |-> 0, oleh |-> [u \in Ruas |-> Kosong]]
    /\ diagram = [rev |-> 0, isi |-> [j \in Jenis |-> TanpaOverride]]
    /\ minta = {}
    /\ wb = [c \in Penyunting |-> Kosong]
    /\ segar = [c \in Penyunting |-> Kosong]
    /\ pn = [c \in Penyunting |-> PenulisBaru]
    /\ segarKe = [c \in Penyunting |-> 0]
    /\ rusak = 0

Rusak == rusak < MaxRusak /\ rusak' = rusak + 1

\* canEditDetail of the workbench w, while the page is open.
AktifDi(p, w) == p.muat # Kosong /\ w # Kosong /\ w.terbuka /\ p.serah # "selesai"

Aktif(c) == AktifDi(pn[c], wb[c])

\* buildPatch has something to send.
Kotor(p) == p.draf # p.dasar

-----------------------------------------------------------------------------
(***************************************************************************)
(* useSingleWriterAutosave.                                                *)
(***************************************************************************)
\* diffSopProsedurSnapshots.
Berubah(p) == {u \in Ruas : p.draf[u] # p.dasar[u]}

\* isi is the snapshot, of which the sections in ruas are sent.
PermintaanProsedur(c, p, w) ==
    [dari |-> c, bagian |-> "PROSEDUR", ruas |-> Berubah(p), isi |-> p.draf,
     jenis |-> Kosong, gambar |-> Kosong, rev |-> w.rev, gen |-> p.gen, atas |-> w.isi,
     fase |-> "periksa", ditunggu |-> TRUE, lihat |-> Kosong]

\* Mutant: an edit made during the write waits for no one.
KurasSekali(p, aktif, akhir) ==
    IF aktif /\ Kotor(p) /\ ~p.kirim
    THEN [p EXCEPT !.kirim = TRUE, !.status = "simpan"]
    ELSE [p EXCEPT !.kirim = FALSE, !.status = IF aktif THEN akhir ELSE "tenang",
                   !.serah = IF @ = "siram" THEN "kirim" ELSE @]

\* The head of the loop of drain: the next write, or the end of the run, at
\* which a flush that waits for it returns.
Kuras(p, aktif, akhir) ==
    IF aktif /\ Kotor(p)
    THEN [p EXCEPT !.kirim = TRUE, !.status = "simpan"]
    ELSE [p EXCEPT !.kirim = FALSE, !.status = IF aktif THEN akhir ELSE "tenang",
                   !.serah = IF @ = "siram" THEN "kirim" ELSE @]

Kirimkan(c, p, w) == IF p.kirim THEN {PermintaanProsedur(c, p, w)} ELSE {}

\* The effect on [snapshot, enabled].
Efek(p, aktif) ==
    CASE ~aktif -> [p EXCEPT !.tick = FALSE, !.status = IF @ = "simpan" THEN @ ELSE "tenang"]
      [] aktif /\ ~Kotor(p) ->
             [p EXCEPT !.tick = FALSE, !.status = IF @ = "tunggu" THEN "tenang" ELSE @]
      [] aktif /\ Kotor(p) /\ p.kirim -> [p EXCEPT !.status = "simpan"]
      [] OTHER -> [p EXCEPT !.tick = TRUE, !.status = "tunggu"]

\* The effect runs again only when the new workbench changed enabled.
EfekBila(p, lama, baru) ==
    IF AktifDi(p, lama) = AktifDi(p, baru) THEN p ELSE Efek(p, AktifDi(p, baru))

-----------------------------------------------------------------------------
(***************************************************************************)
(* The page of c.                                                          *)
(***************************************************************************)
\* The row of DetailSOP is read before its langkah.
Buka(c) ==
    /\ wb[c] = Kosong
    /\ wb' = [wb EXCEPT ![c] = Lihat]
    /\ UNCHANGED <<varsServer, minta, segar, pn, segarKe, rusak>>

Muat(c) ==
    /\ wb[c] # Kosong /\ pn[c].muat = Kosong
    /\ pn' = [pn EXCEPT ![c].muat = prosedur.isi, ![c].gen = prosedur.gen,
                        ![c].draf = prosedur.isi, ![c].dasar = prosedur.isi]
    /\ UNCHANGED <<varsServer, minta, wb, segar, segarKe, rusak>>

Sunting(p, u, isi) == [p EXCEPT !.draf[u] = isi, !.ke = @ + 1]

\* The user types, or brings a section back to what was saved.
Ubah(c) ==
    /\ Aktif(c)
    /\ \E u \in {v \in Ruas : pn[c].ke < MaxUbah[c][v]} :
       \E isi \in {<<c, pn[c].ke + 1>>, pn[c].dasar[u]} \ {pn[c].draf[u]} :
           pn' = [pn EXCEPT ![c] = Efek(Sunting(@, u, isi), TRUE)]
    /\ UNCHANGED <<varsServer, minta, wb, segar, segarKe, rusak>>

\* The debounce timer fires.
Tenggat(c) ==
    /\ pn[c].tick
    /\ LET p == Kuras([pn[c] EXCEPT !.tick = FALSE], Aktif(c), pn[c].status)
       IN  /\ pn' = [pn EXCEPT ![c] = p]
           /\ minta' = minta \cup Kirimkan(c, p, wb[c])
    /\ UNCHANGED <<varsServer, wb, segar, segarKe, rusak>>

\* flush without a waiter: "retry", the tab hidden, pagehide.
Siram(c) ==
    /\ Aktif(c) /\ Kotor(pn[c]) /\ ~pn[c].kirim
    /\ LET p == Kuras([pn[c] EXCEPT !.tick = FALSE], TRUE, pn[c].status)
       IN  /\ pn' = [pn EXCEPT ![c] = p]
           /\ minta' = minta \cup Kirimkan(c, p, wb[c])
    /\ UNCHANGED <<varsServer, wb, segar, segarKe, rusak>>

\* Mutant: flush returns at once when a write is under way.
GabungTanpaTunggu(p) ==
    IF p.kirim THEN [p EXCEPT !.serah = "kirim"] ELSE Kuras(p, TRUE, p.status)

\* The flush joins the run under way or starts one.
Gabung(p) == IF p.kirim THEN p ELSE Kuras(p, TRUE, p.status)

\* handleComplete up to the flush.
Selesaikan(c) ==
    /\ Aktif(c) /\ pn[c].serah = "tidak"
    /\ LET p == Gabung([pn[c] EXCEPT !.tick = FALSE, !.serah = "siram"])
       IN  /\ pn' = [pn EXCEPT ![c] = p]
           /\ minta' = minta \cup (IF pn[c].kirim THEN {} ELSE Kirimkan(c, p, wb[c]))
    /\ UNCHANGED <<varsServer, wb, segar, segarKe, rusak>>

\* handleComplete after the flush: the status call, and the page is left.
Serahkan(c) ==
    /\ pn[c].serah = "kirim"
    /\ \/ /\ terbuka
          /\ terbuka' = FALSE
          /\ pn' = [pn EXCEPT ![c].serah = "selesai", ![c].tick = FALSE]
          /\ segar' = [segar EXCEPT ![c] = Kosong]
          /\ UNCHANGED rusak
       \/ /\ ~terbuka
          /\ pn' = [pn EXCEPT ![c].serah = "tidak"]
          /\ UNCHANGED <<terbuka, segar, rusak>>
       \/ /\ Rusak
          /\ terbuka' \in {terbuka, FALSE}
          /\ pn' = [pn EXCEPT ![c].serah = "tidak"]
          /\ UNCHANGED segar
    /\ UNCHANGED <<prosedur, diagram, minta, wb, segarKe>>

-----------------------------------------------------------------------------
(***************************************************************************)
(* PATCH /sop/prosedur/:id.                                                *)
(***************************************************************************)
Maju(r, s) == minta' = (minta \ {r}) \cup {s}

\* The answer to a request nobody waits for is dropped.
Jika(r, s) == minta' = (minta \ {r}) \cup (IF r.ditunggu THEN {s} ELSE {})

Tolak(r) == Jika(r, [r EXCEPT !.fase = "tolak"])

\* assertDetailSopEditable and buildRepoInput, outside the transaction.  A procedure
\* is also refused for what it names: an actor or a step that is not there.
Periksa(r) ==
    /\ r.fase = "periksa"
    /\ \/ terbuka /\ Maju(r, [r EXCEPT !.fase = "tulis"])
       \/ (~terbuka \/ r.bagian = "PROSEDUR") /\ Tolak(r)
    /\ UNCHANGED <<varsServer, wb, segar, pn, segarKe, rusak>>

\* Mutant: the claim does not compare revisions.
CocokSelalu(r, rev) == TRUE

\* The claim of the transaction.
Cocok(r, rev) == r.rev = rev

Selesai(r) == Jika(r, [r EXCEPT !.fase = "baca"])

\* updateProsedurTransaction: each section is replaced when it was sent.  The old
\* langkah take the overrides of their arrows along (replaceLangkahInTx).
TulisProsedur(r) ==
    /\ r.bagian = "PROSEDUR" /\ r.fase = "tulis"
    /\ IF Cocok(r, prosedur.rev)
       THEN /\ prosedur' = [isi |-> [u \in Ruas |-> IF u \in r.ruas THEN r.isi[u] ELSE prosedur.isi[u]],
                            rev |-> prosedur.rev + 1,
                            gen |-> IF "langkah" \in r.ruas THEN prosedur.gen + 1 ELSE prosedur.gen,
                            oleh |-> [u \in Ruas |-> IF u \in r.ruas THEN r.dari ELSE prosedur.oleh[u]]]
            /\ diagram' = IF "langkah" \in r.ruas
                          THEN [diagram EXCEPT !.isi = [j \in Jenis |-> TanpaOverride]] ELSE diagram
            /\ Selesai(r)
       ELSE /\ Tolak(r)
            /\ UNCHANGED <<prosedur, diagram>>
    /\ UNCHANGED <<terbuka, wb, segar, pn, segarKe, rusak>>

BacaUlang(r) ==
    /\ r.fase = "baca"
    /\ Maju(r, [r EXCEPT !.fase = "jawab", !.lihat = Lihat])
    /\ UNCHANGED <<varsServer, wb, segar, pn, segarKe, rusak>>

-----------------------------------------------------------------------------
(***************************************************************************)
(* What reaches the page of c.                                             *)
(***************************************************************************)
MilikProsedur(r) == r.bagian = "PROSEDUR" /\ r.ditunggu

\* Mutant: the baseline moves to the rows as they are by now.
TersimpanTerbaru(p, r) == [p EXCEPT !.dasar = p.draf]

\* The baseline moves to what was sent, not to what the rows are by now.
Tersimpan(p, r) == [p EXCEPT !.dasar = r.isi]

\* onSuccess caches the workbench, then drain goes on with the enabled of the
\* last render, and the render that follows runs the effect.
Terima(r) ==
    /\ MilikProsedur(r) /\ r.fase = "jawab"
    /\ LET c == r.dari
           p == Kuras(Tersimpan(pn[c], r), Aktif(c), "tenang")
       IN  /\ pn' = [pn EXCEPT ![c] = EfekBila(p, wb[c], r.lihat)]
           /\ minta' = (minta \ {r}) \cup Kirimkan(c, p, r.lihat)
           /\ wb' = [wb EXCEPT ![c] = r.lihat]
    /\ UNCHANGED <<varsServer, segar, segarKe, rusak>>

\* Mutant: the failure is not shown.
GagalTersembunyi(p) == [p EXCEPT !.kirim = FALSE, !.serah = IF @ = "siram" THEN "kirim" ELSE @]

\* Mutant: the failed run never settles the flush that joined it.
GagalTanpaLepas(p) == [p EXCEPT !.kirim = FALSE, !.status = "galat"]

\* The catch of drain: the run ends, with no retry of its own.
Gagal(p) == [p EXCEPT !.kirim = FALSE, !.status = "galat",
                      !.serah = IF @ = "siram" THEN "kirim" ELSE @]

TerimaTolak(r) ==
    /\ MilikProsedur(r) /\ r.fase = "tolak"
    /\ pn' = [pn EXCEPT ![r.dari] = Gagal(@)]
    /\ minta' = minta \ {r}
    /\ UNCHANGED <<varsServer, wb, segar, segarKe, rusak>>

\* A request given up on may still reach the server; an answer is lost.
Terlantar(r) == minta' = (minta \ {r}) \cup
    (IF r.fase \in {"periksa", "tulis"} THEN {[r EXCEPT !.ditunggu = FALSE]} ELSE {})

\* The client gave up (timeout) or lost the connection.
Gangguan(r) ==
    /\ MilikProsedur(r)
    /\ Rusak
    /\ Terlantar(r)
    /\ pn' = [pn EXCEPT ![r.dari] = Gagal(@)]
    /\ UNCHANGED <<varsServer, wb, segar, segarKe>>

\* Another read of the workbench: the answer to a header PATCH, or a refetch.
BacaSegar(c) ==
    /\ wb[c] # Kosong /\ pn[c].serah # "selesai"
    /\ segar[c] = Kosong /\ segarKe[c] < MaxSegar[c]
    /\ segar' = [segar EXCEPT ![c] = Lihat]
    /\ segarKe' = [segarKe EXCEPT ![c] = @ + 1]
    /\ UNCHANGED <<varsServer, minta, wb, pn, rusak>>

\* revisionRef follows the cache, the rows of the page do not.
Segar(c) ==
    /\ segar[c] # Kosong
    /\ wb' = [wb EXCEPT ![c] = segar[c]]
    /\ segar' = [segar EXCEPT ![c] = Kosong]
    /\ pn' = [pn EXCEPT ![c] = EfekBila(@, wb[c], segar[c])]
    /\ UNCHANGED <<varsServer, minta, segarKe, rusak>>

-----------------------------------------------------------------------------
LangkahLaman(c) ==
    \/ Buka(c) \/ Muat(c) \/ Ubah(c) \/ Tenggat(c) \/ Siram(c)
    \/ Selesaikan(c) \/ Serahkan(c) \/ BacaSegar(c) \/ Segar(c)

LangkahPermintaan(r) ==
    \/ Periksa(r) \/ TulisProsedur(r) \/ BacaUlang(r)
    \/ Terima(r) \/ TerimaTolak(r) \/ Gangguan(r)

NextE == (\E c \in Penyunting : LangkahLaman(c)) \/ (\E r \in minta : LangkahPermintaan(r))

\* Timers fire; a request somebody waits for is served and answered.
Ditunggu(c) == {r \in minta : r.dari = c /\ r.ditunggu}
Layani(c) == \E r \in Ditunggu(c) : Periksa(r) \/ TulisProsedur(r) \/ BacaUlang(r)
Jawab(c) == \E r \in Ditunggu(c) : Terima(r) \/ TerimaTolak(r)

FairE == \A c \in Penyunting : WF_varsE(Tenggat(c)) /\ WF_varsE(Layani(c)) /\ WF_varsE(Jawab(c))
                                /\ WF_varsE(Serahkan(c))

SpecE == InitE /\ [][NextE]_varsE /\ FairE

-----------------------------------------------------------------------------
(***************************************************************************)
(* Properties.                                                             *)
(***************************************************************************)
\* SingleWriterAutosaveStatus, with "saved" taken for "idle".
StatusSimpan == {"tenang", "tunggu", "simpan", "galat"}

NaskahMungkin == Naskah \cup {Kosong}

Penulis == [muat : NaskahMungkin, gen : Nat, draf : NaskahMungkin, dasar : NaskahMungkin,
            ke : Nat, tick : BOOLEAN, kirim : BOOLEAN, status : StatusSimpan,
            serah : {"tidak", "siram", "kirim", "selesai"}]

FaseMinta == {"periksa", "tulis", "baca", "jawab", "tolak"}

Permintaan == [dari : Penyunting, bagian : {"PROSEDUR", "DIAGRAM"},
               ruas : SUBSET Ruas, isi : NaskahMungkin,
               jenis : Jenis \cup {Kosong}, gambar : Isi,
               rev : Nat, gen : Nat, atas : NaskahMungkin,
               fase : FaseMinta, ditunggu : BOOLEAN, lihat : Tampak \cup {Kosong}]

\* Types of the editor's state; an answer carries a workbench.
TypeOKE ==
    /\ terbuka \in BOOLEAN
    /\ prosedur \in [isi : Naskah, rev : Nat, gen : Nat, oleh : [Ruas -> Penyunting \cup {Kosong}]]
    /\ diagram \in [rev : Nat, isi : [Jenis -> [isi : Isi, gen : Nat]]]
    /\ minta \subseteq Permintaan
    /\ \A r \in minta : r.fase = "jawab" => r.lihat # Kosong
    /\ wb \in [Penyunting -> Tampak \cup {Kosong}]
    /\ segar \in [Penyunting -> Tampak \cup {Kosong}]
    /\ pn \in [Penyunting -> Penulis]

\* An edit is never forgotten: while the page may save, rows that differ from
\* the baseline have a timer, a write under way or a visible error.
TiadaUbahanTerlantar ==
    \A c \in Penyunting : Aktif(c) /\ Kotor(pn[c]) =>
        pn[c].tick \/ pn[c].kirim \/ pn[c].status = "galat"

\* At most one save of an editor is waited for, and drain knows of it.
SatuTulisan ==
    \A c \in Penyunting :
        LET milik == {r \in minta : r.dari = c /\ MilikProsedur(r)}
        IN  Cardinality(milik) = (IF pn[c].kirim THEN 1 ELSE 0)

\* Absent failures, when the page says all is saved the server holds what it shows
\* of each section its user was the last to write.
TersimpanDiServer ==
    \A c \in Penyunting, u \in Ruas :
        /\ rusak = 0 /\ pn[c].muat # Kosong /\ ~pn[c].kirim /\ ~Kotor(pn[c])
        /\ prosedur.oleh[u] = c
        => prosedur.isi[u] = pn[c].draf[u]

\* A write meets only the procedure its browser had last been sent, also
\* when it arrives long after the client gave up on it.
TimpaYangTerkirim ==
    [][\A r \in minta : TulisProsedur(r) /\ prosedur' # prosedur => prosedur.isi = r.atas]_varsE

\* handleComplete goes on after its flush only with everything saved, or with
\* the failure on the screen.
SerahJujur ==
    [][\A c \in Penyunting : pn[c].serah # "kirim" /\ pn'[c].serah = "kirim" =>
           /\ ~pn'[c].kirim
           /\ ~Kotor(pn'[c]) \/ pn'[c].status = "galat" \/ ~Aktif(c)]_varsE

\* An edit is saved in the end, or its failure shows, or the page may not save.
TakMenggantung ==
    \A c \in Penyunting : (Aktif(c) /\ Kotor(pn[c])) ~>
        (~Kotor(pn[c]) \/ pn[c].status = "galat" \/ ~Aktif(c))

\* A flush ends, also when the write it joined fails.
SiramBerakhir == \A c \in Penyunting : (pn[c].serah = "siram") ~> (pn[c].serah # "siram")

\* docs/concurrency-testing-sop.md:13: a stale writer gets an explicit
\* conflict, never a silent overwrite of rows of another it has not loaded.
TanpaTimpaDiam ==
    [][\A r \in minta : TulisProsedur(r) /\ prosedur' # prosedur => \A u \in r.ruas :
           prosedur.oleh[u] \in {r.dari, Kosong} \/ prosedur.isi[u] = pn[r.dari].muat[u]]_varsE
=============================================================================
