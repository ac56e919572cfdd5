------------------------------- MODULE SopFlow -------------------------------
(***************************************************************************)
(* The whole workflow: requests of the catalogue, the evaluation and the   *)
(* signing run concurrently on the shared tables.  Which requests arrive   *)
(* is up to the users.                                                     *)
(***************************************************************************)
EXTENDS SopCatalog, Evaluasi, Tte

Init == DataInit /\ tx = [p \in Proses |-> Idle]

Next ==
    \/ \E s \in Sop : BuatSop(s)
    \/ \E p \in Proses : \/ CatalogNext(p)
                         \/ EvaluasiNext(p)
                         \/ TteNext(p)
                         \/ Batal(p)

Spec == Init /\ [][Next]_vars

-----------------------------------------------------------------------------
(***************************************************************************)
(* What holds however the requests interleave.                             *)
(***************************************************************************)

\* An SOP never has two versions in force (gantikanVersiBerlakuLain).
SatuBerlakuPerSop ==
    \A d, e \in Detail :
        status[d] = "BERLAKU" /\ status[e] = "BERLAKU" /\ d[1] = e[1] => d = e

\* No step of a submission is reached before the signatures it stands for exist.
UrutanTandaTangan ==
    \A pg \in Pengajuan :
        /\ pengajuan[pg].st = "DITANDATANGANI_PJ_EVALUATOR" => "PJ_EVALUATOR" \in ttdBa[pg]
        /\ pengajuan[pg].st \in {"DITANDATANGANI_PJ_PENYUSUN", "SELESAI"} =>
              ttdBa[pg] = {"PJ_EVALUATOR", "PJ_PENYUSUN"}

(***************************************************************************)
(* A version in force was submitted, its Berita Acara carries both         *)
(* signatures, its own document the third, and its official PDF is the     *)
(* published one.                                                          *)
(***************************************************************************)
PengesahanLengkap ==
    \A d \in Detail : status[d] = "BERLAKU" =>
        /\ d \in ttdSop
        /\ pdf[d] = "PUBLISHED"
        /\ \E pg \in Pengajuan : /\ d \in Items(pg)
                                 /\ ttdBa[pg] = {"PJ_EVALUATOR", "PJ_PENYUSUN"}

\* The archive the public sees: the workflow implements ArsipSop.
Keadaan == [d \in Detail |-> IF status[d] = "BERLAKU" THEN "BERLAKU"
                             ELSE IF d \in ttdSop THEN "ARSIP"
                             ELSE "BELUM"]
Arsip == INSTANCE ArsipSop WITH
            Dokumen <- Detail, Induk <- [d \in Detail |-> d[1]], arsip <- Keadaan
ArsipTerjaga == Arsip!ArsipSpec

-----------------------------------------------------------------------------
(***************************************************************************)
(* The inductive invariant behind the properties above: what a begun       *)
(* operation has read stays true as far as its commit relies on it.        *)
(***************************************************************************)

\* A submission that does not exist has neither items nor signatures.
PengajuanKosong ==
    \A pg \in Pengajuan :
        pengajuan[pg] = TanpaPengajuan => Items(pg) = {} /\ ttdBa[pg] = {}

TxSah(r) ==
    /\ r.op = "UBAH_STATUS" => r.ke # "BERLAKU"
    /\ r.op \in {"ISI_NILAI", "TINDAK_LANJUT"} => r.d \in Items(r.pg)
    /\ r.op = "KIRIM_ULANG_TULIS" => \A pg \in r.tutup : r.d \in Items(pg)
    /\ r.op \in {"SELESAI", "BA_EVALUATOR", "BA_PJ_PENYUSUN"} =>
          pengajuan[r.pg] # TanpaPengajuan
    /\ r.op = "BA_PJ_PENYUSUN" => "PJ_EVALUATOR" \in ttdBa[r.pg]

TransaksiSah == \A p \in Proses : TxSah(tx[p])

IInv == /\ TypeOK
        /\ PengajuanKosong
        /\ TransaksiSah
        /\ UrutanTandaTangan
        /\ PengesahanLengkap
        /\ SatuBerlakuPerSop

-----------------------------------------------------------------------------
(***************************************************************************)
(* What holds when requests come one at a time and, of concurrent ones, as *)
(* long as a race named in SopBalapan has not happened.                    *)
(***************************************************************************)

\* An OPD has at most one submission in progress (the lock on the OPD row).
SatuPengajuanAktifPerOpd ==
    \A pg, lain \in Pengajuan :
        Aktif(pg) /\ Aktif(lain) /\ pengajuan[pg].opd = pengajuan[lain].opd => pg = lain

\* A submission never falls back to an earlier step of its way to the archive.
Langkah(st) == CASE st = "TIDAK_ADA" -> 0
                 [] st = "SEDANG_DIEVALUASI" -> 1
                 [] st = "SELESAI_DIEVALUASI" -> 2
                 [] st = "DITANDATANGANI_PJ_EVALUATOR" -> 3
                 [] st = "DITANDATANGANI_PJ_PENYUSUN" -> 4
                 [] st \in {"SELESAI", "DITOLAK"} -> 5

MajuSelangkah ==
    \A pg \in Pengajuan :
        /\ Langkah(pengajuan[pg].st) <= Langkah(pengajuan'[pg].st)
        /\ pengajuan[pg].st = "DITOLAK" => pengajuan'[pg] = pengajuan[pg]

PengajuanMaju == [][MajuSelangkah]_vars

\* An evaluation is finished only with every score SESUAI, and stays so.
SelesaiBerartiSesuai ==
    \A pg \in Pengajuan :
        pengajuan[pg].st \in PengajuanAktif \ {"SEDANG_DIEVALUASI"} =>
            \A d \in Items(pg) : nilai[pg][d].hasil = "SESUAI"

\* A rejected submission keeps the verdict DITOLAK on each of its versions.
TolakBerartiDitolak ==
    \A pg \in Pengajuan :
        pengajuan[pg].st = "DITOLAK" => \A d \in Items(pg) : nilai[pg][d].hasil = "DITOLAK"

\* A terminal version stays terminal; only a version in force may end otherwise.
TerminalSelangkah ==
    \A d \in Detail : status[d] \in Terminal /\ status'[d] # status[d] =>
        /\ status[d] = "BERLAKU"
        /\ status'[d] \in {"DIGANTIKAN", "DICABUT"}

TerminalTetap == [][TerminalSelangkah]_vars

\* At most one version of an SOP is on its way to a terminal status.
SatuRevisiBerjalan ==
    \A d, e \in Detail :
        /\ Ada(d) /\ status[d] \notin Terminal
        /\ Ada(e) /\ status[e] \notin Terminal
        /\ d[1] = e[1]
        => d = e

\* The public PDF tells the fate of its version.
PdfSelarasStatus ==
    \A d \in Detail : /\ pdf[d] = "PUBLISHED" <=> status[d] = "BERLAKU"
                      /\ pdf[d] = "SUPERSEDED" <=> status[d] = "DIGANTIKAN"
                      /\ pdf[d] = "REVOKED" <=> status[d] = "DICABUT"

(***************************************************************************)
(* A submission past its evaluation can always be signed on: the versions  *)
(* wait in the status that the next signature compares them with.          *)
(***************************************************************************)
PengajuanDapatDitandatangani ==
    \A pg \in Pengajuan : \A d \in Items(pg) :
        /\ pengajuan[pg].st \in {"SELESAI_DIEVALUASI", "DITANDATANGANI_PJ_EVALUATOR"} =>
              status[d] = "MENUNGGU_TTD_PJ_EVALUATOR"
        /\ pengajuan[pg].st = "DITANDATANGANI_PJ_PENYUSUN" =>
              status[d] = "DIVERIFIKASI_PJ_EVALUATOR_ORGANISASI" /\ d \notin ttdSop

-----------------------------------------------------------------------------
(***************************************************************************)
(* What the documents say and the code does not keep.                      *)
(***************************************************************************)

\* A score is only ever written over the version of it that the evaluator saw.
TidakTertimpa ==
    \A p \in Proses :
        tx[p].op = "ISI_NILAI" /\ tx'[p] = Idle /\ nilai' # nilai =>
            nilai[tx[p].pg][tx[p].d].versi = tx[p].dibaca.versi

NilaiTidakTertimpa == [][TidakTertimpa]_vars
=============================================================================
