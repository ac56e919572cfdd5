---------------------------- MODULE SopUrut_proofs ----------------------------
(***************************************************************************)
(* The properties of the workflow that hold one request at a time.  Each   *)
(* is proved for any number of concurrent requests as long as the one kind *)
(* of race that breaks it has not happened: as a property of SpecBalapan,  *)
(* and of Spec with the race excluded (KirimUlangSegar, CabutSendiri,      *)
(* NilaiTidakMenyela, NilaiTidakTertimpa).  Requests that come one at a    *)
(* time (Bergiliran) are shown to be free of all of them.                  *)
(***************************************************************************)
EXTENDS SopFlow_proofs, SopBalapan

-----------------------------------------------------------------------------
\* The races left out, as conditions on a behaviour.
KirimUlangSegar == [][TiadaKirimUlangBasi]_vars
CabutSendiri == [][TiadaCabutMenyela]_vars
NilaiTidakMenyela == [][TiadaNilaiMenyela]_vars

-----------------------------------------------------------------------------
(***************************************************************************)
(* The inductive invariant of submissions and versions.                    *)
(***************************************************************************)

\* The versions submitted belong to the OPD of the submission.
ItemSeunit ==
    \A pg \in Pengajuan : \A d \in Items(pg) : pengajuan[pg].opd = OpdSop[d[1]]

\* What was finished or rejected is not in evaluation any more.
ItemSelepas ==
    \A pg \in Pengajuan : pengajuan[pg].st \notin {"TIDAK_ADA", "SEDANG_DIEVALUASI"} =>
        \A d \in Items(pg) : status[d] \in Selepas

\* Only an evaluation takes a version past evaluation.
SelepasDinilai ==
    \A d \in Detail : status[d] \in Selepas => \E pg \in Pengajuan : d \in Items(pg)

\* A version that the Kepala OPD signed was in force.
TtdAkhir == \A d \in ttdSop : status[d] \in {"BERLAKU", "DIGANTIKAN", "DICABUT"}

DataUrut == /\ ItemSeunit
            /\ ItemSelepas
            /\ SelepasDinilai
            /\ TtdAkhir
            /\ SatuPengajuanAktifPerOpd
            /\ PengajuanDapatDitandatangani

\* What a begun operation read of submissions, as far as it stays true.
TxKini(r) ==
    /\ r.op = "BUAT_PENGAJUAN" =>
          /\ \A pg \in Pengajuan : Aktif(pg) => pengajuan[pg].opd # r.opd
          /\ \A d \in r.items : OpdSop[d[1]] = r.opd
    /\ r.op = "UBAH_STATUS" => <<r.dari, r.ke>> \in TabelTransisi
    /\ r.op = "SELESAI" => Items(r.pg) # {}
    /\ r.op = "BA_EVALUATOR" =>
          "PJ_EVALUATOR" \in ttdBa[r.pg] \/ pengajuan[r.pg].st = "SELESAI_DIEVALUASI"
    /\ r.op = "BA_PJ_PENYUSUN" =>
          \/ "PJ_PENYUSUN" \in ttdBa[r.pg]
          \/ pengajuan[r.pg].st = "DITANDATANGANI_PJ_EVALUATOR"

Kini == \A p \in Proses : TxKini(tx[p])

\* The lock on the row of the OPD: two requests never open a submission of one OPD.
KunciOpd ==
    \A p, q \in Proses :
        /\ tx[p].op = "BUAT_PENGAJUAN"
        /\ tx[q].op = "BUAT_PENGAJUAN"
        /\ tx[p].opd = tx[q].opd
        => p = q

KInv == IInv /\ DataUrut /\ Kini /\ KunciOpd

-----------------------------------------------------------------------------
(***************************************************************************)
(* Every step is of one of four kinds.                                     *)
(***************************************************************************)

\* No submission moves; of the versions past evaluation one is at most revoked.
DiLuarPengajuan ==
    /\ UNCHANGED <<pengajuan, ttdSop>>
    /\ \A pg \in Pengajuan : Items(pg)' = Items(pg)
    /\ \A d \in Detail :
          \/ status'[d] = status[d]
          \/ status[d] \notin Selepas /\ status'[d] \notin Selepas
          \/ status[d] = "BERLAKU" /\ status'[d] = "DICABUT"

LainTetap(pg) ==
    \A k \in Pengajuan \ {pg} : pengajuan'[k] = pengajuan[k] /\ Items(k)' = Items(k)

\* pg is opened for an OPD without a submission in progress, by who holds its lock.
Dibuka(pg) ==
    /\ \E p \in Proses : /\ tx[p].op = "BUAT_PENGAJUAN"
                         /\ tx[p].opd = pengajuan'[pg].opd
                         /\ tx'[p] = Idle
    /\ pengajuan[pg] = TanpaPengajuan
    /\ pengajuan'[pg].st = "SEDANG_DIEVALUASI"
    /\ \A k \in Pengajuan : Aktif(k) => pengajuan[k].opd # pengajuan'[pg].opd
    /\ \A d \in Items(pg)' : /\ OpdSop[d[1]] = pengajuan'[pg].opd
                             /\ status[d] = "MENUNGGU_PENGAJUAN_EVALUASI"
    /\ \A d \in Detail :
          status'[d] = IF d \in Items(pg)' THEN "SEDANG_DIEVALUASI" ELSE status[d]
    /\ LainTetap(pg)
    /\ UNCHANGED ttdSop

\* pg goes from dari to ke and takes its versions from one of sebelum to sesudah.
Berpindah(pg, dari, ke, sebelum, sesudah) ==
    /\ pengajuan[pg].st = dari
    /\ pengajuan'[pg].st = ke
    /\ pengajuan'[pg].opd = pengajuan[pg].opd
    /\ \A d \in Items(pg) : status[d] \in sebelum
    /\ \A d \in Detail : status'[d] = IF d \in Items(pg) THEN sesudah ELSE status[d]
    /\ Items(pg)' = Items(pg)
    /\ LainTetap(pg)
    /\ UNCHANGED ttdSop

Dimajukan(pg) ==
    \/ Berpindah(pg, "SEDANG_DIEVALUASI", "SELESAI_DIEVALUASI",
                 DapatDinilai, "MENUNGGU_TTD_PJ_EVALUATOR")
    \/ Berpindah(pg, "SEDANG_DIEVALUASI", "DITOLAK",
                 DapatDinilai, "DITOLAK_EVALUATOR")
    \/ Berpindah(pg, "SELESAI_DIEVALUASI", "DITANDATANGANI_PJ_EVALUATOR",
                 {"MENUNGGU_TTD_PJ_EVALUATOR"}, "MENUNGGU_TTD_PJ_EVALUATOR")
    \/ Berpindah(pg, "DITANDATANGANI_PJ_EVALUATOR", "DITANDATANGANI_PJ_PENYUSUN",
                 {"MENUNGGU_TTD_PJ_EVALUATOR"}, "DIVERIFIKASI_PJ_EVALUATOR_ORGANISASI")

\* The versions of pg come into force, or are replaced within the batch.
Disahkan(pg) ==
    /\ pengajuan[pg].st = "DITANDATANGANI_PJ_PENYUSUN"
    /\ pengajuan'[pg].st = "SELESAI"
    /\ pengajuan'[pg].opd = pengajuan[pg].opd
    /\ \A d \in Items(pg) : /\ status[d] = "DIVERIFIKASI_PJ_EVALUATOR_ORGANISASI"
                            /\ status'[d] \in {"BERLAKU", "DIGANTIKAN"}
    /\ \A d \in Detail \ Items(pg) :
          \/ status'[d] = status[d]
          \/ status[d] = "BERLAKU" /\ status'[d] = "DIGANTIKAN"
    /\ Items(pg)' = Items(pg)
    /\ LainTetap(pg)
    /\ ttdSop' = ttdSop \cup Items(pg)

JenisLangkah ==
    \/ DiLuarPengajuan
    \/ \E pg \in Pengajuan : Dibuka(pg) \/ Dimajukan(pg) \/ Disahkan(pg)

-----------------------------------------------------------------------------
(***************************************************************************)
(* Which step is of which kind.                                            *)
(***************************************************************************)
LEMMA LangkahBaca ==
    ASSUME UNCHANGED <<status, pengajuan, nilai, ttdSop>>
    PROVE  DiLuarPengajuan
  BY DEF DiLuarPengajuan, Items

LEMMA LangkahBuatSop ==
    ASSUME KInv, NEW s \in Sop, BuatSop(s)
    PROVE  DiLuarPengajuan
  <1>1. status[<<s, 1>>] = "TIDAK_ADA" /\ status' = [status EXCEPT ![<<s, 1>>] = "DRAFT"]
    BY MaxBarisAssumption DEF BuatSop, BarisSop
  <1>2. \A d \in Detail : \/ status'[d] = status[d]
                          \/ status[d] \notin Selepas /\ status'[d] \notin Selepas
    BY <1>1 DEF KInv, IInv, TypeOK, DataOK, Selepas, Terminal
  <1>3. UNCHANGED <<pengajuan, nilai, ttdSop>>  BY DEF BuatSop
  <1> QED  BY <1>2, <1>3 DEF DiLuarPengajuan, Items

LEMMA LangkahKatalog ==
    ASSUME KInv, NEW p \in Proses, Klon(p) \/ UbahStatus(p) \/ Hapus(p)
    PROVE  DiLuarPengajuan
  <1>0. DataOK /\ tx[p] \in Tx /\ TxKini(tx[p])
    BY DEF KInv, IInv, TypeOK, Kini
  <1>1. UNCHANGED <<pengajuan, nilai, ttdSop>>
    BY DEF Klon, UbahStatus, Hapus
  <1>2. \A d \in Detail :
           \/ status'[d] = status[d]
           \/ status[d] \notin Selepas /\ status'[d] \notin Selepas
           \/ status[d] = "BERLAKU" /\ status'[d] = "DICABUT"
    <2>1. CASE Klon(p)
      <3>1. PICK k \in 1..MaxBaris :
               /\ status[<<tx[p].sop, k>>] = "TIDAK_ADA"
               /\ status' = [status EXCEPT ![<<tx[p].sop, k>>] = "DRAFT"]
        BY <2>1 DEF Klon
      <3> QED  BY <1>0, <3>1 DEF DataOK, Selepas, Terminal
    <2>2. CASE UbahStatus(p)
      <3>1. /\ status[tx[p].d] = tx[p].dari
            /\ status' = [status EXCEPT ![tx[p].d] = tx[p].ke]
        BY <2>2 DEF UbahStatus
      <3>2. <<tx[p].dari, tx[p].ke>> \in TabelTransisi
        BY <1>0, <2>2 DEF UbahStatus, TxKini
      <3>3. \/ tx[p].dari \notin Selepas /\ tx[p].ke \notin Selepas
            \/ tx[p].dari = "BERLAKU" /\ tx[p].ke = "DICABUT"
        BY <3>2 DEF TabelTransisi, Selepas, Terminal
      <3> QED  BY <1>0, <3>1, <3>3 DEF DataOK
    <2>3. CASE Hapus(p)
      <3>1. tx[p].d \in Detail  BY <1>0, <2>3, BentukTx DEF Hapus, TxHapus
      <3>2. status' = [status EXCEPT ![tx[p].d] = "DIHAPUS"]  BY <2>3 DEF Hapus
      <3>3. status[tx[p].d] \notin Selepas
        BY <2>3, <3>1 DEF KInv, DataUrut, SelepasDinilai, Hapus, BelumDinilai
      <3> QED  BY <1>0, <3>2, <3>3 DEF DataOK, Selepas, Terminal
    <2> QED  BY <2>1, <2>2, <2>3
  <1> QED  BY <1>1, <1>2 DEF DiLuarPengajuan, Items

LEMMA LangkahNilai ==
    ASSUME KInv, NEW p \in Proses, KirimUlang(p) \/ IsiNilai(p) \/ TindakLanjut(p),
           TiadaKirimUlangBasi
    PROVE  DiLuarPengajuan
  <1>1. UNCHANGED <<pengajuan, ttdSop>>
    BY DEF KirimUlang, IsiNilai, TindakLanjut
  <1>2. \A b \in BarisNilai : b # BukanAnggota
    BY DEF BarisNilai, BukanAnggota, HasilEvaluasi
  <1>3. \A pg \in Pengajuan, d \in Detail :
           \/ nilai'[pg][d] = nilai[pg][d]
           \/ d \in Items(pg) /\ nilai'[pg][d] \in BarisNilai
    BY NilaiBerubah DEF KInv
  <1>4. \A pg \in Pengajuan : Items(pg)' = Items(pg)
    BY <1>2, <1>3 DEF Items
  <1>5. \A d \in Detail :
           \/ status'[d] = status[d]
           \/ /\ status[d] \in {"DIAJUKAN_EVALUASI", "SEDANG_DIEVALUASI"}
              /\ status'[d] = "REVISI_DARI_EVALUATOR"
           \/ KirimUlang(p) /\ d = tx[p].d /\ status'[d] = "SEDANG_DIEVALUASI"
    BY NilaiBerubah DEF KInv
  <1>6. \A d \in Detail : \/ status'[d] = status[d]
                          \/ status[d] \notin Selepas /\ status'[d] \notin Selepas
    BY <1>5 DEF TiadaKirimUlangBasi, Selepas, Terminal
  <1> QED  BY <1>1, <1>4, <1>6 DEF DiLuarPengajuan

LEMMA LangkahBuatPengajuan ==
    ASSUME KInv, NEW p \in Proses, BuatPengajuan(p)
    PROVE  \E pg \in Pengajuan : Dibuka(pg)
  <1>0. DataOK /\ tx[p] \in Tx /\ TxKini(tx[p])
    BY DEF KInv, IInv, TypeOK, Kini
  <1>1. tx[p].items \subseteq Detail
    BY <1>0, BentukTx DEF BuatPengajuan, TxBuatPengajuan
  <1> DEFINE items == tx[p].items
             baris == [d \in Detail |-> IF d \in items THEN NilaiBaru ELSE BukanAnggota]
             baru == [st |-> "SEDANG_DIEVALUASI", opd |-> tx[p].opd, ver |-> 0]
  <1>2. PICK pg \in Pengajuan : /\ pengajuan[pg] = TanpaPengajuan
                               /\ pengajuan' = [pengajuan EXCEPT ![pg] = baru]
                               /\ nilai' = [nilai EXCEPT ![pg] = baris]
    BY DEF BuatPengajuan
  <1>3. /\ \A d \in items : status[d] = "MENUNGGU_PENGAJUAN_EVALUASI"
        /\ status' = [d \in Detail |-> IF d \in items THEN "SEDANG_DIEVALUASI" ELSE status[d]]
        /\ UNCHANGED ttdSop
    BY DEF BuatPengajuan
  <1>4. NilaiBaru # BukanAnggota  BY DEF NilaiBaru, BukanAnggota
  <1>5. /\ pengajuan'[pg].st = "SEDANG_DIEVALUASI"
        /\ pengajuan'[pg].opd = tx[p].opd
        /\ \A k \in Pengajuan \ {pg} : pengajuan'[k] = pengajuan[k]
    BY <1>0, <1>2 DEF DataOK
  <1>6. nilai'[pg] = baris /\ \A k \in Pengajuan \ {pg} : nilai'[k] = nilai[k]
    BY <1>0, <1>2 DEF DataOK
  <1>7. Items(pg)' = items
    BY <1>1, <1>4, <1>6 DEF Items
  <1>8. LainTetap(pg)
    BY <1>5, <1>6 DEF LainTetap, Items
  <1>9. /\ \A k \in Pengajuan : Aktif(k) => pengajuan[k].opd # tx[p].opd
        /\ \A d \in items : OpdSop[d[1]] = tx[p].opd
    BY <1>0 DEF BuatPengajuan, TxKini
  <1>10. Dibuka(pg)
    <2>1. tx[p].op = "BUAT_PENGAJUAN" /\ tx'[p] = Idle
      BY DEF BuatPengajuan, Rampung, KInv, IInv, TypeOK
    <2> HIDE DEF items
    <2> QED  BY <1>2, <1>3, <1>5, <1>7, <1>8, <1>9, <2>1 DEF Dibuka
  <1> QED  BY <1>10

\* The two ends of an evaluation are reached from an evaluation that goes on.
LEMMA LangkahSelesai ==
    ASSUME KInv, NEW p \in Proses, Selesai(p)
    PROVE  \E pg \in Pengajuan : Dimajukan(pg)
  <1>0. DataOK /\ tx[p] \in Tx /\ TxSah(tx[p]) /\ TxKini(tx[p])
    BY DEF KInv, IInv, TypeOK, Kini, TransaksiSah
  <1>1. PICK pg \in Pengajuan : pg = tx[p].pg
    BY <1>0, BentukTx DEF Selesai, TxPengajuan
  <1>2. /\ pengajuan[pg] # TanpaPengajuan
        /\ Items(pg) # {}
    BY <1>0, <1>1 DEF Selesai, TxSah, TxKini
  <1>3. \A d \in Items(pg) : status[d] \in DapatDinilai
    BY <1>1 DEF Selesai, SemuaDapatDinilai
  <1>4. pengajuan[pg].st = "SEDANG_DIEVALUASI"
    <2>1. PICK d \in Items(pg) : status[d] \notin Selepas
      BY <1>2, <1>3 DEF DapatDinilai, Selepas, Terminal
    <2>2. pengajuan[pg].st \in {"TIDAK_ADA", "SEDANG_DIEVALUASI"}
      BY <2>1 DEF KInv, DataUrut, ItemSelepas
    <2>3. pengajuan[pg].st # "TIDAK_ADA"
      BY <1>0, <1>2 DEF DataOK, StatusPengajuan
    <2> QED  BY <2>2, <2>3
  <1>5. /\ pengajuan' = [pengajuan EXCEPT ![pg] = Beralih(@, "SELESAI_DIEVALUASI")]
        /\ status' = [d \in Detail |->
               IF d \in Items(pg) THEN "MENUNGGU_TTD_PJ_EVALUATOR" ELSE status[d]]
        /\ UNCHANGED <<nilai, ttdSop>>
    BY <1>1 DEF Selesai
  <1>6. /\ pengajuan'[pg] = Beralih(pengajuan[pg], "SELESAI_DIEVALUASI")
        /\ \A k \in Pengajuan \ {pg} : pengajuan'[k] = pengajuan[k]
    BY <1>0, <1>5 DEF DataOK
  <1>7. \A k \in Pengajuan : Items(k)' = Items(k)
    BY <1>5 DEF Items
  <1>8. Dimajukan(pg)
    BY <1>3, <1>4, <1>5, <1>6, <1>7 DEF Dimajukan, Berpindah, LainTetap, Beralih
  <1> QED  BY <1>8

\* A rejection rewrites the verdict of every version of the submission.
LEMMA TolakNilai ==
    ASSUME IInv, NEW p \in Proses, NEW pg \in Pengajuan, pg = tx[p].pg, Tolak(p)
    PROVE  /\ \A d \in Items(pg) :
                 /\ nilai'[pg][d].hasil = "DITOLAK"
                 /\ nilai'[pg][d].versi = nilai[pg][d].versi + 1
           /\ \A k \in Pengajuan \ {pg} : nilai'[k] = nilai[k]
           /\ \A k \in Pengajuan : Items(k)' = Items(k)
  <1>0. DataOK  BY DEF IInv, TypeOK
  <1> DEFINE tertolak(d) ==
                [hasil |-> "DITOLAK", tl |-> "NULL", versi |-> nilai[pg][d].versi + 1]
             baris == [d \in Detail |-> IF d \in Items(pg) THEN tertolak(d) ELSE nilai[pg][d]]
  <1>1. nilai' = [nilai EXCEPT ![pg] = baris]  BY DEF Tolak
  <1>2. nilai'[pg] = baris /\ \A k \in Pengajuan \ {pg} : nilai'[k] = nilai[k]
    BY <1>0, <1>1 DEF DataOK
  <1>3. \A d \in Items(pg) : tertolak(d) # BukanAnggota
    BY DEF BukanAnggota
  <1>4. \A d \in Detail : baris[d] # BukanAnggota <=> d \in Items(pg)
    BY <1>3 DEF Items
  <1>5. \A d \in Items(pg) : /\ baris[d].hasil = "DITOLAK"
                             /\ baris[d].versi = nilai[pg][d].versi + 1
    BY DEF Items
  <1> HIDE DEF baris
  <1>6. \A k \in Pengajuan : Items(k)' = Items(k)
    BY <1>2, <1>4 DEF Items
  <1> QED  BY <1>2, <1>5, <1>6

LEMMA LangkahTolak ==
    ASSUME KInv, NEW p \in Proses, Tolak(p)
    PROVE  \E pg \in Pengajuan : Dimajukan(pg)
  <1>0. DataOK /\ tx[p] \in Tx  BY DEF KInv, IInv, TypeOK
  <1>1. PICK pg \in Pengajuan : pg = tx[p].pg
    BY <1>0, BentukTx DEF Tolak, TxTolak
  <1>2. /\ pengajuan[pg].st = "SEDANG_DIEVALUASI"
        /\ \A d \in Items(pg) : status[d] \in DapatDinilai
        /\ pengajuan' = [pengajuan EXCEPT ![pg] = Beralih(@, "DITOLAK")]
        /\ status' = [d \in Detail |->
               IF d \in Items(pg) THEN "DITOLAK_EVALUATOR" ELSE status[d]]
        /\ UNCHANGED ttdSop
    BY <1>1 DEF Tolak, SemuaDapatDinilai
  <1>3. /\ pengajuan'[pg] = Beralih(pengajuan[pg], "DITOLAK")
        /\ \A k \in Pengajuan \ {pg} : pengajuan'[k] = pengajuan[k]
    BY <1>0, <1>2 DEF DataOK
  <1>4. \A k \in Pengajuan : Items(k)' = Items(k)
    BY <1>1, TolakNilai DEF KInv
  <1>5. Dimajukan(pg)
    BY <1>2, <1>3, <1>4 DEF Dimajukan, Berpindah, LainTetap, Beralih
  <1> QED  BY <1>5

\* A signature of the Berita Acara follows the one before it.
LEMMA LangkahBeritaAcara ==
    ASSUME KInv, NEW p \in Proses, BaEvaluator(p) \/ BaPjPenyusun(p)
    PROVE  \E pg \in Pengajuan : Dimajukan(pg)
  <1>0. DataOK /\ tx[p] \in Tx /\ TxKini(tx[p])
    BY DEF KInv, IInv, TypeOK, Kini
  <1>1. PICK pg \in Pengajuan : pg = tx[p].pg
    BY <1>0, BentukTx DEF BaEvaluator, BaPjPenyusun, TxPengajuan
  <1>2. \A k \in Pengajuan : Items(k)' = Items(k)
    BY DEF BaEvaluator, BaPjPenyusun, Items
  <1>3. CASE BaEvaluator(p)
    <2>1. /\ "PJ_EVALUATOR" \notin ttdBa[pg]
          /\ pengajuan' = [pengajuan EXCEPT ![pg] = Beralih(@, "DITANDATANGANI_PJ_EVALUATOR")]
          /\ UNCHANGED <<status, ttdSop>>
      BY <1>1, <1>3 DEF BaEvaluator
    <2>2. pengajuan[pg].st = "SELESAI_DIEVALUASI"
      BY <1>0, <1>1, <1>3, <2>1 DEF BaEvaluator, TxKini
    <2>3. \A d \in Items(pg) : status[d] = "MENUNGGU_TTD_PJ_EVALUATOR"
      BY <2>2 DEF KInv, DataUrut, PengajuanDapatDitandatangani
    <2>4. /\ pengajuan'[pg] = Beralih(pengajuan[pg], "DITANDATANGANI_PJ_EVALUATOR")
          /\ \A k \in Pengajuan \ {pg} : pengajuan'[k] = pengajuan[k]
      BY <1>0, <2>1 DEF DataOK
    <2>5. Dimajukan(pg)
      BY <1>2, <2>1, <2>2, <2>3, <2>4 DEF Dimajukan, Berpindah, LainTetap, Beralih
    <2> QED  BY <2>5
  <1>4. CASE BaPjPenyusun(p)
    <2>1. /\ "PJ_PENYUSUN" \notin ttdBa[pg]
          /\ \A d \in Items(pg) : status[d] = "MENUNGGU_TTD_PJ_EVALUATOR"
          /\ status' = [d \in Detail |->
                 IF d \in Items(pg) THEN "DIVERIFIKASI_PJ_EVALUATOR_ORGANISASI" ELSE status[d]]
          /\ pengajuan' = [pengajuan EXCEPT ![pg] = Beralih(@, "DITANDATANGANI_PJ_PENYUSUN")]
          /\ UNCHANGED ttdSop
      BY <1>1, <1>4 DEF BaPjPenyusun
    <2>2. pengajuan[pg].st = "DITANDATANGANI_PJ_EVALUATOR"
      BY <1>0, <1>1, <1>4, <2>1 DEF BaPjPenyusun, TxKini
    <2>3. /\ pengajuan'[pg] = Beralih(pengajuan[pg], "DITANDATANGANI_PJ_PENYUSUN")
          /\ \A k \in Pengajuan \ {pg} : pengajuan'[k] = pengajuan[k]
      BY <1>0, <2>1 DEF DataOK
    <2>4. Dimajukan(pg)
      BY <1>2, <2>1, <2>2, <2>3 DEF Dimajukan, Berpindah, LainTetap, Beralih
    <2> QED  BY <2>4
  <1> QED  BY <1>3, <1>4

LEMMA LangkahFinalisasi ==
    ASSUME KInv, NEW p \in Proses, Finalisasi(p)
    PROVE  \E pg \in Pengajuan : Disahkan(pg)
  <1>0. DataOK /\ tx[p] \in Tx  BY DEF KInv, IInv, TypeOK
  <1>1. PICK pg \in Pengajuan : pg = tx[p].pg
    BY <1>0, BentukTx DEF Finalisasi, TxFinalisasi
  <1>2. PICK urutan \in SUBSET Items(pg) :
            status' = [d \in Detail |->
                  IF d \in urutan THEN "BERLAKU"
                  ELSE IF Digantikan(d, Items(pg), urutan, StatusBerlaku) THEN "DIGANTIKAN"
                  ELSE status[d]]
    BY <1>1 DEF Finalisasi
  <1>3. /\ pengajuan[pg].st = "DITANDATANGANI_PJ_PENYUSUN"
        /\ pengajuan' = [pengajuan EXCEPT ![pg] = Beralih(@, "SELESAI")]
        /\ ttdSop' = ttdSop \cup Items(pg)
        /\ UNCHANGED nilai
    BY <1>1 DEF Finalisasi
  <1>4. \A k \in Pengajuan : Items(k)' = Items(k)
    BY <1>3 DEF Items
  <1>5. /\ pengajuan'[pg] = Beralih(pengajuan[pg], "SELESAI")
        /\ \A k \in Pengajuan \ {pg} : pengajuan'[k] = pengajuan[k]
    BY <1>0, <1>3 DEF DataOK
  <1>6. \A d \in Items(pg) : status[d] = "DIVERIFIKASI_PJ_EVALUATOR_ORGANISASI"
    BY <1>3 DEF KInv, DataUrut, PengajuanDapatDitandatangani
  <1>7. \A d \in Items(pg) : status'[d] \in {"BERLAKU", "DIGANTIKAN"}
    BY <1>2 DEF Digantikan, Items
  <1>8. \A d \in Detail \ Items(pg) :
           \/ status'[d] = status[d]
           \/ status[d] = "BERLAKU" /\ status'[d] = "DIGANTIKAN"
    BY <1>2 DEF Digantikan, StatusBerlaku
  <1>9. Disahkan(pg)
    BY <1>3, <1>4, <1>5, <1>6, <1>7, <1>8 DEF Disahkan, LainTetap, Beralih
  <1> QED  BY <1>9

LEMMA LangkahNext ==
    ASSUME KInv, [Next]_vars, [TiadaKirimUlangBasi]_vars
    PROVE  JenisLangkah
  <1>1. CASE UNCHANGED vars
    BY <1>1, LangkahBaca DEF vars, JenisLangkah
  <1>2. ASSUME NEW s \in Sop, BuatSop(s) PROVE JenisLangkah
    BY <1>2, LangkahBuatSop DEF JenisLangkah
  <1>3. ASSUME NEW p \in Proses, CatalogNext(p), TiadaKirimUlangBasi PROVE JenisLangkah
    <2>1. CASE Klon(p) \/ UbahStatus(p) \/ Hapus(p)
      BY <2>1, LangkahKatalog DEF JenisLangkah
    <2>2. CASE KirimUlang(p)
      BY <1>3, <2>2, LangkahNilai DEF JenisLangkah
    <2>3. CASE BacaUmpanBalik(p) \/ \E d \in Detail :
                  \/ MulaiKlon(p, d)
                  \/ \E ke \in StatusSOP : MulaiTransisi(p, d, ke)
                  \/ MulaiCabut(p, d)
                  \/ MulaiKirimUlang(p, d)
                  \/ MulaiHapus(p, d)
      <3>1. UNCHANGED data
        BY <2>3, Zenon DEF BacaUmpanBalik, MulaiKlon, MulaiTransisi, MulaiCabut,
                           MulaiKirimUlang, MulaiHapus, Mulai
      <3> QED  BY <3>1, LangkahBaca DEF data, JenisLangkah
    <2> QED  BY <1>3, <2>1, <2>2, <2>3, Zenon DEF CatalogNext
  <1>4. ASSUME NEW p \in Proses, EvaluasiNext(p), TiadaKirimUlangBasi PROVE JenisLangkah
    <2>1. CASE BuatPengajuan(p)
      BY <2>1, LangkahBuatPengajuan DEF JenisLangkah
    <2>2. CASE IsiNilai(p) \/ TindakLanjut(p)
      BY <1>4, <2>2, LangkahNilai DEF JenisLangkah
    <2>3. CASE Selesai(p)
      BY <2>3, LangkahSelesai DEF JenisLangkah
    <2>4. CASE Tolak(p)
      BY <2>4, LangkahTolak DEF JenisLangkah
    <2>5. CASE \/ \E o \in Opd, items \in SUBSET Detail : MulaiBuatPengajuan(p, o, items)
               \/ \E pg \in Pengajuan :
                     \/ \E d \in Detail :
                           \/ \E hasil \in {"SESUAI", "PERLU_PERBAIKAN"} :
                                 MulaiIsiNilai(p, pg, d, hasil)
                           \/ MulaiTindakLanjut(p, pg, d)
                     \/ MulaiSelesai(p, pg)
                     \/ MulaiTolak(p, pg)
      <3>1. UNCHANGED data
        BY <2>5, Zenon DEF MulaiBuatPengajuan, MulaiIsiNilai, MulaiTindakLanjut, MulaiSelesai,
                           MulaiTolak, Mulai
      <3> QED  BY <3>1, LangkahBaca DEF data, JenisLangkah
    <2> QED  BY <1>4, <2>1, <2>2, <2>3, <2>4, <2>5, Zenon DEF EvaluasiNext
  <1>5. ASSUME NEW p \in Proses, TteNext(p) PROVE JenisLangkah
    <2>1. CASE BaEvaluator(p) \/ BaPjPenyusun(p)
      BY <2>1, LangkahBeritaAcara DEF JenisLangkah
    <2>2. CASE Finalisasi(p)
      BY <2>2, LangkahFinalisasi DEF JenisLangkah
    <2>3. CASE MulaiFinalisasi(p) \/ \E pg \in Pengajuan : \/ MulaiBaEvaluator(p, pg)
                                                          \/ MulaiBaPjPenyusun(p, pg)
                                                          \/ SiapkanPengesahan(p, pg)
      <3>1. UNCHANGED <<status, pengajuan, nilai, ttdSop>>
        BY <2>3 DEF MulaiFinalisasi, MulaiBaEvaluator, MulaiBaPjPenyusun, SiapkanPengesahan,
                    Mulai, data
      <3> QED  BY <3>1, LangkahBaca DEF JenisLangkah
    <2> QED  BY <1>5, <2>1, <2>2, <2>3, Zenon DEF TteNext
  <1>6. ASSUME NEW p \in Proses, Batal(p) PROVE JenisLangkah
    <2>1. UNCHANGED data  BY <1>6 DEF Batal
    <2> QED  BY <2>1, LangkahBaca DEF data, JenisLangkah
  <1>7. CASE Next /\ TiadaKirimUlangBasi
    BY <1>2, <1>3, <1>4, <1>5, <1>6, <1>7, Zenon DEF Next
  <1> QED  BY <1>1, <1>7

-----------------------------------------------------------------------------
(***************************************************************************)
(* Every kind of step keeps submissions and versions in agreement.         *)
(***************************************************************************)

\* Two submissions in progress have no version in common.
LEMMA ItemMilikSatu ==
    ASSUME DataUrut, NEW k \in Pengajuan, NEW l \in Pengajuan, Aktif(k), Aktif(l),
           NEW d \in Items(k), d \in Items(l)
    PROVE  k = l
  BY DEF DataUrut, ItemSeunit, SatuPengajuanAktifPerOpd

LEMMA DiLuarUrut ==
    ASSUME IInv, DataUrut, DiLuarPengajuan
    PROVE  DataUrut'
  <1>1. ItemSeunit'
    BY DEF DataUrut, DiLuarPengajuan, ItemSeunit
  <1>2. \A d \in Detail : status[d] \in Selepas => status'[d] \in Selepas
    BY DEF DiLuarPengajuan, Selepas, Terminal
  <1>3. \A d \in Detail : status'[d] \in Selepas => status[d] \in Selepas
    BY DEF DiLuarPengajuan, Selepas, Terminal
  <1>4. \A pg \in Pengajuan : Items(pg) \subseteq Detail  BY DEF Items
  <1>5. ItemSelepas'
    BY <1>2, <1>4 DEF DataUrut, DiLuarPengajuan, ItemSelepas
  <1>6. SelepasDinilai'
    BY <1>3 DEF DataUrut, DiLuarPengajuan, SelepasDinilai
  <1>7. TtdAkhir'
    BY DEF IInv, TypeOK, DataOK, DataUrut, DiLuarPengajuan, TtdAkhir, Selepas, Terminal
  <1>8. SatuPengajuanAktifPerOpd'
    BY DEF DataUrut, DiLuarPengajuan, SatuPengajuanAktifPerOpd, Aktif
  <1>9. PengajuanDapatDitandatangani'
    <2>1. \A d \in Detail : status[d] \in {"MENUNGGU_TTD_PJ_EVALUATOR",
                                           "DIVERIFIKASI_PJ_EVALUATOR_ORGANISASI"} =>
              status'[d] = status[d]
      BY DEF DiLuarPengajuan, Selepas
    <2> QED  BY <1>4, <2>1 DEF DataUrut, DiLuarPengajuan, PengajuanDapatDitandatangani
  <1> QED  BY <1>1, <1>5, <1>6, <1>7, <1>8, <1>9 DEF DataUrut

LEMMA DibukaUrut ==
    ASSUME IInv, DataUrut, NEW pg \in Pengajuan, Dibuka(pg)
    PROVE  DataUrut'
  <1>1. \A k \in Pengajuan \ {pg} : pengajuan'[k] = pengajuan[k] /\ Items(k)' = Items(k)
    BY DEF Dibuka, LainTetap
  <1>2. Items(pg) = {}  BY DEF IInv, Dibuka, PengajuanKosong
  <1>3. \A d \in Detail : status[d] \in Selepas =>
            d \notin Items(pg)' /\ status'[d] = status[d]
    BY DEF Dibuka, Selepas, Terminal
  <1>4. \A d \in Detail : status'[d] \in Selepas => status'[d] = status[d]
    BY DEF Dibuka, Selepas, Terminal
  <1>5. \A k \in Pengajuan : Items(k) \subseteq Detail  BY DEF Items
  <1>6. ItemSeunit'
    BY <1>1 DEF DataUrut, Dibuka, ItemSeunit
  <1>7. ItemSelepas'
    BY <1>1, <1>3, <1>5 DEF DataUrut, Dibuka, ItemSelepas
  <1>8. SelepasDinilai'
    BY <1>1, <1>2, <1>4 DEF DataUrut, SelepasDinilai
  <1>9. TtdAkhir'
    <2>1. ttdSop' = ttdSop /\ ttdSop \subseteq Detail
      BY DEF Dibuka, IInv, TypeOK, DataOK
    <2> QED  BY <1>3, <2>1 DEF DataUrut, TtdAkhir, Selepas, Terminal
  <1>10. SatuPengajuanAktifPerOpd'
    BY <1>1 DEF DataUrut, Dibuka, SatuPengajuanAktifPerOpd, Aktif
  <1>11. PengajuanDapatDitandatangani'
    BY <1>1, <1>3, <1>5 DEF DataUrut, Dibuka, PengajuanDapatDitandatangani, Selepas
  <1> QED  BY <1>6, <1>7, <1>8, <1>9, <1>10, <1>11 DEF DataUrut

LEMMA PindahUrut ==
    ASSUME IInv, DataUrut, NEW pg \in Pengajuan, Dimajukan(pg)
    PROVE  DataUrut'
  <1>1. PICK dari \in PengajuanAktif, ke \in StatusPengajuan,
             sebelum \in {DapatDinilai, {"MENUNGGU_TTD_PJ_EVALUATOR"}},
             sesudah \in {"MENUNGGU_TTD_PJ_EVALUATOR", "DITOLAK_EVALUATOR",
                          "DIVERIFIKASI_PJ_EVALUATOR_ORGANISASI"} :
            /\ Berpindah(pg, dari, ke, sebelum, sesudah)
            /\ ke \in {"SELESAI_DIEVALUASI", "DITANDATANGANI_PJ_EVALUATOR"} =>
                  sesudah = "MENUNGGU_TTD_PJ_EVALUATOR"
            /\ ke = "DITANDATANGANI_PJ_PENYUSUN" =>
                  sesudah = "DIVERIFIKASI_PJ_EVALUATOR_ORGANISASI"
    BY DEF Dimajukan, PengajuanAktif, StatusPengajuan
  <1>2. /\ \A k \in Pengajuan : pengajuan'[k].opd = pengajuan[k].opd
        /\ \A k \in Pengajuan : Items(k)' = Items(k) /\ Items(k) \subseteq Detail
        /\ \A k \in Pengajuan \ {pg} : pengajuan'[k] = pengajuan[k]
        /\ \A d \in Detail : status'[d] = IF d \in Items(pg) THEN sesudah ELSE status[d]
        /\ ttdSop' = ttdSop
    BY <1>1 DEF Berpindah, LainTetap, Items
  <1>3. Aktif(pg) /\ pengajuan'[pg].st = ke
    BY <1>1 DEF Berpindah, Aktif
  <1>4. \A d \in Items(pg) : status[d] \notin {"BERLAKU", "DIGANTIKAN", "DICABUT"}
    BY <1>1 DEF Berpindah, DapatDinilai
  <1>5. sesudah \in Selepas  BY DEF Selepas, Terminal
  <1>6. ItemSeunit'
    BY <1>2 DEF DataUrut, ItemSeunit
  <1>7. ItemSelepas'
    BY <1>2, <1>5 DEF DataUrut, ItemSelepas
  <1>8. SelepasDinilai'
    BY <1>2 DEF DataUrut, SelepasDinilai
  <1>9. TtdAkhir' /\ \A d \in Items(pg) : d \notin ttdSop
    BY <1>2, <1>4 DEF IInv, TypeOK, DataOK, DataUrut, TtdAkhir
  <1>10. SatuPengajuanAktifPerOpd'
    BY <1>2, <1>3 DEF DataUrut, SatuPengajuanAktifPerOpd, Aktif
  <1>11. PengajuanDapatDitandatangani'
    <2>1. ASSUME NEW k \in Pengajuan, NEW d \in Items(k)
          PROVE  /\ pengajuan'[k].st \in {"SELESAI_DIEVALUASI", "DITANDATANGANI_PJ_EVALUATOR"} =>
                        status'[d] = "MENUNGGU_TTD_PJ_EVALUATOR"
                 /\ pengajuan'[k].st = "DITANDATANGANI_PJ_PENYUSUN" =>
                        /\ status'[d] = "DIVERIFIKASI_PJ_EVALUATOR_ORGANISASI"
                        /\ d \notin ttdSop'
      <3>0. d \in Detail  BY DEF Items
      <3>1. CASE k = pg
        BY <1>1, <1>2, <1>3, <1>9, <3>0, <3>1
      <3>2. CASE k # pg /\ Aktif(k)
        <4>1. d \notin Items(pg)  BY <1>3, <3>2, ItemMilikSatu
        <4> QED  BY <1>2, <3>0, <3>2, <4>1 DEF DataUrut, PengajuanDapatDitandatangani
      <3>3. CASE k # pg /\ ~Aktif(k)
        BY <1>2, <3>3 DEF Aktif, PengajuanAktif
      <3> QED  BY <3>1, <3>2, <3>3
    <2> QED  BY <1>2, <2>1 DEF PengajuanDapatDitandatangani
  <1> QED  BY <1>6, <1>7, <1>8, <1>9, <1>10, <1>11 DEF DataUrut

LEMMA DisahkanUrut ==
    ASSUME IInv, DataUrut, NEW pg \in Pengajuan, Disahkan(pg)
    PROVE  DataUrut'
  <1>1. /\ \A k \in Pengajuan : pengajuan'[k].opd = pengajuan[k].opd
        /\ \A k \in Pengajuan : Items(k)' = Items(k) /\ Items(k) \subseteq Detail
        /\ \A k \in Pengajuan \ {pg} : pengajuan'[k] = pengajuan[k]
        /\ ttdSop' = ttdSop \cup Items(pg)
        /\ Aktif(pg) /\ pengajuan'[pg].st = "SELESAI"
    BY DEF Disahkan, LainTetap, Items, Aktif, PengajuanAktif
  <1>2. \A d \in Items(pg) : status'[d] \in {"BERLAKU", "DIGANTIKAN"}
    BY DEF Disahkan
  <1>3. \A d \in Detail \ Items(pg) :
           \/ status'[d] = status[d]
           \/ status[d] = "BERLAKU" /\ status'[d] = "DIGANTIKAN"
    BY DEF Disahkan
  <1>4. ItemSeunit'
    BY <1>1 DEF DataUrut, ItemSeunit
  <1>5. ItemSelepas'
    <2>1. \A d \in Detail : status[d] \in Selepas => status'[d] \in Selepas
      BY <1>2, <1>3 DEF Selepas, Terminal
    <2>2. \A d \in Items(pg) : status'[d] \in Selepas
      BY <1>2 DEF Selepas, Terminal
    <2> QED  BY <1>1, <2>1, <2>2 DEF DataUrut, ItemSelepas
  <1>6. SelepasDinilai'
    <2>1. \A d \in Detail \ Items(pg) : status'[d] \in Selepas => status[d] \in Selepas
      BY <1>3 DEF Selepas, Terminal
    <2> QED  BY <1>1, <2>1 DEF DataUrut, SelepasDinilai
  <1>7. TtdAkhir'
    BY <1>1, <1>2, <1>3 DEF IInv, TypeOK, DataOK, DataUrut, TtdAkhir
  <1>8. SatuPengajuanAktifPerOpd'
    BY <1>1 DEF DataUrut, SatuPengajuanAktifPerOpd, Aktif
  <1>9. PengajuanDapatDitandatangani'
    <2>1. ASSUME NEW k \in Pengajuan, NEW d \in Items(k), k # pg,
                 pengajuan[k].st \in {"SELESAI_DIEVALUASI", "DITANDATANGANI_PJ_EVALUATOR",
                                      "DITANDATANGANI_PJ_PENYUSUN"}
          PROVE  d \notin Items(pg) /\ status'[d] = status[d]
      <3>1. d \notin Items(pg)
        BY <1>1, <2>1, ItemMilikSatu DEF Aktif, PengajuanAktif
      <3>2. status[d] # "BERLAKU" /\ d \in Detail
        BY <1>1, <2>1 DEF DataUrut, PengajuanDapatDitandatangani
      <3> QED  BY <1>3, <3>1, <3>2
    <2> QED  BY <1>1, <2>1 DEF DataUrut, PengajuanDapatDitandatangani
  <1> QED  BY <1>4, <1>5, <1>6, <1>7, <1>8, <1>9 DEF DataUrut

LEMMA JenisUrut ==
    ASSUME KInv, JenisLangkah
    PROVE  DataUrut'
  BY DiLuarUrut, DibukaUrut, PindahUrut, DisahkanUrut DEF KInv, JenisLangkah

-----------------------------------------------------------------------------
(***************************************************************************)
(* What begun operations read stays true as far as TxKini says.            *)
(***************************************************************************)

\* Signatures of the Berita Acara only accumulate.
LEMMA TtdBertambah ==
    ASSUME TypeOK, [Next]_vars
    PROVE  \A pg \in Pengajuan : ttdBa[pg] \subseteq ttdBa'[pg]
  <1>1. ASSUME NEW p \in Proses, BaEvaluator(p) \/ BaPjPenyusun(p)
        PROVE  \A pg \in Pengajuan : ttdBa[pg] \subseteq ttdBa'[pg]
    <2>1. PICK peran : ttdBa' = [ttdBa EXCEPT ![tx[p].pg] = @ \cup peran]
      BY <1>1, Zenon DEF BaEvaluator, BaPjPenyusun
    <2> QED  BY <2>1 DEF TypeOK, DataOK
  <1>2. CASE UNCHANGED ttdBa
    BY <1>2
  <1>3. ASSUME NEW p \in Proses, CatalogNext(p) PROVE UNCHANGED ttdBa
    BY <1>3 DEF CatalogNext, MulaiKlon, MulaiTransisi, MulaiCabut, MulaiKirimUlang, MulaiHapus,
                Klon, UbahStatus, BacaUmpanBalik, KirimUlang, Hapus, Mulai, data
  <1>4. ASSUME NEW p \in Proses, EvaluasiNext(p) PROVE UNCHANGED ttdBa
    BY <1>4, Zenon DEF EvaluasiNext, MulaiBuatPengajuan, MulaiIsiNilai, MulaiTindakLanjut,
                MulaiSelesai, MulaiTolak, BuatPengajuan, IsiNilai, TindakLanjut, Selesai, Tolak,
                Mulai, data
  <1>5. ASSUME NEW p \in Proses, TteNext(p)
        PROVE  UNCHANGED ttdBa \/ BaEvaluator(p) \/ BaPjPenyusun(p)
    BY <1>5 DEF TteNext, MulaiBaEvaluator, MulaiBaPjPenyusun, SiapkanPengesahan,
                MulaiFinalisasi, Finalisasi, Mulai, data
  <1>6. ASSUME NEW p \in Proses, Batal(p) PROVE UNCHANGED ttdBa
    BY <1>6 DEF Batal, data
  <1>7. ASSUME NEW s \in Sop, BuatSop(s) PROVE UNCHANGED ttdBa
    BY <1>7 DEF BuatSop
  <1>8. CASE UNCHANGED vars
    BY <1>8 DEF vars
  <1> QED  BY <1>1, <1>2, <1>3, <1>4, <1>5, <1>6, <1>7, <1>8, Zenon DEF Next

\* A submission is opened by one request; any other for the same OPD would wait.
LEMMA KiniTetap ==
    ASSUME IInv, IInv', JenisLangkah, NEW r \in Tx, TxKini(r),
           \A pg \in Pengajuan : ttdBa[pg] \subseteq ttdBa'[pg],
           r.op = "BUAT_PENGAJUAN" =>
               \A pg \in Pengajuan : Dibuka(pg) => pengajuan'[pg].opd # r.opd
    PROVE  TxKini(r)'
  <1>1. ASSUME NEW pg \in Pengajuan
        PROVE  /\ Items(pg) \subseteq Items(pg)'
               /\ Aktif(pg)' => \/ Aktif(pg) /\ pengajuan'[pg].opd = pengajuan[pg].opd
                                \/ Dibuka(pg)
               /\ pengajuan[pg].st = "SELESAI_DIEVALUASI" =>
                     pengajuan'[pg].st \in {"SELESAI_DIEVALUASI", "DITANDATANGANI_PJ_EVALUATOR"}
               /\ pengajuan[pg].st = "DITANDATANGANI_PJ_EVALUATOR" =>
                     pengajuan'[pg].st \in {"DITANDATANGANI_PJ_EVALUATOR",
                                            "DITANDATANGANI_PJ_PENYUSUN"}
    <2>1. CASE DiLuarPengajuan
      BY <2>1 DEF DiLuarPengajuan, Aktif
    <2>2. ASSUME NEW k \in Pengajuan, k # pg, Dibuka(k) \/ Dimajukan(k) \/ Disahkan(k)
          PROVE  pengajuan'[pg] = pengajuan[pg] /\ Items(pg)' = Items(pg)
      BY <2>2 DEF Dibuka, Dimajukan, Berpindah, Disahkan, LainTetap
    <2>3. CASE Dibuka(pg)
      <3>1. Items(pg) = {} /\ pengajuan[pg].st = "TIDAK_ADA"
        BY <2>3 DEF Dibuka, IInv, PengajuanKosong, TanpaPengajuan
      <3> QED  BY <2>3, <3>1
    <2>4. CASE Dimajukan(pg) \/ Disahkan(pg)
      BY <2>4 DEF Dimajukan, Berpindah, Disahkan, Aktif, PengajuanAktif
    <2> QED  BY <2>1, <2>2, <2>3, <2>4 DEF JenisLangkah, Aktif
  <1>2. r.op = "BUAT_PENGAJUAN" =>
            \A pg \in Pengajuan : Aktif(pg)' => pengajuan'[pg].opd # r.opd
    BY <1>1 DEF TxKini
  <1>3. r.op \in {"SELESAI", "BA_EVALUATOR", "BA_PJ_PENYUSUN"} => r.pg \in Pengajuan
    BY BentukTx DEF TxPengajuan
  <1>4. \A pg \in Pengajuan :
           /\ pengajuan'[pg].st = "DITANDATANGANI_PJ_EVALUATOR" => "PJ_EVALUATOR" \in ttdBa'[pg]
           /\ pengajuan'[pg].st = "DITANDATANGANI_PJ_PENYUSUN" => "PJ_PENYUSUN" \in ttdBa'[pg]
    BY DEF IInv, UrutanTandaTangan
  <1>5. r.op = "SELESAI" => Items(r.pg)' # {}
    BY <1>1, <1>3 DEF TxKini
  <1>6. r.op = "BA_EVALUATOR" =>
            "PJ_EVALUATOR" \in ttdBa'[r.pg] \/ pengajuan'[r.pg].st = "SELESAI_DIEVALUASI"
    BY <1>1, <1>3, <1>4 DEF TxKini
  <1>7. r.op = "BA_PJ_PENYUSUN" =>
            \/ "PJ_PENYUSUN" \in ttdBa'[r.pg]
            \/ pengajuan'[r.pg].st = "DITANDATANGANI_PJ_EVALUATOR"
    BY <1>1, <1>3, <1>4 DEF TxKini
  <1> QED  BY <1>2, <1>5, <1>6, <1>7 DEF TxKini

(***************************************************************************)
(* What a request that begins an operation remembers is up to date, and it *)
(* holds the lock of the OPD it opens a submission for.                    *)
(***************************************************************************)
TxBaru(p, r) ==
    /\ tx' = [tx EXCEPT ![p] = r]
    /\ TxKini(r)
    /\ r.op = "BUAT_PENGAJUAN" => OpdBebas(r.opd)
    /\ r.op = "KLON" => \E d \in Detail : MulaiKlon(p, d)
    /\ r.op = "KIRIM_ULANG" => \E d \in Detail : MulaiKirimUlang(p, d)
    /\ r.op = "KIRIM_ULANG_TULIS" => BacaUmpanBalik(p)
    /\ r.op = "ISI_NILAI" =>
          \E pg \in Pengajuan, d \in Detail, hasil \in {"SESUAI", "PERLU_PERBAIKAN"} :
              MulaiIsiNilai(p, pg, d, hasil)
    /\ r.op = "SELESAI" => \E pg \in Pengajuan : MulaiSelesai(p, pg)
    /\ r.op = "FINALISASI" => MulaiFinalisasi(p)

LEMMA LangkahTx ==
    ASSUME IInv, NEW p \in Proses,
           CatalogNext(p) \/ EvaluasiNext(p) \/ TteNext(p) \/ Batal(p)
    PROVE  \E r : TxBaru(p, r)
  <1>1. CASE Rampung(p)
    <2>1. TxBaru(p, Idle)
      BY <1>1 DEF TxBaru, Rampung, TxKini, Idle
    <2> QED  BY <2>1
  <1>2. ASSUME NEW r, Mulai(p, r), TxKini(r),
               r.op \in {"UBAH_STATUS", "HAPUS", "TINDAK_LANJUT", "TOLAK", "BA_EVALUATOR",
                         "BA_PJ_PENYUSUN"}
        PROVE  \E t : TxBaru(p, t)
    <2>1. TxBaru(p, r)  BY <1>2 DEF TxBaru, Mulai
    <2> QED  BY <2>1
  <1>3. ASSUME CatalogNext(p) PROVE \E r : TxBaru(p, r)
    <2>1. ASSUME NEW d \in Detail, MulaiKlon(p, d) PROVE \E r : TxBaru(p, r)
      <3>1. PICK n : Mulai(p, [op |-> "KLON", sop |-> d[1], versi |-> n])
        BY <2>1, Zenon DEF MulaiKlon
      <3>2. TxBaru(p, [op |-> "KLON", sop |-> d[1], versi |-> n])
        BY <2>1, <3>1 DEF TxBaru, Mulai, TxKini
      <3> QED  BY <3>2
    <2>2. ASSUME NEW d \in Detail, NEW ke \in StatusSOP, MulaiTransisi(p, d, ke)
          PROVE  \E r : TxBaru(p, r)
      <3>1. TxKini([op |-> "UBAH_STATUS", d |-> d, dari |-> status[d], ke |-> ke])
        BY <2>2 DEF MulaiTransisi, TransisiDiizinkan, TxKini
      <3> QED  BY <1>2, <2>2, <3>1 DEF MulaiTransisi
    <2>3. ASSUME NEW d \in Detail, MulaiCabut(p, d) PROVE \E r : TxBaru(p, r)
      <3>1. TxKini([op |-> "UBAH_STATUS", d |-> d, dari |-> "BERLAKU", ke |-> "DICABUT"])
        BY DEF TabelTransisi, TxKini
      <3> QED  BY <1>2, <2>3, <3>1 DEF MulaiCabut
    <2>4. ASSUME NEW d \in Detail, MulaiKirimUlang(p, d) \/ MulaiHapus(p, d)
          PROVE  \E r : TxBaru(p, r)
      <3>1. CASE MulaiKirimUlang(p, d)
        <4>1. TxBaru(p, [op |-> "KIRIM_ULANG", d |-> d])
          BY <3>1 DEF MulaiKirimUlang, Mulai, TxBaru, TxKini
        <4> QED  BY <4>1
      <3>2. CASE MulaiHapus(p, d)
        <4>1. TxKini([op |-> "HAPUS", d |-> d])  BY DEF TxKini
        <4> QED  BY <1>2, <3>2, <4>1 DEF MulaiHapus
      <3> QED  BY <2>4, <3>1, <3>2
    <2>5. CASE BacaUmpanBalik(p)
      <3> DEFINE r(T) == [op |-> "KIRIM_ULANG_TULIS", d |-> tx[p].d, tutup |-> T]
      <3>1. PICK T : Mulai(p, r(T))  BY <2>5, Zenon DEF BacaUmpanBalik
      <3>2. TxBaru(p, r(T))  BY <2>5, <3>1 DEF Mulai, TxBaru, TxKini
      <3> QED  BY <3>2
    <2>6. CASE Klon(p) \/ UbahStatus(p) \/ KirimUlang(p) \/ Hapus(p)
      BY <1>1, <2>6 DEF Klon, UbahStatus, KirimUlang, Hapus
    <2> QED  BY <1>3, <2>1, <2>2, <2>3, <2>4, <2>5, <2>6, Zenon DEF CatalogNext
  <1>4. ASSUME EvaluasiNext(p) PROVE \E r : TxBaru(p, r)
    <2>1. ASSUME NEW o \in Opd, NEW items \in SUBSET Detail, MulaiBuatPengajuan(p, o, items)
          PROVE  \E r : TxBaru(p, r)
      <3>1. TxKini([op |-> "BUAT_PENGAJUAN", opd |-> o, items |-> items])
        BY <2>1 DEF MulaiBuatPengajuan, TxKini
      <3>2. TxBaru(p, [op |-> "BUAT_PENGAJUAN", opd |-> o, items |-> items])
        BY <2>1, <3>1 DEF MulaiBuatPengajuan, Mulai, TxBaru
      <3> QED  BY <3>2
    <2>2. ASSUME NEW pg \in Pengajuan, NEW d \in Detail,
                 NEW hasil \in {"SESUAI", "PERLU_PERBAIKAN"}, MulaiIsiNilai(p, pg, d, hasil)
          PROVE  \E r : TxBaru(p, r)
      <3> DEFINE r == [op |-> "ISI_NILAI", pg |-> pg, d |-> d, hasil |-> hasil,
                       dibaca |-> nilai[pg][d]]
      <3>1. Mulai(p, r)  BY <2>2 DEF MulaiIsiNilai
      <3>2. TxBaru(p, r)  BY <2>2, <3>1 DEF Mulai, TxBaru, TxKini
      <3> QED  BY <3>2
    <2>3. ASSUME NEW pg \in Pengajuan, NEW d \in Detail, MulaiTindakLanjut(p, pg, d)
          PROVE  \E r : TxBaru(p, r)
      <3>1. TxKini([op |-> "TINDAK_LANJUT", pg |-> pg, d |-> d])  BY DEF TxKini
      <3> QED  BY <1>2, <2>3, <3>1 DEF MulaiTindakLanjut
    <2>4. ASSUME NEW pg \in Pengajuan, MulaiSelesai(p, pg) PROVE \E r : TxBaru(p, r)
      <3>1. TxBaru(p, [op |-> "SELESAI", pg |-> pg])
        BY <2>4 DEF MulaiSelesai, Mulai, TxBaru, TxKini
      <3> QED  BY <3>1
    <2>5. ASSUME NEW pg \in Pengajuan, MulaiTolak(p, pg) PROVE \E r : TxBaru(p, r)
      <3>1. TxKini([op |-> "TOLAK", pg |-> pg, ver |-> pengajuan[pg].ver,
                    versiNilai |-> [d \in Detail |-> nilai[pg][d].versi]])
        BY DEF TxKini
      <3> QED  BY <1>2, <2>5, <3>1 DEF MulaiTolak
    <2>6. CASE BuatPengajuan(p) \/ IsiNilai(p) \/ TindakLanjut(p) \/ Selesai(p) \/ Tolak(p)
      BY <1>1, <2>6 DEF BuatPengajuan, IsiNilai, TindakLanjut, Selesai, Tolak
    <2> QED  BY <1>4, <2>1, <2>2, <2>3, <2>4, <2>5, <2>6, Zenon DEF EvaluasiNext
  <1>5. ASSUME TteNext(p) PROVE \E r : TxBaru(p, r)
    <2>1. ASSUME NEW pg \in Pengajuan, MulaiBaEvaluator(p, pg) \/ MulaiBaPjPenyusun(p, pg)
          PROVE  \E r : TxBaru(p, r)
      <3>1. /\ MulaiBaEvaluator(p, pg) => TxKini([op |-> "BA_EVALUATOR", pg |-> pg])
            /\ MulaiBaPjPenyusun(p, pg) => TxKini([op |-> "BA_PJ_PENYUSUN", pg |-> pg])
        BY DEF MulaiBaEvaluator, MulaiBaPjPenyusun, TxKini
      <3> QED  BY <1>2, <2>1, <3>1 DEF MulaiBaEvaluator, MulaiBaPjPenyusun
    <2>2. ASSUME NEW pg \in Pengajuan, SiapkanPengesahan(p, pg) PROVE \E r : TxBaru(p, r)
      <3>1. TxBaru(p, [op |-> "PENGESAHAN", pg |-> pg])
        BY <2>2 DEF SiapkanPengesahan, TxBaru, TxKini
      <3> QED  BY <3>1
    <2>3. CASE MulaiFinalisasi(p)
      <3> DEFINE r == [op |-> "FINALISASI", pg |-> tx[p].pg, ver |-> pengajuan[tx[p].pg].ver,
                       berlaku |-> StatusBerlaku]
      <3>1. Mulai(p, r)  BY <2>3 DEF MulaiFinalisasi
      <3>2. TxBaru(p, r)  BY <2>3, <3>1 DEF Mulai, TxBaru, TxKini
      <3> QED  BY <3>2
    <2>4. CASE BaEvaluator(p) \/ BaPjPenyusun(p) \/ Finalisasi(p)
      BY <1>1, <2>4 DEF BaEvaluator, BaPjPenyusun, Finalisasi
    <2> QED  BY <1>5, <2>1, <2>2, <2>3, <2>4, Zenon DEF TteNext
  <1>6. ASSUME Batal(p) PROVE \E r : TxBaru(p, r)
    BY <1>1, <1>6 DEF Batal
  <1> QED  BY <1>3, <1>4, <1>5, <1>6

LEMMA KiniNext ==
    ASSUME KInv, IInv', JenisLangkah, [Next]_vars
    PROVE  Kini' /\ KunciOpd'
  <1>0. \A pg \in Pengajuan : ttdBa[pg] \subseteq ttdBa'[pg]
    BY TtdBertambah DEF KInv, IInv
  <1>1. ASSUME UNCHANGED tx PROVE Kini' /\ KunciOpd'
    <2>1. ASSUME NEW q \in Proses PROVE TxKini(tx[q])'
      <3>1. tx[q] \in Tx /\ TxKini(tx[q]) /\ tx'[q] = tx[q]
        BY <1>1 DEF KInv, IInv, TypeOK, Kini
      <3>2. tx[q].op = "BUAT_PENGAJUAN" =>
                \A pg \in Pengajuan : Dibuka(pg) => pengajuan'[pg].opd # tx[q].opd
        BY <1>1 DEF KInv, Dibuka, Idle
      <3>3. \A r \in Tx :
               /\ TxKini(r)
               /\ r.op = "BUAT_PENGAJUAN" =>
                     \A pg \in Pengajuan : Dibuka(pg) => pengajuan'[pg].opd # r.opd
               => TxKini(r)'
        BY <1>0, KiniTetap DEF KInv
      <3> QED  BY <3>1, <3>2, <3>3 DEF TxKini
    <2> QED  BY <1>1, <2>1 DEF KInv, Kini, KunciOpd
  <1>2. ASSUME NEW p \in Proses, NEW r, TxBaru(p, r) PROVE Kini' /\ KunciOpd'
    <2>1. tx'[p] = r /\ r \in Tx /\ \A q \in Proses \ {p} : tx'[q] = tx[q]
      BY <1>2 DEF TxBaru, KInv, IInv, TypeOK
    <2>2. \A t \in Tx :
             /\ TxKini(t)
             /\ t.op = "BUAT_PENGAJUAN" =>
                   \A pg \in Pengajuan : Dibuka(pg) => pengajuan'[pg].opd # t.opd
             => TxKini(t)'
      BY <1>0, KiniTetap DEF KInv
    <2>3. TxKini(r)'
      <3>1. r.op = "BUAT_PENGAJUAN" =>
                \A pg \in Pengajuan : Dibuka(pg) => pengajuan'[pg].opd # r.opd
        BY <1>2 DEF TxBaru, OpdBebas, Dibuka
      <3> QED  BY <1>2, <2>1, <2>2, <3>1 DEF TxBaru
    <2>4. ASSUME NEW q \in Proses, q # p PROVE TxKini(tx[q])'
      <3>1. tx[q] \in Tx /\ TxKini(tx[q]) /\ tx'[q] = tx[q]
        BY <2>1, <2>4 DEF KInv, IInv, TypeOK, Kini
      <3>2. ASSUME NEW pg \in Pengajuan, Dibuka(pg), tx[q].op = "BUAT_PENGAJUAN"
            PROVE  pengajuan'[pg].opd # tx[q].opd
        BY <3>1, <3>2 DEF Dibuka, KInv, KunciOpd, Idle
      <3> QED  BY <2>2, <3>1, <3>2 DEF TxKini
    <2>5. Kini'
      BY <2>1, <2>3, <2>4 DEF Kini, TxKini
    <2>6. KunciOpd'
      BY <1>2, <2>1 DEF KInv, KunciOpd, TxBaru, OpdBebas
    <2> QED  BY <2>5, <2>6
  <1>3. ASSUME NEW s \in Sop, BuatSop(s) PROVE UNCHANGED tx
    BY <1>3 DEF BuatSop
  <1>4. CASE UNCHANGED vars
    BY <1>1, <1>4 DEF vars
  <1>5. CASE Next
    <2>1. IInv  BY DEF KInv
    <2> QED  BY <1>1, <1>2, <1>3, <1>5, <2>1, LangkahTx, Zenon DEF Next
  <1> QED  BY <1>4, <1>5

LEMMA InitKInv == Init => KInv
  <1> SUFFICES ASSUME Init PROVE KInv
    OBVIOUS
  <1>1. IInv  BY InitIInv
  <1>2. \A pg \in Pengajuan : Items(pg) = {} /\ pengajuan[pg].st = "TIDAK_ADA"
    BY DEF Init, DataInit, Items, TanpaPengajuan
  <1>3. DataUrut
    BY <1>2 DEF Init, DataInit, DataUrut, ItemSeunit, ItemSelepas, SelepasDinilai, TtdAkhir,
                SatuPengajuanAktifPerOpd, PengajuanDapatDitandatangani, Aktif, PengajuanAktif,
                Selepas, Terminal
  <1>4. Kini /\ KunciOpd
    BY DEF Init, Kini, KunciOpd, TxKini, Idle
  <1> QED  BY <1>1, <1>3, <1>4 DEF KInv

LEMMA NextKInv == KInv /\ [Next]_vars /\ [TiadaKirimUlangBasi]_vars => KInv'
  <1> SUFFICES ASSUME KInv, [Next]_vars, [TiadaKirimUlangBasi]_vars PROVE KInv'
    OBVIOUS
  <1>1. IInv'  BY NextIInv DEF KInv
  <1>2. JenisLangkah  BY LangkahNext
  <1> QED  BY <1>1, <1>2, JenisUrut, KiniNext DEF KInv

-----------------------------------------------------------------------------
(***************************************************************************)
(* Without a stale resend, any number of requests at once.                 *)
(***************************************************************************)
LEMMA UrutInvarian == Spec /\ KirimUlangSegar => []KInv
  BY InitKInv, NextKInv, PTL DEF Spec, KirimUlangSegar

\* An OPD never has two submissions in progress, whoever opens them.
THEOREM SatuAktifTanpaKirimUlangBasi ==
    Spec /\ KirimUlangSegar => []SatuPengajuanAktifPerOpd
  <1>1. KInv => SatuPengajuanAktifPerOpd  BY DEF KInv, DataUrut
  <1> QED  BY <1>1, UrutInvarian, PTL

\* A submission past its evaluation is never stuck for the state of a version.
THEOREM DapatDitandatanganiTanpaKirimUlangBasi ==
    Spec /\ KirimUlangSegar => []PengajuanDapatDitandatangani
  <1>1. KInv => PengajuanDapatDitandatangani  BY DEF KInv, DataUrut
  <1> QED  BY <1>1, UrutInvarian, PTL

\* No kind of step takes a submission back.
LEMMA JenisMaju ==
    ASSUME KInv, JenisLangkah
    PROVE  MajuSelangkah
  <1>0. \A pg \in Pengajuan : pengajuan[pg].st \in StatusPengajuan \cup {"TIDAK_ADA"}
    BY DEF KInv, IInv, TypeOK, DataOK, TanpaPengajuan
  <1>1. ASSUME NEW pg \in Pengajuan
        PROVE  /\ Langkah(pengajuan[pg].st) <= Langkah(pengajuan'[pg].st)
               /\ pengajuan[pg].st = "DITOLAK" => pengajuan'[pg] = pengajuan[pg]
    <2>1. CASE pengajuan'[pg] = pengajuan[pg]
      BY <1>0, <2>1 DEF Langkah, StatusPengajuan
    <2>2. CASE Dibuka(pg)
      BY <2>2 DEF Dibuka, Langkah, TanpaPengajuan
    <2>3. CASE Dimajukan(pg) \/ Disahkan(pg)
      BY <2>3 DEF Dimajukan, Berpindah, Disahkan, Langkah
    <2> QED  BY <2>1, <2>2, <2>3 DEF JenisLangkah, DiLuarPengajuan, Dibuka, Dimajukan,
                                     Berpindah, Disahkan, LainTetap
  <1> QED  BY <1>1 DEF MajuSelangkah

\* A submission never falls back, whatever was read of it before.
THEOREM MajuTanpaKirimUlangBasi == Spec /\ KirimUlangSegar => PengajuanMaju
  <1>1. KInv /\ [Next]_vars /\ [TiadaKirimUlangBasi]_vars => [MajuSelangkah]_vars
    BY LangkahNext, JenisMaju
  <1> QED  BY <1>1, UrutInvarian, PTL DEF Spec, KirimUlangSegar, PengajuanMaju

LEMMA JenisTerminal ==
    ASSUME JenisLangkah
    PROVE  TerminalSelangkah
  <1>1. CASE DiLuarPengajuan
    BY <1>1 DEF DiLuarPengajuan, TerminalSelangkah, Selepas
  <1>2. ASSUME NEW pg \in Pengajuan, Dibuka(pg) PROVE TerminalSelangkah
    BY <1>2 DEF Dibuka, TerminalSelangkah, Terminal
  <1>3. ASSUME NEW pg \in Pengajuan, Dimajukan(pg) PROVE TerminalSelangkah
    BY <1>3 DEF Dimajukan, Berpindah, TerminalSelangkah, Terminal, DapatDinilai
  <1>4. ASSUME NEW pg \in Pengajuan, Disahkan(pg) PROVE TerminalSelangkah
    BY <1>4 DEF Disahkan, TerminalSelangkah, Terminal
  <1> QED  BY <1>1, <1>2, <1>3, <1>4 DEF JenisLangkah

\* A terminal version stays terminal; only one in force is replaced or revoked.
THEOREM TerminalTanpaKirimUlangBasi == Spec /\ KirimUlangSegar => TerminalTetap
  <1>1. KInv /\ [Next]_vars /\ [TiadaKirimUlangBasi]_vars => [TerminalSelangkah]_vars
    BY LangkahNext, JenisTerminal
  <1> QED  BY <1>1, UrutInvarian, PTL DEF Spec, KirimUlangSegar, TerminalTetap

-----------------------------------------------------------------------------
(***************************************************************************)
(* Revisions.  The number of a clone and the absence of a revision in      *)
(* flight are read before the insert; the unique key (sopId, versi) is     *)
(* what makes the second of two inserts fail.                              *)
(***************************************************************************)

\* A row has a version number as long as it exists.
VersiAda == \A d \in Detail : Ada(d) <=> versi[d] > 0

\* The unique key.
VersiUnik ==
    \A d, e \in Detail : d[1] = e[1] /\ versi[d] = versi[e] /\ versi[d] > 0 => d = e

\* What is not terminal is the newest version of its SOP.
RevisiTerbaru ==
    \A d, e \in Detail :
        d[1] = e[1] /\ Ada(d) /\ status[d] \notin Terminal => versi[e] <= versi[d]

DataRevisi == VersiAda /\ VersiUnik /\ RevisiTerbaru

\* Version n of SOP s exists and is terminal.
Menetap(s, n) == \E d \in Detail : d[1] = s /\ status[d] \in Terminal /\ versi[d] = n

(***************************************************************************)
(* A clone begun follows a terminal version, and if the SOP has got so far *)
(* meanwhile then the number it will insert is taken.                      *)
(***************************************************************************)
KlonSah(r) ==
    r.op = "KLON" =>
        /\ \E d \in Detail : d[1] = r.sop /\ status[d] \in Terminal /\ versi[d] + 1 = r.versi
        /\ (\E e \in Detail : e[1] = r.sop /\ versi[e] >= r.versi) =>
               \E e \in Detail : e[1] = r.sop /\ versi[e] = r.versi

\* Of two clones begun of one SOP the smaller number is of a version that is terminal.
KlonBerurutan ==
    \A p, q \in Proses :
        /\ tx[p].op = "KLON"
        /\ tx[q].op = "KLON"
        /\ tx[p].sop = tx[q].sop
        /\ tx[p].versi < tx[q].versi
        => Menetap(tx[p].sop, tx[p].versi)

RInv == DataRevisi /\ (\A p \in Proses : KlonSah(tx[p])) /\ KlonBerurutan

-----------------------------------------------------------------------------
\* The rows of an SOP.
LEMMA BarisDetail ==
    /\ \A s \in Sop : \A d \in BarisSop(s) : d \in Detail /\ d[1] = s
    /\ \A d \in Detail : d[1] \in Sop /\ d \in BarisSop(d[1])
    /\ \A s \in Sop, k \in 1..MaxBaris : <<s, k>> \in Detail /\ <<s, k>>[1] = s
  BY DEF BarisSop, Detail

\* A terminal version is final, its number too.
TerminalAbadi ==
    \A d \in Detail : status[d] \in Terminal =>
        status'[d] \in Terminal /\ versi'[d] = versi[d]

\* The steps that number no version.
VersiTetap ==
    /\ UNCHANGED versi
    /\ \A d \in Detail : Ada(d)' <=> Ada(d)
    /\ TerminalSelangkah

LEMMA VersiTetapData ==
    ASSUME DataRevisi, VersiTetap
    PROVE  DataRevisi' /\ TerminalAbadi
  <1>1. \A d \in Detail : status[d] \in Terminal => status'[d] \in Terminal
    BY DEF VersiTetap, TerminalSelangkah, Terminal
  <1>2. VersiAda' /\ VersiUnik'
    BY DEF VersiTetap, DataRevisi, VersiAda, VersiUnik
  <1>3. RevisiTerbaru'
    BY <1>1 DEF VersiTetap, DataRevisi, RevisiTerbaru
  <1>4. TerminalAbadi
    BY <1>1 DEF VersiTetap, TerminalAbadi
  <1> QED  BY <1>2, <1>3, <1>4 DEF DataRevisi

\* A row appears with the highest number of an SOP whose rows are all terminal.
LEMMA BarisBaru ==
    ASSUME DataOK, DataRevisi, NEW d \in Detail, NEW n \in Nat, n > 0, ~Ada(d),
           status' = [status EXCEPT ![d] = "DRAFT"],
           versi' = [versi EXCEPT ![d] = n],
           \A e \in Detail : e[1] = d[1] => versi[e] < n,
           \A e \in Detail : e[1] = d[1] /\ Ada(e) => status[e] \in Terminal
    PROVE  DataRevisi' /\ TerminalAbadi
  <1>1. /\ status'[d] = "DRAFT" /\ versi'[d] = n
        /\ \A e \in Detail \ {d} : status'[e] = status[e] /\ versi'[e] = versi[e]
        /\ \A e \in Detail : versi[e] \in Nat
    BY DEF DataOK
  <1>2. "DRAFT" \in StatusSOP /\ "DRAFT" \notin Terminal /\ Terminal \subseteq StatusSOP
    BY DEF StatusSOP, Terminal
  <1>3. VersiAda'
    BY <1>1, <1>2 DEF DataRevisi, VersiAda, Ada
  <1>4. VersiUnik'
    BY <1>1 DEF DataRevisi, VersiUnik
  <1>5. RevisiTerbaru'
    BY <1>1, <1>2 DEF DataRevisi, RevisiTerbaru, Ada
  <1>6. TerminalAbadi
    BY <1>1, <1>2 DEF TerminalAbadi, Ada
  <1> QED  BY <1>3, <1>4, <1>5, <1>6 DEF DataRevisi

LEMMA BuatSopData ==
    ASSUME DataOK, DataRevisi, NEW s \in Sop, BuatSop(s)
    PROVE  /\ DataRevisi' /\ TerminalAbadi
           /\ \A d \in Detail : d[1] # s => versi'[d] = versi[d]
           /\ \A d \in Detail : d[1] = s => status[d] = "TIDAK_ADA"
  <1>0. <<s, 1>> \in Detail /\ <<s, 1>>[1] = s
    BY MaxBarisAssumption, BarisDetail
  <1>1. PICK d \in Detail : d = <<s, 1>> /\ d[1] = s
    BY <1>0
  <1>2. \A e \in Detail : e[1] = s => status[e] = "TIDAK_ADA"
    BY BarisDetail DEF BuatSop
  <1>3. "TIDAK_ADA" \notin StatusSOP  BY DEF StatusSOP
  <1>4. \A e \in Detail : e[1] = s => ~Ada(e) /\ versi[e] < 1
    BY <1>2, <1>3 DEF DataRevisi, VersiAda, Ada, DataOK
  <1>5. /\ status' = [status EXCEPT ![d] = "DRAFT"]
        /\ versi' = [versi EXCEPT ![d] = 1]
    BY <1>1 DEF BuatSop
  <1>6. DataRevisi' /\ TerminalAbadi
    <2>1. /\ 1 \in Nat /\ 1 > 0 /\ ~Ada(d)
          /\ \A e \in Detail : e[1] = d[1] => versi[e] < 1
          /\ \A e \in Detail : e[1] = d[1] /\ Ada(e) => status[e] \in Terminal
      BY <1>1, <1>4
    <2> QED  BY <1>5, <2>1, BarisBaru
  <1>7. \A e \in Detail : e[1] # s => versi'[e] = versi[e]
    BY <1>1, <1>5 DEF DataOK
  <1> QED  BY <1>2, <1>6, <1>7

LEMMA KlonData ==
    ASSUME DataOK, DataRevisi, NEW p \in Proses, tx[p] \in Tx, KlonSah(tx[p]), Klon(p)
    PROVE  /\ DataRevisi' /\ TerminalAbadi
           /\ \E d \in Detail : /\ d[1] = tx[p].sop
                                /\ versi'[d] = tx[p].versi
                                /\ ~Ada(d)
                                /\ \A e \in Detail \ {d} : versi'[e] = versi[e]
           /\ \A e \in Detail : e[1] = tx[p].sop => versi[e] < tx[p].versi
  <1>1. tx[p].sop \in Sop /\ tx[p].versi \in Nat
    BY BentukTx DEF Klon, TxKlon
  <1>2. PICK k \in 1..MaxBaris :
           /\ status[<<tx[p].sop, k>>] = "TIDAK_ADA"
           /\ status' = [status EXCEPT ![<<tx[p].sop, k>>] = "DRAFT"]
           /\ versi' = [versi EXCEPT ![<<tx[p].sop, k>>] = tx[p].versi]
    BY DEF Klon
  <1>3. PICK d \in Detail : d = <<tx[p].sop, k>> /\ d[1] = tx[p].sop
    BY <1>1, <1>2, BarisDetail
  <1>4. ~Ada(d)  BY <1>2, <1>3 DEF Ada, StatusSOP
  <1>5. \A e \in Detail : e[1] = tx[p].sop => versi[e] # tx[p].versi
    BY BarisDetail DEF Klon
  <1>6. \A e \in Detail : versi[e] \in Nat  BY DEF DataOK
  <1>7. PICK t \in Detail : /\ t[1] = tx[p].sop
                           /\ status[t] \in Terminal
                           /\ versi[t] + 1 = tx[p].versi
    BY DEF KlonSah, Klon
  <1>8. \A e \in Detail : e[1] = tx[p].sop => versi[e] < tx[p].versi
    BY <1>1, <1>5, <1>6 DEF KlonSah, Klon
  <1>9. ASSUME NEW e \in Detail, e[1] = d[1], Ada(e), status[e] \notin Terminal PROVE FALSE
    <2>1. versi[t] <= versi[e] /\ versi[e] < tx[p].versi /\ versi[e] > 0
      BY <1>3, <1>7, <1>8, <1>9 DEF DataRevisi, RevisiTerbaru, VersiAda
    <2>2. versi[t] = versi[e]  BY <1>6, <1>7, <2>1
    <2> QED  BY <1>3, <1>7, <1>9, <2>1, <2>2 DEF DataRevisi, VersiUnik
  <1>10. tx[p].versi > 0  BY <1>6, <1>7
  <1>11. DataRevisi' /\ TerminalAbadi
    BY <1>1, <1>2, <1>3, <1>4, <1>8, <1>9, <1>10, BarisBaru
  <1>12. versi'[d] = tx[p].versi /\ \A e \in Detail \ {d} : versi'[e] = versi[e]
    BY <1>2, <1>3 DEF DataOK
  <1> QED  BY <1>3, <1>4, <1>8, <1>11, <1>12

LEMMA HapusData ==
    ASSUME KInv, DataRevisi, NEW p \in Proses, Hapus(p)
    PROVE  /\ DataRevisi' /\ TerminalAbadi
           /\ \E d \in Detail : /\ Ada(d) /\ status[d] \notin Terminal /\ versi'[d] = 0
                                /\ \A e \in Detail \ {d} : versi'[e] = versi[e]
  <1>0. DataOK /\ tx[p] \in Tx  BY DEF KInv, IInv, TypeOK
  <1>1. PICK d \in Detail : d = tx[p].d
    BY <1>0, BentukTx DEF Hapus, TxHapus
  <1>2. /\ Ada(d)
        /\ status' = [status EXCEPT ![d] = "DIHAPUS"]
        /\ versi' = [versi EXCEPT ![d] = 0]
    BY <1>1 DEF Hapus
  <1>3. status[d] \notin Terminal
    BY <1>1 DEF KInv, DataUrut, SelepasDinilai, Hapus, BelumDinilai, Selepas
  <1>4. /\ status'[d] = "DIHAPUS" /\ versi'[d] = 0
        /\ \A e \in Detail \ {d} : status'[e] = status[e] /\ versi'[e] = versi[e]
        /\ \A e \in Detail : versi[e] \in Nat
    BY <1>0, <1>2 DEF DataOK
  <1>5. "DIHAPUS" \notin StatusSOP  BY DEF StatusSOP
  <1>6. VersiAda' /\ VersiUnik'
    BY <1>4, <1>5 DEF DataRevisi, VersiAda, VersiUnik, Ada
  <1>7. RevisiTerbaru'
    BY <1>4, <1>5 DEF DataRevisi, RevisiTerbaru, Ada
  <1>8. TerminalAbadi
    BY <1>3, <1>4 DEF TerminalAbadi
  <1> QED  BY <1>2, <1>3, <1>4, <1>6, <1>7, <1>8 DEF DataRevisi

-----------------------------------------------------------------------------
(***************************************************************************)
(* Begun clones keep what they rely on.                                    *)
(***************************************************************************)
LEMMA MenetapAbadi ==
    ASSUME TerminalAbadi, NEW s, NEW n, Menetap(s, n)
    PROVE  Menetap(s, n)'
  BY DEF Menetap, TerminalAbadi

\* Enough for a clone begun of an SOP to stay sound: its second half survives.
LEMMA KlonSahTetap ==
    ASSUME TerminalAbadi, NEW r, KlonSah(r),
           r.op = "KLON" =>
               ((\E e \in Detail : e[1] = r.sop /\ versi'[e] >= r.versi) =>
                    \E e \in Detail : e[1] = r.sop /\ versi'[e] = r.versi)
    PROVE  KlonSah(r)'
  <1>1. ASSUME NEW d \in Detail, status[d] \in Terminal
        PROVE  status'[d] \in Terminal /\ versi'[d] = versi[d]
    BY <1>1 DEF TerminalAbadi
  <1>2. r.op = "KLON" => \E d \in Detail : /\ d[1] = r.sop
                                           /\ status'[d] \in Terminal
                                           /\ versi'[d] + 1 = r.versi
    BY <1>1 DEF KlonSah
  <1> QED  BY <1>2 DEF KlonSah

LEMMA BuatSopKlon ==
    ASSUME DataOK, DataRevisi, NEW s \in Sop, BuatSop(s), NEW r \in Tx, KlonSah(r)
    PROVE  KlonSah(r)'
  <1>1. /\ TerminalAbadi
        /\ \A d \in Detail : d[1] # s => versi'[d] = versi[d]
        /\ \A d \in Detail : d[1] = s => status[d] = "TIDAK_ADA"
    BY BuatSopData
  <1>2. r.op = "KLON" => r.sop # s
    BY <1>1 DEF KlonSah, Terminal
  <1>3. \A d \in Detail : r.op = "KLON" /\ d[1] = r.sop => versi'[d] = versi[d]
    BY <1>1, <1>2
  <1> QED  BY <1>1, <1>3, KlonSahTetap DEF KlonSah

LEMMA HapusKlon ==
    ASSUME KInv, DataRevisi, NEW p \in Proses, Hapus(p), NEW r \in Tx, KlonSah(r)
    PROVE  KlonSah(r)'
  <1>1. TerminalAbadi  BY HapusData
  <1>2. PICK d \in Detail : /\ Ada(d) /\ status[d] \notin Terminal /\ versi'[d] = 0
                           /\ \A e \in Detail \ {d} : versi'[e] = versi[e]
    BY HapusData
  <1>3. \A e \in Detail : versi[e] \in Nat  BY DEF KInv, IInv, TypeOK, DataOK
  <1>4. ASSUME r.op = "KLON", NEW e \in Detail, e[1] = r.sop, versi'[e] >= r.versi
        PROVE  \E w \in Detail : w[1] = r.sop /\ versi'[w] = r.versi
    <2>0. r.versi > 0 /\ r.versi \in Nat  BY <1>3, <1>4 DEF KlonSah
    <2>1. e # d /\ versi[e] >= r.versi  BY <1>2, <1>4, <2>0
    <2>2. PICK w \in Detail : w[1] = r.sop /\ versi[w] = r.versi
      BY <1>4, <2>1 DEF KlonSah
    <2>3. w # d
      <3>1. SUFFICES ASSUME w = d PROVE FALSE  OBVIOUS
      <3>2. versi[e] <= versi[d]  BY <1>2, <1>4, <2>2, <3>1 DEF DataRevisi, RevisiTerbaru
      <3>3. versi[e] = versi[d] /\ versi[d] > 0
        BY <1>3, <2>0, <2>1, <2>2, <3>1, <3>2
      <3> QED  BY <1>4, <2>1, <2>2, <3>1, <3>3 DEF DataRevisi, VersiUnik
    <2> QED  BY <1>2, <2>2, <2>3
  <1> QED  BY <1>1, <1>4, KlonSahTetap

\* The insert of another request takes a number that was not needed, or the one needed.
LEMMA KlonKlon ==
    ASSUME DataOK, RInv, NEW p \in Proses, tx[p] \in Tx, Klon(p),
           NEW q \in Proses, NEW r \in Tx, r = tx[q]
    PROVE  KlonSah(r)'
  <1>0. DataRevisi /\ KlonSah(tx[p]) /\ KlonSah(r)  BY DEF RInv
  <1>1. /\ TerminalAbadi
        /\ \A e \in Detail : e[1] = tx[p].sop => versi[e] < tx[p].versi
    BY <1>0, KlonData
  <1>2. PICK d \in Detail : /\ d[1] = tx[p].sop
                           /\ versi'[d] = tx[p].versi
                           /\ \A e \in Detail \ {d} : versi'[e] = versi[e]
    BY <1>0, KlonData
  <1>3. \A e \in Detail : versi[e] \in Nat  BY DEF DataOK
  <1>4. tx[p].op = "KLON" /\ tx[p].versi \in Nat  BY BentukTx DEF Klon, TxKlon
  <1>5. ASSUME r.op = "KLON", NEW e \in Detail, e[1] = r.sop, versi'[e] >= r.versi
        PROVE  \E w \in Detail : w[1] = r.sop /\ versi'[w] = r.versi
    <2>0. r.versi \in Nat  BY <1>5, BentukTx DEF TxKlon
    <2>1. CASE r.sop # tx[p].sop
      <3>1. \A w \in Detail : w[1] = r.sop => versi'[w] = versi[w]
        BY <1>2, <2>1
      <3> QED  BY <1>0, <1>5, <3>1 DEF KlonSah
    <2>2. CASE r.sop = tx[p].sop /\ r.versi = tx[p].versi
      BY <1>2, <2>2
    <2>3. CASE r.sop = tx[p].sop /\ r.versi < tx[p].versi
      <3>1. Menetap(r.sop, r.versi)  BY <1>4, <1>5, <2>3 DEF RInv, KlonBerurutan
      <3>2. \A s, n : Menetap(s, n) => Menetap(s, n)'  BY <1>1, MenetapAbadi
      <3> QED  BY <3>1, <3>2 DEF Menetap
    <2>4. CASE r.sop = tx[p].sop /\ r.versi > tx[p].versi
      <3>1. e # d  BY <1>2, <1>4, <1>5, <2>0, <2>4
      <3>2. versi[e] >= r.versi /\ versi[e] < tx[p].versi
        BY <1>1, <1>2, <1>5, <2>4, <3>1
      <3> QED  BY <1>3, <1>4, <2>0, <2>4, <3>2
    <2> QED  BY <1>4, <2>0, <2>1, <2>2, <2>3, <2>4
  <1> QED  BY <1>0, <1>1, <1>5, KlonSahTetap

\* A clone starts after the newest version, which is terminal.
LEMMA MulaiKlonSah ==
    ASSUME DataOK, RInv, NEW p \in Proses, NEW sumber \in Detail, MulaiKlon(p, sumber)
    PROVE  \E r \in Tx :
             /\ tx' = [tx EXCEPT ![p] = r] /\ UNCHANGED data
             /\ r.op = "KLON" /\ KlonSah(r)
             /\ \A t \in Tx : t.op = "KLON" /\ t.sop = r.sop /\ KlonSah(t) =>
                   /\ t.versi < r.versi => Menetap(r.sop, t.versi)
                   /\ ~(r.versi < t.versi)
  <1>0. DataRevisi /\ \A d \in Detail : versi[d] \in Nat  BY DEF RInv, DataOK
  <1> DEFINE s == sumber[1]
  <1>1. s \in Sop /\ \A d \in Detail : d[1] = s => d \in BarisSop(s)
    BY BarisDetail
  <1>2. \A d \in Detail : d[1] = s /\ Ada(d) => status[d] \in Terminal
    BY <1>1 DEF MulaiKlon, TanpaRevisiBerjalan
  <1>3. PICK akhir \in Detail :
           /\ akhir[1] = s
           /\ \A d \in Detail : d[1] = s => versi[d] <= versi[akhir]
           /\ Mulai(p, [op |-> "KLON", sop |-> s, versi |-> versi[akhir] + 1])
    BY <1>1, BarisDetail DEF MulaiKlon
  <1> DEFINE r == [op |-> "KLON", sop |-> s, versi |-> versi[akhir] + 1]
  <1>4. r \in Tx /\ r.op = "KLON" /\ r.sop = s /\ r.versi = versi[akhir] + 1
    BY <1>0, <1>1 DEF Tx, TxKlon
  <1>5. status[akhir] \in Terminal
    <2>1. status[sumber] \in Terminal  BY DEF MulaiKlon
    <2>2. versi[sumber] > 0
      BY <1>0, <2>1 DEF DataRevisi, VersiAda, Ada, Terminal, StatusSOP
    <2>3. versi[akhir] > 0  BY <1>0, <1>3, <2>2
    <2> QED  BY <1>0, <1>2, <1>3, <2>3 DEF DataRevisi, VersiAda
  <1>6. \A e \in Detail : e[1] = s => ~(versi[e] >= versi[akhir] + 1)
    BY <1>0, <1>3
  <1>7. tx' = [tx EXCEPT ![p] = r] /\ UNCHANGED data
    BY <1>3 DEF Mulai
  <1> HIDE DEF r
  <1>8. KlonSah(r)
    BY <1>3, <1>4, <1>5, <1>6 DEF KlonSah
  <1>9. ASSUME NEW t \in Tx, t.op = "KLON", t.sop = s, KlonSah(t)
        PROVE  /\ t.versi < versi[akhir] + 1 => Menetap(s, t.versi)
               /\ ~(versi[akhir] + 1 < t.versi)
    <2>0. t.versi \in Nat  BY <1>9, BentukTx DEF TxKlon
    <2>1. PICK d \in Detail : d[1] = s /\ status[d] \in Terminal /\ versi[d] + 1 = t.versi
      BY <1>9 DEF KlonSah
    <2>2. ~(versi[akhir] + 1 < t.versi)
      BY <1>0, <1>3, <2>0, <2>1
    <2>3. ASSUME t.versi < versi[akhir] + 1 PROVE Menetap(s, t.versi)
      <3>1. versi[akhir] >= t.versi  BY <1>0, <2>0, <2>3
      <3>2. PICK w \in Detail : w[1] = s /\ versi[w] = t.versi
        BY <1>3, <1>9, <3>1 DEF KlonSah
      <3>3. Ada(w)  BY <1>0, <2>0, <2>1, <3>2 DEF DataRevisi, VersiAda
      <3> QED  BY <1>2, <3>2, <3>3 DEF Menetap
    <2> QED  BY <2>2, <2>3
  <1> QED  BY <1>4, <1>7, <1>8, <1>9

\* Rows are numbered by BuatSop, Klon and Hapus alone; no other step adds or removes one.
LEMMA LangkahVersi ==
    ASSUME KInv, [Next]_vars, TerminalSelangkah
    PROVE  \/ VersiTetap
           \/ \E s \in Sop : BuatSop(s)
           \/ \E p \in Proses : Klon(p) \/ Hapus(p)
  <1>0. DataOK /\ \A p \in Proses : tx[p] \in Tx  BY DEF KInv, IInv, TypeOK
  <1>1. CASE UNCHANGED <<status, versi>>
    BY <1>1 DEF VersiTetap, Ada
  <1>2. ASSUME NEW p \in Proses, UbahStatus(p) PROVE VersiTetap
    <2>1. tx[p] \in TxUbahStatus  BY <1>0, <1>2, BentukTx DEF UbahStatus
    <2>2. tx[p].dari \in StatusSOP /\ tx[p].ke \in StatusSOP  BY <2>1 DEF TxUbahStatus
    <2> QED  BY <1>0, <1>2, <2>2 DEF UbahStatus, VersiTetap, Ada, DataOK
  <1>3. ASSUME NEW p \in Proses, KirimUlang(p) PROVE VersiTetap
    <2>1. /\ Ada(tx[p].d) /\ UNCHANGED versi
          /\ status' = [status EXCEPT ![tx[p].d] = "SEDANG_DIEVALUASI"]
      BY <1>3 DEF KirimUlang
    <2> QED  BY <1>0, <2>1 DEF VersiTetap, Ada, DataOK, StatusSOP
  <1>4. ASSUME NEW p \in Proses, IsiNilai(p) PROVE VersiTetap
    <2>1. \A d \in Detail :
             \/ status'[d] = status[d]
             \/ /\ status[d] \in {"DIAJUKAN_EVALUASI", "SEDANG_DIEVALUASI"}
                /\ status'[d] = "REVISI_DARI_EVALUATOR"
             \/ KirimUlang(p) /\ d = tx[p].d /\ status'[d] = "SEDANG_DIEVALUASI"
      BY <1>4, NilaiBerubah DEF KInv
    <2>2. ~KirimUlang(p) /\ UNCHANGED versi  BY <1>4 DEF IsiNilai, KirimUlang
    <2> QED  BY <2>1, <2>2 DEF VersiTetap, Ada, StatusSOP
  <1>5. ASSUME NEW p \in Proses, BuatPengajuan(p) PROVE VersiTetap
    BY <1>0, <1>5 DEF BuatPengajuan, VersiTetap, Ada, DataOK, StatusSOP
  <1>6. ASSUME NEW p \in Proses, Selesai(p) \/ Tolak(p) PROVE VersiTetap
    BY <1>0, <1>6 DEF Selesai, Tolak, SemuaDapatDinilai, DapatDinilai, VersiTetap, Ada, DataOK,
                      StatusSOP
  <1>7. ASSUME NEW p \in Proses, BaPjPenyusun(p) PROVE VersiTetap
    BY <1>0, <1>7 DEF BaPjPenyusun, VersiTetap, Ada, DataOK, StatusSOP
  <1>8. ASSUME NEW p \in Proses, Finalisasi(p) PROVE VersiTetap
    <2>1. PICK pg \in Pengajuan : Disahkan(pg)  BY <1>8, LangkahFinalisasi
    <2>2. UNCHANGED versi  BY <1>8 DEF Finalisasi
    <2> QED  BY <2>1, <2>2 DEF Disahkan, VersiTetap, Ada, StatusSOP
  <1>9. ASSUME NEW p \in Proses, CatalogNext(p)
        PROVE  UNCHANGED <<status, versi>> \/ Klon(p) \/ UbahStatus(p) \/ KirimUlang(p) \/ Hapus(p)
    BY <1>9 DEF CatalogNext, MulaiKlon, MulaiTransisi, MulaiCabut, MulaiKirimUlang, MulaiHapus,
                BacaUmpanBalik, Mulai, data
  <1>10. ASSUME NEW p \in Proses, EvaluasiNext(p)
         PROVE  \/ UNCHANGED <<status, versi>>
                \/ BuatPengajuan(p) \/ IsiNilai(p) \/ Selesai(p) \/ Tolak(p)
    BY <1>10, Zenon DEF EvaluasiNext, MulaiBuatPengajuan, MulaiIsiNilai, MulaiTindakLanjut,
                        MulaiSelesai, MulaiTolak, TindakLanjut, Mulai, data
  <1>11. ASSUME NEW p \in Proses, TteNext(p)
         PROVE  UNCHANGED <<status, versi>> \/ BaPjPenyusun(p) \/ Finalisasi(p)
    BY <1>11 DEF TteNext, MulaiBaEvaluator, MulaiBaPjPenyusun, SiapkanPengesahan,
                 MulaiFinalisasi, BaEvaluator, Mulai, data
  <1>12. ASSUME NEW p \in Proses, Batal(p) PROVE UNCHANGED <<status, versi>>
    BY <1>12 DEF Batal, data
  <1>13. CASE UNCHANGED vars
    BY <1>1, <1>13 DEF vars
  <1> QED  BY <1>1, <1>2, <1>3, <1>4, <1>5, <1>6, <1>7, <1>8, <1>9, <1>10, <1>11, <1>12, <1>13,
              Zenon DEF Next

\* What the begun clones rely on, once the rows themselves are settled.
LEMMA KlonTetap ==
    ASSUME IInv, IInv', RInv, [Next]_vars, TerminalAbadi,
           \A q \in Proses : \A r \in Tx : r = tx[q] => KlonSah(r)'
    PROVE  (\A q \in Proses : KlonSah(tx[q]))' /\ KlonBerurutan'
  <1>0. tx \in [Proses -> Tx] /\ tx' \in [Proses -> Tx] /\ DataOK  BY DEF IInv, TypeOK
  <1>1. \A s, n : Menetap(s, n) => Menetap(s, n)'  BY MenetapAbadi
  <1>2. CASE UNCHANGED tx
    <2>1. \A q \in Proses : KlonSah(tx[q])'
      <3>1. ASSUME NEW q \in Proses PROVE KlonSah(tx[q])'
        <4>1. PICK r \in Tx : r = tx[q] /\ r = tx'[q]  BY <1>0, <1>2
        <4> QED  BY <4>1 DEF KlonSah
      <3> QED  BY <3>1
    <2> QED  BY <1>1, <1>2, <2>1 DEF RInv, KlonBerurutan, Menetap
  <1>3. ASSUME NEW p \in Proses, NEW t, TxBaru(p, t)
        PROVE  (\A q \in Proses : KlonSah(tx[q]))' /\ KlonBerurutan'
    <2>1. tx'[p] = t /\ t \in Tx /\ \A q \in Proses \ {p} : tx'[q] = tx[q]
      BY <1>0, <1>3 DEF TxBaru
    <2>2. /\ t.op = "KLON" => KlonSah(t)'
          /\ \A u \in Tx : t.op = "KLON" /\ u.op = "KLON" /\ u.sop = t.sop /\ KlonSah(u) =>
                /\ u.versi < t.versi => Menetap(t.sop, u.versi)
                /\ ~(t.versi < u.versi)
      <3>1. CASE t.op = "KLON"
        <4>1. PICK sumber \in Detail : MulaiKlon(p, sumber)  BY <1>3, <3>1 DEF TxBaru
        <4>2. PICK r \in Tx :
                 /\ tx' = [tx EXCEPT ![p] = r] /\ UNCHANGED data
                 /\ r.op = "KLON" /\ KlonSah(r)
                 /\ \A u \in Tx : u.op = "KLON" /\ u.sop = r.sop /\ KlonSah(u) =>
                       /\ u.versi < r.versi => Menetap(r.sop, u.versi)
                       /\ ~(r.versi < u.versi)
          BY <1>0, <4>1, MulaiKlonSah
        <4>3. r = t  BY <1>0, <2>1, <4>2
        <4>4. KlonSah(t)'  BY <4>2, <4>3, KlonSahTetap DEF data, KlonSah
        <4> QED  BY <4>2, <4>3, <4>4
      <3> QED  BY <3>1
    <2>3. ASSUME NEW q \in Proses PROVE KlonSah(tx[q])'
      <3>1. CASE q = p  BY <2>1, <2>2, <3>1 DEF KlonSah
      <3>2. CASE q # p
        <4>1. PICK r \in Tx : r = tx[q] /\ r = tx'[q]  BY <1>0, <2>1, <3>2
        <4> QED  BY <4>1 DEF KlonSah
      <3> QED  BY <3>1, <3>2
    <2>4. ASSUME NEW q \in Proses, NEW u \in Proses, tx'[q].op = "KLON", tx'[u].op = "KLON",
                 tx'[q].sop = tx'[u].sop, tx'[q].versi < tx'[u].versi
          PROVE  Menetap(tx[q].sop, tx[q].versi)'
      <3>1. CASE q # p /\ u # p
        <4>1. Menetap(tx[q].sop, tx[q].versi)
          BY <2>1, <2>4, <3>1 DEF RInv, KlonBerurutan
        <4> QED  BY <1>1, <2>1, <3>1, <4>1 DEF Menetap
      <3>2. CASE q # p /\ u = p
        <4>1. Menetap(t.sop, tx[q].versi)
          BY <1>0, <2>1, <2>2, <2>4, <3>2 DEF RInv
        <4> QED  BY <1>1, <2>1, <2>4, <3>2, <4>1 DEF Menetap
      <3>3. CASE q = p /\ u # p
        BY <1>0, <2>1, <2>2, <2>4, <3>3 DEF RInv
      <3>4. CASE q = p /\ u = p
        <4>1. t.versi \in Nat  BY <2>1, <2>4, <3>4, BentukTx DEF TxKlon
        <4> QED  BY <2>1, <2>4, <3>4, <4>1
      <3> QED  BY <3>1, <3>2, <3>3, <3>4
    <2> QED  BY <2>3, <2>4 DEF KlonBerurutan, Menetap
  <1>4. ASSUME NEW s \in Sop, BuatSop(s) PROVE UNCHANGED tx
    BY <1>4 DEF BuatSop
  <1>5. CASE UNCHANGED vars
    BY <1>2, <1>5 DEF vars
  <1>6. CASE Next
    BY <1>2, <1>3, <1>4, <1>6, LangkahTx, Zenon DEF Next
  <1> QED  BY <1>5, <1>6

LEMMA InitRInv == Init => RInv
  BY DEF Init, DataInit, RInv, DataRevisi, VersiAda, VersiUnik, RevisiTerbaru, KlonSah,
         KlonBerurutan, Ada, StatusSOP, Idle

LEMMA NextRInv ==
    KInv /\ RInv /\ [Next]_vars /\ [TiadaKirimUlangBasi]_vars => RInv'
  <1> SUFFICES ASSUME KInv, RInv, [Next]_vars, [TiadaKirimUlangBasi]_vars PROVE RInv'
    OBVIOUS
  <1>0. /\ IInv /\ IInv' /\ DataOK /\ DataRevisi
        /\ \A q \in Proses : tx[q] \in Tx /\ KlonSah(tx[q])
    BY NextIInv DEF KInv, IInv, TypeOK, RInv
  <1>1. TerminalSelangkah  BY LangkahNext, JenisTerminal
  <1>2. CASE VersiTetap
    <2>1. DataRevisi' /\ TerminalAbadi  BY <1>0, <1>2, VersiTetapData
    <2>2. ASSUME NEW r, KlonSah(r) PROVE KlonSah(r)'
      <3>1. UNCHANGED versi  BY <1>2 DEF VersiTetap
      <3> QED  BY <2>1, <2>2, <3>1, KlonSahTetap DEF KlonSah
    <2> QED  BY <1>0, <2>1, <2>2, KlonTetap DEF RInv
  <1>3. ASSUME NEW s \in Sop, BuatSop(s) PROVE RInv'
    BY <1>0, <1>3, BuatSopData, BuatSopKlon, KlonTetap DEF RInv
  <1>4. ASSUME NEW p \in Proses, Klon(p) PROVE RInv'
    <2>1. DataRevisi' /\ TerminalAbadi  BY <1>0, <1>4, KlonData
    <2>2. \A q \in Proses : \A r \in Tx : r = tx[q] => KlonSah(r)'
      BY <1>0, <1>4, KlonKlon
    <2> QED  BY <1>0, <2>1, <2>2, KlonTetap DEF RInv
  <1>5. ASSUME NEW p \in Proses, Hapus(p) PROVE RInv'
    BY <1>0, <1>5, HapusData, HapusKlon, KlonTetap DEF RInv
  <1> QED  BY <1>1, <1>2, <1>3, <1>4, <1>5, LangkahVersi

LEMMA RevisiTunggal == KInv /\ RInv => SatuRevisiBerjalan
  <1> SUFFICES ASSUME KInv, RInv, NEW d \in Detail, NEW e \in Detail,
                      Ada(d), status[d] \notin Terminal,
                      Ada(e), status[e] \notin Terminal, d[1] = e[1]
               PROVE  d = e
    BY DEF SatuRevisiBerjalan
  <1>1. versi[d] \in Nat /\ versi[e] \in Nat  BY DEF KInv, IInv, TypeOK, DataOK
  <1>2. versi[d] <= versi[e] /\ versi[e] <= versi[d] /\ versi[d] > 0
    BY DEF RInv, DataRevisi, RevisiTerbaru, VersiAda
  <1>3. versi[d] = versi[e]  BY <1>1, <1>2
  <1> QED  BY <1>2, <1>3 DEF RInv, DataRevisi, VersiUnik

(***************************************************************************)
(* An SOP never has two versions on their way, however many revisions are  *)
(* started at once: the unique key stops the second although no step reads *)
(* the siblings and inserts at the same time.                              *)
(***************************************************************************)
THEOREM SatuRevisiTanpaKirimUlangBasi == Spec /\ KirimUlangSegar => []SatuRevisiBerjalan
  <1>1. Spec /\ KirimUlangSegar => []RInv
    BY UrutInvarian, InitRInv, NextRInv, PTL DEF Spec, KirimUlangSegar
  <1> QED  BY <1>1, RevisiTunggal, UrutInvarian, PTL

-----------------------------------------------------------------------------
(***************************************************************************)
(* Scores.  With the optimistic lock that isiNilai promises                *)
(* (NilaiTidakTertimpa) no score is written over a rejection: the          *)
(* rejection raises the version of every score.                            *)
(***************************************************************************)

\* The score read is not newer than the row, and older than a rejection.
NilaiDibaca(r) ==
    r.op = "ISI_NILAI" =>
        /\ r.dibaca.versi <= nilai[r.pg][r.d].versi
        /\ pengajuan[r.pg].st = "DITOLAK" => r.dibaca.versi < nilai[r.pg][r.d].versi

NInv == IInv /\ TolakBerartiDitolak /\ \A p \in Proses : NilaiDibaca(tx[p])

\* No score changes and no submission is rejected.
TanpaNilai ==
    /\ UNCHANGED nilai
    /\ \A pg \in Pengajuan :
          pengajuan'[pg].st \in {"SEDANG_DIEVALUASI", "DITOLAK"} =>
              pengajuan'[pg].st = pengajuan[pg].st

\* Which steps write scores, open a submission or reject one.
LEMMA LangkahBerNilai ==
    ASSUME IInv, [Next]_vars
    PROVE  \/ TanpaNilai
           \/ \E p \in Proses : \/ KirimUlang(p) \/ IsiNilai(p) \/ TindakLanjut(p)
                                \/ BuatPengajuan(p) \/ Tolak(p)
  <1>0. DataOK /\ \A p \in Proses : tx[p] \in Tx  BY DEF IInv, TypeOK
  <1>1. CASE UNCHANGED <<nilai, pengajuan>>
    BY <1>1 DEF TanpaNilai
  <1>2. ASSUME NEW p \in Proses,
               Selesai(p) \/ BaEvaluator(p) \/ BaPjPenyusun(p) \/ Finalisasi(p)
        PROVE  TanpaNilai
    <2>1. PICK st \in {"SELESAI_DIEVALUASI", "DITANDATANGANI_PJ_EVALUATOR",
                       "DITANDATANGANI_PJ_PENYUSUN", "SELESAI"} :
             pengajuan' = [pengajuan EXCEPT ![tx[p].pg] = Beralih(@, st)]
      BY <1>2, Zenon DEF Selesai, BaEvaluator, BaPjPenyusun, Finalisasi
    <2>2. UNCHANGED nilai
      BY <1>2 DEF Selesai, BaEvaluator, BaPjPenyusun, Finalisasi
    <2>3. \A k \in Pengajuan : pengajuan'[k] = pengajuan[k] \/ pengajuan'[k].st = st
      BY <1>0, <2>1 DEF DataOK, Beralih
    <2> QED  BY <2>1, <2>2, <2>3 DEF TanpaNilai
  <1>3. ASSUME NEW p \in Proses, CatalogNext(p)
        PROVE  UNCHANGED <<nilai, pengajuan>> \/ KirimUlang(p)
    BY <1>3 DEF CatalogNext, MulaiKlon, MulaiTransisi, MulaiCabut, MulaiKirimUlang, MulaiHapus,
                Klon, UbahStatus, BacaUmpanBalik, Hapus, Mulai, data
  <1>4. ASSUME NEW p \in Proses, EvaluasiNext(p)
        PROVE  \/ UNCHANGED <<nilai, pengajuan>> \/ Selesai(p)
               \/ IsiNilai(p) \/ TindakLanjut(p) \/ BuatPengajuan(p) \/ Tolak(p)
    BY <1>4, Zenon DEF EvaluasiNext, MulaiBuatPengajuan, MulaiIsiNilai, MulaiTindakLanjut,
                       MulaiSelesai, MulaiTolak, Mulai, data
  <1>5. ASSUME NEW p \in Proses, TteNext(p)
        PROVE  \/ UNCHANGED <<nilai, pengajuan>>
               \/ BaEvaluator(p) \/ BaPjPenyusun(p) \/ Finalisasi(p)
    BY <1>5 DEF TteNext, MulaiBaEvaluator, MulaiBaPjPenyusun, SiapkanPengesahan,
                MulaiFinalisasi, Mulai, data
  <1>6. ASSUME NEW p \in Proses, Batal(p) PROVE UNCHANGED <<nilai, pengajuan>>
    BY <1>6 DEF Batal, data
  <1>7. ASSUME NEW s \in Sop, BuatSop(s) PROVE UNCHANGED <<nilai, pengajuan>>
    BY <1>7 DEF BuatSop
  <1>8. CASE UNCHANGED vars
    BY <1>1, <1>8 DEF vars
  <1> QED  BY <1>1, <1>2, <1>3, <1>4, <1>5, <1>6, <1>7, <1>8, Zenon DEF Next

LEMMA BuatPengajuanNilai ==
    ASSUME IInv, NEW p \in Proses, BuatPengajuan(p)
    PROVE  \E pg \in Pengajuan :
             /\ pengajuan[pg] = TanpaPengajuan /\ Items(pg) = {}
             /\ pengajuan'[pg].st = "SEDANG_DIEVALUASI"
             /\ \A k \in Pengajuan \ {pg} : nilai'[k] = nilai[k] /\ pengajuan'[k] = pengajuan[k]
  <1> DEFINE baris == [d \in Detail |-> IF d \in tx[p].items THEN NilaiBaru ELSE BukanAnggota]
             baru == [st |-> "SEDANG_DIEVALUASI", opd |-> tx[p].opd, ver |-> 0]
  <1>1. PICK pg \in Pengajuan : /\ pengajuan[pg] = TanpaPengajuan
                               /\ pengajuan' = [pengajuan EXCEPT ![pg] = baru]
                               /\ nilai' = [nilai EXCEPT ![pg] = baris]
    BY DEF BuatPengajuan
  <1>2. Items(pg) = {}  BY <1>1 DEF IInv, PengajuanKosong
  <1> QED  BY <1>1, <1>2 DEF IInv, TypeOK, DataOK

\* A score row only gains versions, and a rejection gives it one.
LEMMA NilaiNaik ==
    ASSUME IInv, [Next]_vars, NEW pg \in Pengajuan, NEW d \in Items(pg)
    PROVE  /\ nilai[pg][d].versi \in Nat /\ nilai'[pg][d].versi \in Nat
           /\ nilai[pg][d].versi <= nilai'[pg][d].versi
           /\ pengajuan'[pg].st = "DITOLAK" /\ pengajuan[pg].st # "DITOLAK" =>
                 nilai[pg][d].versi < nilai'[pg][d].versi
  <1>0. DataOK /\ IInv' /\ DataOK' /\ d \in Detail
    BY NextIInv DEF IInv, TypeOK, Items
  <1>1. nilai[pg][d].versi \in Nat /\ nilai'[pg][d].versi \in Nat
    BY <1>0 DEF DataOK, BarisNilai, BukanAnggota
  <1>2. CASE TanpaNilai
    BY <1>1, <1>2 DEF TanpaNilai
  <1>3. ASSUME NEW p \in Proses, KirimUlang(p) \/ IsiNilai(p) \/ TindakLanjut(p)
        PROVE  /\ UNCHANGED pengajuan
               /\ nilai[pg][d].versi <= nilai'[pg][d].versi
    <2>1. UNCHANGED pengajuan  BY <1>3 DEF KirimUlang, IsiNilai, TindakLanjut
    <2>2. \/ nilai'[pg][d] = nilai[pg][d]
          \/ nilai'[pg][d].versi = nilai[pg][d].versi + 1
      BY <1>0, <1>3, NilaiBerubah
    <2> QED  BY <1>1, <2>1, <2>2
  <1>4. ASSUME NEW p \in Proses, BuatPengajuan(p)
        PROVE  nilai'[pg] = nilai[pg] /\ pengajuan'[pg] = pengajuan[pg]
    BY <1>4, BuatPengajuanNilai
  <1>5. ASSUME NEW p \in Proses, Tolak(p)
        PROVE  \/ nilai[pg][d].versi < nilai'[pg][d].versi
               \/ nilai'[pg] = nilai[pg] /\ pengajuan'[pg] = pengajuan[pg]
    <2>1. PICK k \in Pengajuan : k = tx[p].pg
      BY <1>5, BentukTx DEF IInv, TypeOK, Tolak, TxTolak
    <2>2. /\ k = pg => nilai'[pg][d].versi = nilai[pg][d].versi + 1
          /\ k # pg => nilai'[pg] = nilai[pg]
      BY <1>5, <2>1, TolakNilai
    <2>3. k # pg => pengajuan'[pg] = pengajuan[pg]
      BY <1>0, <1>5, <2>1 DEF Tolak, DataOK
    <2> QED  BY <1>1, <2>2, <2>3
  <1> QED  BY <1>1, <1>2, <1>3, <1>4, <1>5, LangkahBerNilai

LEMMA NilaiDibacaTetap ==
    ASSUME IInv, [Next]_vars, NEW r \in Tx, TxSah(r), NilaiDibaca(r)
    PROVE  NilaiDibaca(r)'
  <1> SUFFICES ASSUME r.op = "ISI_NILAI"
               PROVE  /\ r.dibaca.versi <= nilai'[r.pg][r.d].versi
                      /\ pengajuan'[r.pg].st = "DITOLAK" =>
                            r.dibaca.versi < nilai'[r.pg][r.d].versi
    BY DEF NilaiDibaca
  <1>1. r.pg \in Pengajuan /\ r.d \in Items(r.pg) /\ r.dibaca.versi \in Nat
    BY BentukTx DEF TxIsiNilai, TxSah, BarisNilai
  <1>2. /\ r.dibaca.versi <= nilai[r.pg][r.d].versi
        /\ pengajuan[r.pg].st = "DITOLAK" => r.dibaca.versi < nilai[r.pg][r.d].versi
    BY DEF NilaiDibaca
  <1>3. /\ nilai[r.pg][r.d].versi \in Nat /\ nilai'[r.pg][r.d].versi \in Nat
        /\ nilai[r.pg][r.d].versi <= nilai'[r.pg][r.d].versi
        /\ pengajuan'[r.pg].st = "DITOLAK" /\ pengajuan[r.pg].st # "DITOLAK" =>
              nilai[r.pg][r.d].versi < nilai'[r.pg][r.d].versi
    BY <1>1, NilaiNaik
  <1> QED  BY <1>1, <1>2, <1>3

\* A score is never filled in over a rejection.
LEMMA TolakTidakTertimpa ==
    ASSUME NInv, [TidakTertimpa]_vars, NEW p \in Proses, IsiNilai(p)
    PROVE  pengajuan[tx[p].pg].st # "DITOLAK"
  <1>0. DataOK /\ tx[p] \in Tx /\ TxSah(tx[p]) /\ NilaiDibaca(tx[p])
    BY DEF NInv, IInv, TypeOK, TransaksiSah
  <1>1. tx[p].op = "ISI_NILAI" /\ tx'[p] = Idle
    BY DEF IsiNilai, Rampung, NInv, IInv, TypeOK
  <1>2. tx[p].pg \in Pengajuan /\ tx[p].d \in Items(tx[p].pg) /\ tx[p].dibaca.versi \in Nat
    BY <1>0, <1>1, BentukTx DEF TxIsiNilai, TxSah, BarisNilai
  <1>3. tx' # tx  BY <1>1 DEF Idle
  <1>4. TidakTertimpa  BY <1>3 DEF vars
  <1>5. nilai' # nilai
    <2> DEFINE lama == nilai[tx[p].pg][tx[p].d]
               baru == [hasil |-> tx[p].hasil,
                        tl |-> TindakLanjutBaru(tx[p].hasil, tx[p].dibaca.tl, lama.tl),
                        versi |-> lama.versi + 1]
    <2>1. nilai' = [nilai EXCEPT ![tx[p].pg][tx[p].d] = baru]  BY Zenon DEF IsiNilai
    <2>2. lama.versi \in Nat
      BY <1>0, <1>2 DEF DataOK, Items, BarisNilai, BukanAnggota
    <2>3. baru # lama  BY <2>2
    <2> HIDE DEF baru
    <2> QED  BY <1>0, <1>2, <2>1, <2>3 DEF DataOK, Items
  <1>6. tx[p].dibaca.versi = nilai[tx[p].pg][tx[p].d].versi
    BY <1>1, <1>4, <1>5 DEF TidakTertimpa
  <1> QED  BY <1>0, <1>1, <1>2, <1>6 DEF NilaiDibaca

LEMMA NextTolak ==
    ASSUME NInv, [Next]_vars, [TidakTertimpa]_vars
    PROVE  TolakBerartiDitolak'
  <1>0. IInv /\ DataOK /\ \A p \in Proses : tx[p] \in Tx  BY DEF NInv, IInv, TypeOK
  <1> SUFFICES ASSUME NEW pg \in Pengajuan, pengajuan'[pg].st = "DITOLAK", NEW d \in Items(pg)'
               PROVE  nilai'[pg][d].hasil = "DITOLAK"
    BY DEF TolakBerartiDitolak
  <1>1. d \in Detail  BY DEF Items
  <1>2. CASE /\ pengajuan[pg].st = "DITOLAK" /\ nilai'[pg] = nilai[pg]
    <2>1. d \in Items(pg)  BY <1>2 DEF Items
    <2> QED  BY <1>2, <2>1 DEF NInv, TolakBerartiDitolak
  <1>3. CASE TanpaNilai
    BY <1>2, <1>3 DEF TanpaNilai
  <1>4. ASSUME NEW p \in Proses, KirimUlang(p) \/ IsiNilai(p) \/ TindakLanjut(p)
        PROVE  nilai'[pg][d].hasil = "DITOLAK"
    <2>1. pengajuan[pg].st = "DITOLAK"
      BY <1>4 DEF KirimUlang, IsiNilai, TindakLanjut
    <2>2. \/ nilai'[pg][d] = nilai[pg][d]
          \/ /\ d \in Items(pg)
             /\ \/ nilai'[pg][d].hasil = nilai[pg][d].hasil
                \/ IsiNilai(p) /\ pg = tx[p].pg
      BY <1>0, <1>1, <1>4, NilaiBerubah
    <2>3. d \in Items(pg)  BY <1>1, <2>2 DEF Items
    <2>4. ~(IsiNilai(p) /\ pg = tx[p].pg)  BY <2>1, TolakTidakTertimpa
    <2> QED  BY <2>1, <2>2, <2>3, <2>4 DEF NInv, TolakBerartiDitolak
  <1>5. ASSUME NEW p \in Proses, BuatPengajuan(p) PROVE nilai'[pg][d].hasil = "DITOLAK"
    <2>1. pengajuan'[pg] = pengajuan[pg] /\ nilai'[pg] = nilai[pg]
      BY <1>0, <1>5, BuatPengajuanNilai
    <2> QED  BY <1>2, <2>1
  <1>6. ASSUME NEW p \in Proses, Tolak(p) PROVE nilai'[pg][d].hasil = "DITOLAK"
    <2>1. PICK k \in Pengajuan : k = tx[p].pg
      BY <1>0, <1>6, BentukTx DEF Tolak, TxTolak
    <2>2. CASE k = pg
      BY <1>0, <1>6, <2>1, <2>2, TolakNilai
    <2>3. CASE k # pg
      <3>1. pengajuan'[pg] = pengajuan[pg]
        BY <1>0, <1>6, <2>1, <2>3 DEF Tolak, DataOK
      <3>2. nilai'[pg] = nilai[pg]
        BY <1>0, <1>6, <2>1, <2>3, TolakNilai
      <3> QED  BY <1>2, <3>1, <3>2
    <2> QED  BY <2>2, <2>3
  <1> QED  BY <1>0, <1>3, <1>4, <1>5, <1>6, LangkahBerNilai

LEMMA NextNilaiDibaca ==
    ASSUME NInv, IInv', [Next]_vars
    PROVE  (\A p \in Proses : NilaiDibaca(tx[p]))'
  <1>0. IInv /\ tx \in [Proses -> Tx] /\ tx' \in [Proses -> Tx] /\ DataOK
    BY DEF NInv, IInv, TypeOK
  <1>1. ASSUME NEW q \in Proses, tx'[q] = tx[q] PROVE NilaiDibaca(tx[q])'
    <2>1. TxSah(tx[q]) /\ NilaiDibaca(tx[q]) /\ tx[q] \in Tx
      BY <1>0 DEF NInv, IInv, TransaksiSah
    <2>2. \A r \in Tx : TxSah(r) /\ NilaiDibaca(r) => NilaiDibaca(r)'
      BY <1>0, NilaiDibacaTetap
    <2> QED  BY <1>1, <2>1, <2>2 DEF NilaiDibaca
  <1>2. ASSUME NEW p \in Proses, NEW r, TxBaru(p, r), NEW q \in Proses
        PROVE  NilaiDibaca(tx[q])'
    <2>1. tx'[p] = r /\ r \in Tx /\ (q # p => tx'[q] = tx[q])
      BY <1>0, <1>2 DEF TxBaru
    <2>2. CASE r.op = "ISI_NILAI"
      <3>1. PICK pg \in Pengajuan, d \in Detail, hasil \in {"SESUAI", "PERLU_PERBAIKAN"} :
               MulaiIsiNilai(p, pg, d, hasil)
        BY <1>2, <2>2 DEF TxBaru
      <3>2. /\ r = [op |-> "ISI_NILAI", pg |-> pg, d |-> d, hasil |-> hasil,
                    dibaca |-> nilai[pg][d]]
            /\ UNCHANGED data /\ pengajuan[pg].st = "SEDANG_DIEVALUASI"
        BY <1>0, <2>1, <3>1 DEF MulaiIsiNilai, Mulai
      <3>3. nilai[pg][d].versi \in Nat
        BY <1>0 DEF DataOK, BarisNilai, BukanAnggota
      <3>4. NilaiDibaca(r)'
        BY <3>2, <3>3 DEF NilaiDibaca, data
      <3> QED  BY <1>1, <2>1, <3>4 DEF NilaiDibaca
    <2>3. CASE r.op # "ISI_NILAI"
      BY <1>1, <2>1, <2>3 DEF NilaiDibaca
    <2> QED  BY <2>2, <2>3
  <1>3. ASSUME NEW s \in Sop, BuatSop(s) PROVE UNCHANGED tx
    BY <1>3 DEF BuatSop
  <1>4. CASE UNCHANGED vars
    BY <1>1, <1>4 DEF vars
  <1>5. CASE Next
    BY <1>0, <1>1, <1>2, <1>3, <1>5, LangkahTx, Zenon DEF Next
  <1> QED  BY <1>4, <1>5

LEMMA InitNInv == Init => NInv
  <1>1. Init => IInv  BY InitIInv
  <1>2. Init => TolakBerartiDitolak /\ \A p \in Proses : NilaiDibaca(tx[p])
    BY DEF Init, DataInit, TolakBerartiDitolak, NilaiDibaca, TanpaPengajuan, Idle
  <1> QED  BY <1>1, <1>2 DEF NInv

LEMMA NextNInv == NInv /\ [Next]_vars /\ [TidakTertimpa]_vars => NInv'
  <1> SUFFICES ASSUME NInv, [Next]_vars, [TidakTertimpa]_vars PROVE NInv'
    OBVIOUS
  <1>1. IInv'  BY NextIInv DEF NInv
  <1> QED  BY <1>1, NextTolak, NextNilaiDibaca DEF NInv

(***************************************************************************)
(* A rejection is final for every score of the submission, if isiNilai     *)
(* compares versions where it writes, as its contract says.                *)
(***************************************************************************)
THEOREM TolakTanpaTimpa == Spec /\ NilaiTidakTertimpa => []TolakBerartiDitolak
  <1>1. NInv => TolakBerartiDitolak  BY DEF NInv
  <1> QED  BY <1>1, InitNInv, NextNInv, PTL DEF Spec, NilaiTidakTertimpa

-----------------------------------------------------------------------------
(***************************************************************************)
(* The public PDF.  Finalisasi lists the versions in force in its snapshot *)
(* and replaces them later; a revocation in between would be read by one   *)
(* half of the step and missed by the other.                               *)
(***************************************************************************)

\* The versions of the SOPs of the batch that the snapshot took to be in force still are.
FinalSelaras(r) ==
    r.op = "FINALISASI" =>
        /\ pengajuan[r.pg].st \in {"DITANDATANGANI_PJ_PENYUSUN", "SELESAI"}
        /\ pengajuan[r.pg].st = "DITANDATANGANI_PJ_PENYUSUN" =>
              \A t \in Items(r.pg), d \in Detail :
                  d[1] = t[1] => (d \in r.berlaku <=> status[d] = "BERLAKU")

PInv == PdfSelarasStatus /\ \A p \in Proses : FinalSelaras(tx[p])

PernahBerlaku == {"BERLAKU", "DIGANTIKAN", "DICABUT"}

\* No version enters or leaves force; a document is at most created.
TanpaPengesahan ==
    /\ \A d \in Detail : pdf'[d] = pdf[d] \/ (pdf[d] = "TANPA" /\ pdf'[d] = "SIAP")
    /\ \A d \in Detail : \/ status'[d] = status[d]
                         \/ status[d] \notin PernahBerlaku /\ status'[d] \notin PernahBerlaku

LEMMA LangkahPdf ==
    ASSUME KInv, [Next]_vars, [TiadaKirimUlangBasi]_vars
    PROVE  TanpaPengesahan \/ \E p \in Proses : UbahStatus(p) \/ Finalisasi(p)
  <1>0. DataOK  BY DEF KInv, IInv, TypeOK
  <1>1. CASE UNCHANGED <<status, pdf>>
    BY <1>1 DEF TanpaPengesahan
  <1>2. ASSUME UNCHANGED pdf, DiLuarPengajuan,
               \A d \in Detail : status'[d] = "DICABUT" => status[d] = "DICABUT"
        PROVE  TanpaPengesahan
    BY <1>2 DEF TanpaPengesahan, DiLuarPengajuan, Selepas, Terminal, PernahBerlaku
  <1>3. ASSUME UNCHANGED pdf, NEW pg \in Pengajuan, Dibuka(pg) \/ Dimajukan(pg)
        PROVE  TanpaPengesahan
    <2>1. CASE Dibuka(pg)
      BY <1>3, <2>1 DEF TanpaPengesahan, Dibuka, PernahBerlaku
    <2>2. CASE Dimajukan(pg)
      BY <1>3, <2>2 DEF TanpaPengesahan, Dimajukan, Berpindah, DapatDinilai, PernahBerlaku
    <2> QED  BY <1>3, <2>1, <2>2
  <1>4. ASSUME NEW s \in Sop, BuatSop(s) PROVE TanpaPengesahan
    <2>1. UNCHANGED pdf /\ status' = [status EXCEPT ![<<s, 1>>] = "DRAFT"]
      BY <1>4 DEF BuatSop
    <2>2. DiLuarPengajuan  BY <1>4, LangkahBuatSop
    <2> QED  BY <1>0, <1>2, <2>1, <2>2 DEF DataOK
  <1>5. ASSUME NEW p \in Proses, Klon(p) \/ Hapus(p) PROVE TanpaPengesahan
    <2>1. PICK d : \E st \in {"DRAFT", "DIHAPUS"} : status' = [status EXCEPT ![d] = st]
      BY <1>5, Zenon DEF Klon, Hapus
    <2>2. UNCHANGED pdf  BY <1>5 DEF Klon, Hapus
    <2>3. DiLuarPengajuan  BY <1>5, LangkahKatalog
    <2> QED  BY <1>0, <1>2, <2>1, <2>2, <2>3 DEF DataOK
  <1>6. ASSUME NEW p \in Proses, KirimUlang(p) \/ IsiNilai(p) \/ TindakLanjut(p),
               TiadaKirimUlangBasi
        PROVE  TanpaPengesahan
    <2>1. UNCHANGED pdf  BY <1>6 DEF KirimUlang, IsiNilai, TindakLanjut
    <2>2. DiLuarPengajuan  BY <1>6, LangkahNilai
    <2>3. \A d \in Detail : status'[d] = "DICABUT" => status[d] = "DICABUT"
      BY <1>6, NilaiBerubah DEF KInv
    <2> QED  BY <1>2, <2>1, <2>2, <2>3
  <1>7. ASSUME NEW p \in Proses, \/ BuatPengajuan(p) \/ Selesai(p) \/ Tolak(p)
                                 \/ BaEvaluator(p) \/ BaPjPenyusun(p)
        PROVE  TanpaPengesahan
    <2>1. UNCHANGED pdf
      BY <1>7 DEF BuatPengajuan, Selesai, Tolak, BaEvaluator, BaPjPenyusun
    <2>2. \E pg \in Pengajuan : Dibuka(pg) \/ Dimajukan(pg)
      BY <1>7, LangkahBuatPengajuan, LangkahSelesai, LangkahTolak, LangkahBeritaAcara
    <2> QED  BY <1>3, <2>1, <2>2
  <1>8. ASSUME NEW p \in Proses, NEW pg \in Pengajuan, SiapkanPengesahan(p, pg)
        PROVE  TanpaPengesahan
    BY <1>8 DEF SiapkanPengesahan, TanpaPengesahan
  <1>9. ASSUME NEW p \in Proses, CatalogNext(p)
        PROVE  \/ UNCHANGED <<status, pdf>>
               \/ Klon(p) \/ UbahStatus(p) \/ KirimUlang(p) \/ Hapus(p)
    BY <1>9 DEF CatalogNext, MulaiKlon, MulaiTransisi, MulaiCabut, MulaiKirimUlang, MulaiHapus,
                BacaUmpanBalik, Mulai, data
  <1>10. ASSUME NEW p \in Proses, EvaluasiNext(p)
         PROVE  \/ UNCHANGED <<status, pdf>>
                \/ BuatPengajuan(p) \/ IsiNilai(p) \/ TindakLanjut(p) \/ Selesai(p) \/ Tolak(p)
    BY <1>10, Zenon DEF EvaluasiNext, MulaiBuatPengajuan, MulaiIsiNilai, MulaiTindakLanjut,
                        MulaiSelesai, MulaiTolak, Mulai, data
  <1>11. ASSUME NEW p \in Proses, TteNext(p)
         PROVE  \/ UNCHANGED <<status, pdf>>
                \/ \E pg \in Pengajuan : SiapkanPengesahan(p, pg)
                \/ BaEvaluator(p) \/ BaPjPenyusun(p) \/ Finalisasi(p)
    BY <1>11, Zenon DEF TteNext, MulaiBaEvaluator, MulaiBaPjPenyusun, MulaiFinalisasi, Mulai, data
  <1>12. ASSUME NEW p \in Proses, Batal(p) PROVE UNCHANGED <<status, pdf>>
    BY <1>12 DEF Batal, data
  <1>13. CASE UNCHANGED vars
    BY <1>1, <1>13 DEF vars
  <1>14. CASE Next /\ TiadaKirimUlangBasi
    BY <1>1, <1>4, <1>5, <1>6, <1>7, <1>8, <1>9, <1>10, <1>11, <1>12, <1>14, Zenon DEF Next
  <1> QED  BY <1>13, <1>14

\* A revocation marks the PDF that was published; other changes of status leave it.
LEMMA UbahStatusPdf ==
    ASSUME KInv, PdfSelarasStatus, NEW p \in Proses, UbahStatus(p)
    PROVE  /\ PdfSelarasStatus'
           /\ \A d \in Detail : (status'[d] = "BERLAKU") # (status[d] = "BERLAKU") =>
                 d = tx[p].d /\ tx[p].ke = "DICABUT"
  <1>0. DataOK /\ tx[p] \in Tx /\ TxKini(tx[p])  BY DEF KInv, IInv, TypeOK, Kini
  <1>1. PICK d \in Detail : d = tx[p].d
    BY <1>0, BentukTx DEF UbahStatus, TxUbahStatus
  <1>2. <<status[d], tx[p].ke>> \in TabelTransisi
    BY <1>0, <1>1 DEF UbahStatus, TxKini
  <1>3. \/ status[d] = "BERLAKU" /\ tx[p].ke = "DICABUT"
        \/ status[d] \notin PernahBerlaku /\ tx[p].ke \notin PernahBerlaku
    BY <1>2 DEF TabelTransisi, PernahBerlaku
  <1>4. /\ status'[d] = tx[p].ke
        /\ pdf'[d] = IF tx[p].ke = "DICABUT" /\ pdf[d] # "TANPA" THEN "REVOKED" ELSE pdf[d]
        /\ \A e \in Detail \ {d} : status'[e] = status[e] /\ pdf'[e] = pdf[e]
    BY <1>0, <1>1 DEF UbahStatus, DataOK
  <1>5. status[d] = "BERLAKU" => pdf[d] = "PUBLISHED"  BY DEF PdfSelarasStatus
  <1>6. PdfSelarasStatus'
    BY <1>3, <1>4, <1>5 DEF PdfSelarasStatus, PernahBerlaku
  <1> QED  BY <1>1, <1>3, <1>4, <1>6 DEF PernahBerlaku

\* What the snapshot listed is what the update replaces.
LEMMA FinalisasiPdf ==
    ASSUME KInv, PInv, NEW p \in Proses, Finalisasi(p)
    PROVE  PdfSelarasStatus'
  <1>0. DataOK /\ tx[p] \in Tx /\ FinalSelaras(tx[p])  BY DEF KInv, IInv, TypeOK, PInv
  <1>1. PICK pg \in Pengajuan : pg = tx[p].pg
    BY <1>0, BentukTx DEF Finalisasi, TxFinalisasi
  <1> DEFINE lama == {e \in tx[p].berlaku : pdf[e] # "TANPA"}
  <1>2. tx[p].op = "FINALISASI" /\ pengajuan[pg].st = "DITANDATANGANI_PJ_PENYUSUN"
    BY <1>1 DEF Finalisasi
  <1>3. PICK urutan \in SUBSET Items(pg) :
           /\ status' = [d \in Detail |->
                 IF d \in urutan THEN "BERLAKU"
                 ELSE IF Digantikan(d, Items(pg), urutan, StatusBerlaku) THEN "DIGANTIKAN"
                 ELSE status[d]]
           /\ pdf' = [d \in Detail |->
                 IF d \in urutan THEN "PUBLISHED"
                 ELSE IF Digantikan(d, Items(pg), urutan, lama) THEN "SUPERSEDED"
                 ELSE pdf[d]]
    BY <1>1 DEF Finalisasi
  <1>4. ASSUME NEW d \in Detail
        PROVE  Digantikan(d, Items(pg), urutan, StatusBerlaku)
                  <=> Digantikan(d, Items(pg), urutan, lama)
    <2>1. CASE \E t \in Items(pg) : t[1] = d[1]
      <3>1. d \in tx[p].berlaku <=> status[d] = "BERLAKU"
        BY <1>0, <1>1, <1>2, <2>1 DEF FinalSelaras
      <3>2. status[d] = "BERLAKU" => pdf[d] # "TANPA"
        BY DEF PInv, PdfSelarasStatus
      <3> QED  BY <3>1, <3>2 DEF Digantikan, StatusBerlaku
    <2>2. CASE ~\E t \in Items(pg) : t[1] = d[1]
      BY <2>2 DEF Digantikan
    <2> QED  BY <2>1, <2>2
  <1> HIDE DEF lama
  <1>5. ASSUME NEW d \in Detail
        PROVE  \/ status'[d] = "BERLAKU" /\ pdf'[d] = "PUBLISHED"
               \/ status'[d] = "DIGANTIKAN" /\ pdf'[d] = "SUPERSEDED"
               \/ status'[d] = status[d] /\ pdf'[d] = pdf[d]
    BY <1>3, <1>4
  <1> QED  BY <1>5 DEF PInv, PdfSelarasStatus

\* A final transaction goes on beside any step but a revocation of one of its SOPs.
LEMMA FinalSelarasTetap ==
    ASSUME KInv, KInv', SatuRevisiBerjalan, PInv, JenisLangkah, [Next]_vars,
           [TiadaKirimUlangBasi]_vars, [TiadaCabutMenyela]_vars,
           NEW q \in Proses, NEW r \in Tx, r = tx[q]
    PROVE  FinalSelaras(r)'
  <1> SUFFICES ASSUME r.op = "FINALISASI"
               PROVE  FinalSelaras(r)'
    BY DEF FinalSelaras
  <1>0. DataOK /\ DataUrut  BY DEF KInv, IInv, TypeOK
  <1>1. PICK pg \in Pengajuan : pg = r.pg
    BY BentukTx DEF TxFinalisasi
  <1>2. /\ pengajuan[pg].st \in {"DITANDATANGANI_PJ_PENYUSUN", "SELESAI"}
        /\ pengajuan[pg].st = "DITANDATANGANI_PJ_PENYUSUN" =>
              \A t \in Items(pg), d \in Detail :
                  d[1] = t[1] => (d \in r.berlaku <=> status[d] = "BERLAKU")
    BY <1>1 DEF PInv, FinalSelaras
  <1>3. /\ pengajuan'[pg].st \in {"DITANDATANGANI_PJ_PENYUSUN", "SELESAI"}
        /\ pengajuan'[pg].st = "DITANDATANGANI_PJ_PENYUSUN" =>
              pengajuan[pg].st = "DITANDATANGANI_PJ_PENYUSUN"
        /\ Items(pg)' = Items(pg)
    <2>1. CASE pengajuan'[pg] = pengajuan[pg] /\ Items(pg)' = Items(pg)
      BY <1>2, <2>1
    <2>2. CASE Dibuka(pg)
      BY <1>2, <2>2 DEF Dibuka, TanpaPengajuan
    <2>3. CASE Dimajukan(pg) \/ Disahkan(pg)
      BY <1>2, <2>3 DEF Dimajukan, Berpindah, Disahkan
    <2> QED  BY <2>1, <2>2, <2>3 DEF JenisLangkah, DiLuarPengajuan, Dibuka, Dimajukan,
                                     Berpindah, Disahkan, LainTetap
  <1>4. ASSUME pengajuan'[pg].st = "DITANDATANGANI_PJ_PENYUSUN",
               NEW t \in Items(pg), NEW d \in Detail, d[1] = t[1]
        PROVE  status'[d] = "BERLAKU" <=> status[d] = "BERLAKU"
    <2>0. pengajuan[pg].st = "DITANDATANGANI_PJ_PENYUSUN"  BY <1>3, <1>4
    <2>1. CASE TanpaPengesahan
      BY <2>1 DEF TanpaPengesahan, PernahBerlaku
    <2>2. ASSUME NEW p \in Proses, UbahStatus(p)
          PROVE  status'[d] = "BERLAKU" <=> status[d] = "BERLAKU"
      <3>1. d # tx[p].d \/ tx[p].ke # "DICABUT"
        <4>1. tx'[p] # tx[p]
          BY <2>2 DEF UbahStatus, Rampung, KInv, IInv, TypeOK, Idle
        <4>2. TiadaCabutMenyela  BY <4>1 DEF vars
        <4> QED  BY <1>1, <1>4, <2>2, <4>2 DEF TiadaCabutMenyela
      <3>2. (status'[d] = "BERLAKU") # (status[d] = "BERLAKU") =>
                d = tx[p].d /\ tx[p].ke = "DICABUT"
        BY <2>2, UbahStatusPdf DEF PInv
      <3> QED  BY <3>1, <3>2
    <2>3. ASSUME NEW p \in Proses, Finalisasi(p)
          PROVE  status'[d] = status[d]
      <3>1. PICK k \in Pengajuan : k = tx[p].pg
        BY <2>3, BentukTx DEF KInv, IInv, TypeOK, Finalisasi, TxFinalisasi
      <3>2. /\ pengajuan[k].st = "DITANDATANGANI_PJ_PENYUSUN"
            /\ pengajuan'[k].st = "SELESAI"
        BY <1>0, <2>3, <3>1 DEF Finalisasi, DataOK, Beralih
      <3>3. k # pg  BY <1>4, <3>2
      <3>4. ASSUME NEW u \in Items(k) PROVE u[1] # d[1]
        <4>1. /\ status[t] = "DIVERIFIKASI_PJ_EVALUATOR_ORGANISASI"
              /\ status[u] = "DIVERIFIKASI_PJ_EVALUATOR_ORGANISASI"
              /\ t \in Detail /\ u \in Detail
          BY <1>0, <2>0, <3>2 DEF DataUrut, PengajuanDapatDitandatangani, Items
        <4>2. u[1] = t[1] => u = t
          BY <4>1 DEF SatuRevisiBerjalan, Ada, StatusSOP, Terminal
        <4>3. u # t
          BY <1>0, <2>0, <3>2, <3>3, ItemMilikSatu DEF Aktif, PengajuanAktif
        <4> QED  BY <1>4, <4>2, <4>3
      <3>5. PICK urutan \in SUBSET Items(k) :
               status' = [e \in Detail |->
                  IF e \in urutan THEN "BERLAKU"
                  ELSE IF Digantikan(e, Items(k), urutan, StatusBerlaku) THEN "DIGANTIKAN"
                  ELSE status[e]]
        BY <2>3, <3>1 DEF Finalisasi
      <3>6. d \notin urutan /\ ~Digantikan(d, Items(k), urutan, StatusBerlaku)
        BY <3>4 DEF Digantikan
      <3> QED  BY <3>5, <3>6
    <2> QED  BY <2>1, <2>2, <2>3, LangkahPdf
  <1> QED  BY <1>1, <1>2, <1>3, <1>4 DEF FinalSelaras

LEMMA NextPInv ==
    /\ KInv /\ KInv' /\ SatuRevisiBerjalan /\ PInv
    /\ [Next]_vars /\ [TiadaKirimUlangBasi]_vars /\ [TiadaCabutMenyela]_vars
    => PInv'
  <1> SUFFICES ASSUME KInv, KInv', SatuRevisiBerjalan, PInv, [Next]_vars,
                      [TiadaKirimUlangBasi]_vars, [TiadaCabutMenyela]_vars
               PROVE  PInv'
    OBVIOUS
  <1>0. /\ IInv /\ JenisLangkah
        /\ tx \in [Proses -> Tx] /\ tx' \in [Proses -> Tx]
    BY LangkahNext DEF KInv, IInv, TypeOK
  <1>1. PdfSelarasStatus'
    <2>1. CASE TanpaPengesahan
      BY <2>1 DEF TanpaPengesahan, PInv, PdfSelarasStatus, PernahBerlaku
    <2> QED  BY <2>1, LangkahPdf, UbahStatusPdf, FinalisasiPdf DEF PInv
  <1>2. \A q \in Proses, r \in Tx : r = tx[q] => FinalSelaras(r)'
    BY <1>0, FinalSelarasTetap
  <1>3. ASSUME NEW q \in Proses, tx'[q] = tx[q] PROVE FinalSelaras(tx[q])'
    <2>1. PICK r \in Tx : r = tx[q] /\ r = tx'[q]  BY <1>0, <1>3
    <2> QED  BY <1>2, <2>1 DEF FinalSelaras
  <1>4. ASSUME NEW p \in Proses, NEW r, TxBaru(p, r), NEW q \in Proses
        PROVE  FinalSelaras(tx[q])'
    <2>1. tx'[p] = r /\ (q # p => tx'[q] = tx[q])  BY <1>0, <1>4 DEF TxBaru
    <2>2. CASE r.op = "FINALISASI"
      <3>1. MulaiFinalisasi(p)  BY <1>4, <2>2 DEF TxBaru
      <3>2. /\ r.pg = tx[p].pg /\ r.berlaku = StatusBerlaku
            /\ pengajuan[tx[p].pg].st = "DITANDATANGANI_PJ_PENYUSUN"
            /\ UNCHANGED data
        BY <1>0, <2>1, <3>1 DEF MulaiFinalisasi, SiapDisahkan, Mulai
      <3>3. FinalSelaras(r)'
        BY <3>2 DEF FinalSelaras, StatusBerlaku, data
      <3> QED  BY <1>3, <2>1, <3>3 DEF FinalSelaras
    <2>3. CASE r.op # "FINALISASI"
      BY <1>3, <2>1, <2>3 DEF FinalSelaras
    <2> QED  BY <2>2, <2>3
  <1>5. ASSUME NEW s \in Sop, BuatSop(s) PROVE UNCHANGED tx
    BY <1>5 DEF BuatSop
  <1>6. ASSUME UNCHANGED vars PROVE (\A q \in Proses : FinalSelaras(tx[q]))'
    BY <1>3, <1>6 DEF vars
  <1>7. ASSUME Next PROVE (\A q \in Proses : FinalSelaras(tx[q]))'
    BY <1>0, <1>3, <1>4, <1>5, <1>7, LangkahTx, Zenon DEF Next
  <1>8. (\A q \in Proses : FinalSelaras(tx[q]))'
    BY <1>6, <1>7
  <1> QED  BY <1>1, <1>8 DEF PInv

LEMMA InitPInv == Init => PInv
  BY DEF Init, DataInit, PInv, PdfSelarasStatus, FinalSelaras, Idle

(***************************************************************************)
(* The public PDF tells the fate of its version through any number of      *)
(* batches signed at once: two batches never have an SOP in common, so the *)
(* only thing that could make the list of replaced versions stale is a     *)
(* revocation.                                                             *)
(***************************************************************************)
THEOREM PdfTanpaCabutMenyela ==
    Spec /\ KirimUlangSegar /\ CabutSendiri => []PdfSelarasStatus
  <1>2. Spec /\ KirimUlangSegar /\ CabutSendiri => []PInv
    BY InitPInv, UrutInvarian, SatuRevisiTanpaKirimUlangBasi, NextPInv, PTL
    DEF Spec, KirimUlangSegar, CabutSendiri
  <1>3. PInv => PdfSelarasStatus  BY DEF PInv
  <1> QED  BY <1>2, <1>3, PTL

-----------------------------------------------------------------------------
(***************************************************************************)
(* Finishing an evaluation.  selesai sees every score SESUAI in its        *)
(* snapshot and commits later without another look at the scores; isiNilai *)
(* does not look again at the submission.                                  *)
(***************************************************************************)

\* While the evaluation goes on, what is being finished has every score SESUAI.
SelesaiSesuai(r) ==
    r.op = "SELESAI" /\ pengajuan[r.pg].st = "SEDANG_DIEVALUASI" =>
        \A d \in Items(r.pg) : nilai[r.pg][d].hasil = "SESUAI"

SInv == SelesaiBerartiSesuai /\ \A p \in Proses : SelesaiSesuai(tx[p])

\* The steps between the evaluation and the archive.
Usai == PengajuanAktif \ {"SEDANG_DIEVALUASI"}

\* Only selesai takes a submission out of evaluation and on to the signatures.
LEMMA LangkahUsai ==
    ASSUME KInv, [Next]_vars, NEW pg \in Pengajuan, pengajuan'[pg].st \in Usai
    PROVE  \/ pengajuan[pg].st \in Usai
           \/ \E p \in Proses : Selesai(p) /\ tx[p].pg = pg
  <1>0. DataOK /\ IInv /\ \A p \in Proses : tx[p] \in Tx /\ TxKini(tx[p])
    BY DEF KInv, IInv, TypeOK, Kini
  <1>1. CASE pengajuan'[pg] = pengajuan[pg]
    BY <1>1
  <1>2. ASSUME NEW p \in Proses, BuatPengajuan(p) PROVE pengajuan'[pg] = pengajuan[pg]
    BY <1>0, <1>2, BuatPengajuanNilai DEF Usai
  <1>3. ASSUME NEW p \in Proses, Tolak(p) \/ Finalisasi(p)
        PROVE  pengajuan'[pg] = pengajuan[pg]
    BY <1>0, <1>3 DEF Tolak, Finalisasi, DataOK, Beralih, Usai, PengajuanAktif
  <1>4. ASSUME NEW p \in Proses, Selesai(p)
        PROVE  pengajuan'[pg] = pengajuan[pg] \/ tx[p].pg = pg
    BY <1>0, <1>4 DEF Selesai, DataOK
  <1>5. ASSUME NEW p \in Proses, BaEvaluator(p) \/ BaPjPenyusun(p)
        PROVE  pengajuan[pg].st \in Usai \/ pengajuan'[pg] = pengajuan[pg]
    BY <1>0, <1>5 DEF BaEvaluator, BaPjPenyusun, TxKini, DataOK, Usai, PengajuanAktif
  <1>6. ASSUME NEW p \in Proses, CatalogNext(p) PROVE UNCHANGED pengajuan
    BY <1>6 DEF CatalogNext, MulaiKlon, MulaiTransisi, MulaiCabut, MulaiKirimUlang, MulaiHapus,
                Klon, UbahStatus, BacaUmpanBalik, KirimUlang, Hapus, Mulai, data
  <1>7. ASSUME NEW p \in Proses, EvaluasiNext(p)
        PROVE  UNCHANGED pengajuan \/ BuatPengajuan(p) \/ Tolak(p) \/ Selesai(p)
    BY <1>7, Zenon DEF EvaluasiNext, MulaiBuatPengajuan, MulaiIsiNilai, MulaiTindakLanjut,
                       MulaiSelesai, MulaiTolak, IsiNilai, TindakLanjut, Mulai, data
  <1>8. ASSUME NEW p \in Proses, TteNext(p)
        PROVE  UNCHANGED pengajuan \/ BaEvaluator(p) \/ BaPjPenyusun(p) \/ Finalisasi(p)
    BY <1>8 DEF TteNext, MulaiBaEvaluator, MulaiBaPjPenyusun, SiapkanPengesahan,
                MulaiFinalisasi, Mulai, data
  <1>9. ASSUME NEW p \in Proses, Batal(p) PROVE UNCHANGED pengajuan
    BY <1>9 DEF Batal, data
  <1>10. ASSUME NEW s \in Sop, BuatSop(s) PROVE UNCHANGED pengajuan
    BY <1>10 DEF BuatSop
  <1>11. CASE UNCHANGED vars
    BY <1>1, <1>11 DEF vars
  <1> QED  BY <1>1, <1>2, <1>3, <1>4, <1>5, <1>6, <1>7, <1>8, <1>9, <1>10, <1>11, Zenon DEF Next

\* A step keeps every score SESUAI of a submission, or writes a remark to be fixed there.
LEMMA SesuaiTetap ==
    ASSUME IInv, [Next]_vars, NEW pg \in Pengajuan, pengajuan[pg] # TanpaPengajuan,
           pengajuan'[pg].st # "DITOLAK",
           \A d \in Items(pg) : nilai[pg][d].hasil = "SESUAI"
    PROVE  \/ \A d \in Items(pg)' : nilai'[pg][d].hasil = "SESUAI"
           \/ \E p \in Proses : /\ IsiNilai(p) /\ tx[p].hasil = "PERLU_PERBAIKAN"
                                /\ tx[p].pg = pg
  <1>0. DataOK /\ \A p \in Proses : tx[p] \in Tx  BY DEF IInv, TypeOK
  <1>1. CASE nilai'[pg] = nilai[pg]
    BY <1>1 DEF Items
  <1>2. ASSUME NEW p \in Proses, KirimUlang(p) \/ IsiNilai(p) \/ TindakLanjut(p),
               ~(IsiNilai(p) /\ tx[p].hasil = "PERLU_PERBAIKAN" /\ tx[p].pg = pg),
               NEW d \in Items(pg)'
        PROVE  nilai'[pg][d].hasil = "SESUAI"
    <2>1. d \in Detail  BY DEF Items
    <2>2. \/ nilai'[pg][d] = nilai[pg][d]
          \/ /\ d \in Items(pg)
             /\ \/ nilai'[pg][d].hasil = nilai[pg][d].hasil
                \/ IsiNilai(p) /\ pg = tx[p].pg /\ nilai'[pg][d].hasil = tx[p].hasil
      BY <1>2, <2>1, NilaiBerubah
    <2>3. d \in Items(pg)  BY <2>1, <2>2 DEF Items
    <2>4. IsiNilai(p) => tx[p].hasil \in {"SESUAI", "PERLU_PERBAIKAN"}
      BY <1>0, BentukTx DEF IsiNilai, TxIsiNilai
    <2> QED  BY <1>2, <2>2, <2>3, <2>4
  <1>3. ASSUME NEW p \in Proses, BuatPengajuan(p) PROVE nilai'[pg] = nilai[pg]
    BY <1>3, BuatPengajuanNilai
  <1>4. ASSUME NEW p \in Proses, Tolak(p) PROVE nilai'[pg] = nilai[pg]
    <2>1. PICK k \in Pengajuan : k = tx[p].pg
      BY <1>0, <1>4, BentukTx DEF Tolak, TxTolak
    <2>2. pengajuan'[k].st = "DITOLAK"
      BY <1>0, <1>4, <2>1 DEF Tolak, DataOK, Beralih
    <2>3. k # pg  BY <2>2
    <2> QED  BY <1>4, <2>1, <2>3, TolakNilai
  <1>5. CASE TanpaNilai
    BY <1>1, <1>5 DEF TanpaNilai
  <1> QED  BY <1>1, <1>2, <1>3, <1>4, <1>5, LangkahBerNilai

LEMMA NextSelesai ==
    ASSUME KInv, SInv, [Next]_vars, [TiadaNilaiMenyela]_vars
    PROVE  SelesaiBerartiSesuai'
  <1>0. IInv /\ DataOK /\ tx \in [Proses -> Tx]  BY DEF KInv, IInv, TypeOK
  <1> SUFFICES ASSUME NEW pg \in Pengajuan, pengajuan'[pg].st \in Usai
               PROVE  \A d \in Items(pg)' : nilai'[pg][d].hasil = "SESUAI"
    BY DEF SelesaiBerartiSesuai, Usai
  <1>1. pengajuan[pg] # TanpaPengajuan /\ \A d \in Items(pg) : nilai[pg][d].hasil = "SESUAI"
    <2>1. CASE pengajuan[pg].st \in Usai
      BY <2>1 DEF Usai, PengajuanAktif, TanpaPengajuan, SInv, SelesaiBerartiSesuai
    <2>2. ASSUME NEW p \in Proses, Selesai(p), tx[p].pg = pg
          PROVE  /\ pengajuan[pg] # TanpaPengajuan
                 /\ \A d \in Items(pg) : nilai[pg][d].hasil = "SESUAI"
      <3>1. pengajuan[pg] # TanpaPengajuan
        BY <2>2 DEF KInv, IInv, TransaksiSah, TxSah, Selesai
      <3>2. pengajuan[pg].st = "SEDANG_DIEVALUASI" \/ pengajuan[pg].st \in Usai
        <4>1. PICK d \in Items(pg) : status[d] \in DapatDinilai
          BY <2>2 DEF Selesai, SemuaDapatDinilai, KInv, Kini, TxKini
        <4>2. status[d] \notin Selepas
          BY <4>1 DEF DapatDinilai, Selepas, Terminal
        <4>3. pengajuan[pg].st \in {"TIDAK_ADA", "SEDANG_DIEVALUASI"}
          BY <4>2 DEF KInv, DataUrut, ItemSelepas
        <4> QED  BY <1>0, <3>1, <4>3 DEF DataOK, StatusPengajuan
      <3> QED  BY <2>1, <2>2, <3>1, <3>2 DEF SInv, SelesaiSesuai, Selesai
    <2> QED  BY <2>1, <2>2, LangkahUsai
  <1>2. ASSUME NEW p \in Proses, IsiNilai(p), tx[p].hasil = "PERLU_PERBAIKAN", tx[p].pg = pg
        PROVE  FALSE
    <2>1. tx' # tx  BY <1>0, <1>2 DEF IsiNilai, Rampung, Idle
    <2>2. TiadaNilaiMenyela  BY <2>1 DEF vars
    <2>3. pengajuan[pg].st = "SEDANG_DIEVALUASI"  BY <1>2, <2>2 DEF TiadaNilaiMenyela
    <2>4. UNCHANGED pengajuan  BY <1>2 DEF IsiNilai
    <2> QED  BY <2>3, <2>4 DEF Usai
  <1>3. pengajuan'[pg].st # "DITOLAK"  BY DEF Usai, PengajuanAktif
  <1> QED  BY <1>0, <1>1, <1>2, <1>3, SesuaiTetap

\* What is being finished keeps its scores as long as the evaluation goes on.
LEMMA SelesaiSesuaiTetap ==
    ASSUME KInv, SInv, [Next]_vars, [TiadaNilaiMenyela]_vars,
           NEW q \in Proses, NEW r \in Tx, r = tx[q]
    PROVE  SelesaiSesuai(r)'
  <1> SUFFICES ASSUME r.op = "SELESAI", pengajuan'[r.pg].st = "SEDANG_DIEVALUASI"
               PROVE  \A d \in Items(r.pg)' : nilai'[r.pg][d].hasil = "SESUAI"
    BY DEF SelesaiSesuai
  <1>0. IInv /\ DataOK /\ tx \in [Proses -> Tx]  BY DEF KInv, IInv, TypeOK
  <1>1. PICK pg \in Pengajuan : pg = r.pg
    BY BentukTx DEF TxPengajuan
  <1>2. pengajuan[pg] # TanpaPengajuan
    BY <1>1 DEF KInv, IInv, TransaksiSah, TxSah
  <1>3. pengajuan[pg].st = "SEDANG_DIEVALUASI"
    <2>1. CASE TanpaNilai
      BY <1>1, <2>1 DEF TanpaNilai
    <2>2. ASSUME NEW p \in Proses, \/ KirimUlang(p) \/ IsiNilai(p) \/ TindakLanjut(p)
                                   \/ BuatPengajuan(p) \/ Tolak(p)
          PROVE  pengajuan'[pg] = pengajuan[pg]
      <3>1. CASE BuatPengajuan(p)
        BY <1>0, <1>2, <3>1, BuatPengajuanNilai
      <3>2. CASE Tolak(p)
        BY <1>0, <1>1, <3>2 DEF Tolak, DataOK, Beralih
      <3>3. CASE KirimUlang(p) \/ IsiNilai(p) \/ TindakLanjut(p)
        BY <3>3 DEF KirimUlang, IsiNilai, TindakLanjut
      <3> QED  BY <2>2, <3>1, <3>2, <3>3
    <2> QED  BY <1>0, <1>1, <2>1, <2>2, LangkahBerNilai
  <1>4. \A d \in Items(pg) : nilai[pg][d].hasil = "SESUAI"
    BY <1>1, <1>3 DEF SInv, SelesaiSesuai
  <1>5. ASSUME NEW p \in Proses, IsiNilai(p), tx[p].hasil = "PERLU_PERBAIKAN", tx[p].pg = pg
        PROVE  FALSE
    <2>1. tx' # tx  BY <1>0, <1>5 DEF IsiNilai, Rampung, Idle
    <2>2. TiadaNilaiMenyela  BY <2>1 DEF vars
    <2> QED  BY <1>1, <1>5, <2>2 DEF TiadaNilaiMenyela
  <1> QED  BY <1>0, <1>1, <1>2, <1>4, <1>5, SesuaiTetap

LEMMA NextSInv ==
    KInv /\ KInv' /\ SInv /\ [Next]_vars /\ [TiadaNilaiMenyela]_vars => SInv'
  <1> SUFFICES ASSUME KInv, KInv', SInv, [Next]_vars, [TiadaNilaiMenyela]_vars
               PROVE  SInv'
    OBVIOUS
  <1>0. IInv /\ tx \in [Proses -> Tx] /\ tx' \in [Proses -> Tx]
    BY DEF KInv, IInv, TypeOK
  <1>1. SelesaiBerartiSesuai'  BY NextSelesai
  <1>2. \A q \in Proses, r \in Tx : r = tx[q] => SelesaiSesuai(r)'
    BY SelesaiSesuaiTetap
  <1>3. ASSUME NEW q \in Proses, tx'[q] = tx[q] PROVE SelesaiSesuai(tx[q])'
    <2>1. PICK r \in Tx : r = tx[q] /\ r = tx'[q]  BY <1>0, <1>3
    <2> QED  BY <1>2, <2>1 DEF SelesaiSesuai
  <1>4. ASSUME NEW p \in Proses, NEW r, TxBaru(p, r), NEW q \in Proses
        PROVE  SelesaiSesuai(tx[q])'
    <2>1. tx'[p] = r /\ (q # p => tx'[q] = tx[q])  BY <1>0, <1>4 DEF TxBaru
    <2>2. CASE r.op = "SELESAI"
      <3>1. PICK pg \in Pengajuan : MulaiSelesai(p, pg)  BY <1>4, <2>2 DEF TxBaru
      <3>2. /\ r.pg = pg /\ UNCHANGED data
            /\ \A d \in Items(pg) : nilai[pg][d].hasil = "SESUAI"
        BY <1>0, <2>1, <3>1 DEF MulaiSelesai, Mulai
      <3>3. SelesaiSesuai(r)'
        BY <3>2 DEF SelesaiSesuai, Items, data
      <3> QED  BY <1>3, <2>1, <3>3 DEF SelesaiSesuai
    <2>3. CASE r.op # "SELESAI"
      BY <1>3, <2>1, <2>3 DEF SelesaiSesuai
    <2> QED  BY <2>2, <2>3
  <1>5. ASSUME NEW s \in Sop, BuatSop(s) PROVE UNCHANGED tx
    BY <1>5 DEF BuatSop
  <1>6. ASSUME UNCHANGED vars PROVE (\A q \in Proses : SelesaiSesuai(tx[q]))'
    BY <1>3, <1>6 DEF vars
  <1>7. ASSUME Next PROVE (\A q \in Proses : SelesaiSesuai(tx[q]))'
    BY <1>0, <1>3, <1>4, <1>5, <1>7, LangkahTx, Zenon DEF Next
  <1>8. (\A q \in Proses : SelesaiSesuai(tx[q]))'
    BY <1>6, <1>7
  <1> QED  BY <1>1, <1>8 DEF SInv

LEMMA InitSInv == Init => SInv
  BY DEF Init, DataInit, SInv, SelesaiBerartiSesuai, SelesaiSesuai, TanpaPengajuan, Idle,
         PengajuanAktif

(***************************************************************************)
(* An evaluation is finished only with every score SESUAI, whatever else   *)
(* goes on: the scores need no second look at the commit of selesai as     *)
(* long as no remark is written meanwhile.                                 *)
(***************************************************************************)
THEOREM SelesaiTanpaNilaiMenyela ==
    Spec /\ KirimUlangSegar /\ NilaiTidakMenyela => []SelesaiBerartiSesuai
  <1>2. Spec /\ KirimUlangSegar /\ NilaiTidakMenyela => []SInv
    BY InitSInv, UrutInvarian, NextSInv, PTL DEF Spec, NilaiTidakMenyela
  <1>3. SInv => SelesaiBerartiSesuai  BY DEF SInv
  <1> QED  BY <1>2, <1>3, PTL

-----------------------------------------------------------------------------
(***************************************************************************)
(* The same with the history of races: up to the first race a behaviour of *)
(* SpecBalapan is one without it.                                          *)
(***************************************************************************)
LEMMA LangkahBalapan ==
    ASSUME [NextBalapan]_varsBalapan
    PROVE  /\ [Next]_vars
           /\ TanpaKirimUlangBasi' => TanpaKirimUlangBasi /\ [TiadaKirimUlangBasi]_vars
           /\ "CABUT_MENYELA" \notin balapan' =>
                  "CABUT_MENYELA" \notin balapan /\ [TiadaCabutMenyela]_vars
           /\ "NILAI_MENYELA" \notin balapan' =>
                  "NILAI_MENYELA" \notin balapan /\ [TiadaNilaiMenyela]_vars
           /\ "NILAI_TERTIMPA" \notin balapan' =>
                  "NILAI_TERTIMPA" \notin balapan /\ [TidakTertimpa]_vars
  <1>1. CASE UNCHANGED varsBalapan
    <2>1. UNCHANGED vars /\ UNCHANGED balapan  BY <1>1 DEF varsBalapan, vars
    <2> QED  BY <2>1 DEF TanpaKirimUlangBasi
  <1>2. CASE NextBalapan
    <2>1. Next /\ balapan' = balapan \cup BalapanBaru  BY <1>2 DEF NextBalapan, Catat
    <2>2. /\ "KIRIM_ULANG_BASI" \notin BalapanBaru => TiadaKirimUlangBasi
          /\ "CABUT_MENYELA" \notin BalapanBaru => TiadaCabutMenyela
          /\ "NILAI_MENYELA" \notin BalapanBaru => TiadaNilaiMenyela
          /\ "NILAI_TERTIMPA" \notin BalapanBaru => TidakTertimpa
      BY DEF BalapanBaru
    <2> QED  BY <2>1, <2>2 DEF TanpaKirimUlangBasi
  <1> QED  BY <1>1, <1>2

\* Up to the first stale resend the invariants of submissions and revisions hold.
KBalapan == TanpaKirimUlangBasi => KInv /\ RInv

LEMMA KBalapanInvarian == SpecBalapan => []KBalapan
  <1>1. InitBalapan => KBalapan
    BY InitKInv, InitRInv DEF InitBalapan, KBalapan
  <1>2. KBalapan /\ [NextBalapan]_varsBalapan => KBalapan'
    <2> SUFFICES ASSUME KBalapan, [NextBalapan]_varsBalapan, TanpaKirimUlangBasi'
                 PROVE  KInv' /\ RInv'
      BY DEF KBalapan
    <2>1. KInv /\ RInv /\ [Next]_vars /\ [TiadaKirimUlangBasi]_vars
      BY LangkahBalapan DEF KBalapan
    <2> QED  BY <2>1, NextKInv, NextRInv
  <1> QED  BY <1>1, <1>2, PTL DEF SpecBalapan

\* An OPD has one submission in progress, up to the first stale resend.
THEOREM SatuAktifBalapan == SpecBalapan => []SatuAktifTanpaBalapan
  <1>1. KBalapan => SatuAktifTanpaBalapan
    BY DEF KBalapan, KInv, DataUrut, SatuAktifTanpaBalapan
  <1> QED  BY <1>1, KBalapanInvarian, PTL

\* A submission past its evaluation can be signed on, up to the first stale resend.
THEOREM DapatDitandatanganiBalapan == SpecBalapan => []DapatDitandatanganiTanpaBalapan
  <1>1. KBalapan => DapatDitandatanganiTanpaBalapan
    BY DEF KBalapan, KInv, DataUrut, DapatDitandatanganiTanpaBalapan
  <1> QED  BY <1>1, KBalapanInvarian, PTL

\* An SOP has one revision in progress, up to the first stale resend.
THEOREM SatuRevisiBalapan == SpecBalapan => []SatuRevisiTanpaBalapan
  <1>1. KBalapan => SatuRevisiTanpaBalapan
    BY RevisiTunggal DEF KBalapan, SatuRevisiTanpaBalapan
  <1> QED  BY <1>1, KBalapanInvarian, PTL

\* A step that is no stale resend, after none, is of one of the four kinds.
LEMMA JenisBalapan ==
    ASSUME KBalapan, [NextBalapan]_varsBalapan, TanpaKirimUlangBasi'
    PROVE  KInv /\ JenisLangkah
  <1>1. KInv /\ [Next]_vars /\ [TiadaKirimUlangBasi]_vars
    BY LangkahBalapan DEF KBalapan
  <1> QED  BY <1>1, LangkahNext

\* No submission goes back, up to the first stale resend.
THEOREM MajuBalapan == SpecBalapan => MajuTanpaBalapan
  <1>1. KBalapan /\ [NextBalapan]_varsBalapan =>
            [TanpaKirimUlangBasi' => MajuSelangkah]_varsBalapan
    BY JenisBalapan, JenisMaju
  <1> QED  BY <1>1, KBalapanInvarian, PTL DEF SpecBalapan, MajuTanpaBalapan

\* A terminal version stays terminal, up to the first stale resend.
THEOREM TerminalBalapan == SpecBalapan => TerminalTanpaBalapan
  <1>1. KBalapan /\ [NextBalapan]_varsBalapan =>
            [TanpaKirimUlangBasi' => TerminalSelangkah]_varsBalapan
    BY JenisBalapan, JenisTerminal
  <1> QED  BY <1>1, KBalapanInvarian, PTL DEF SpecBalapan, TerminalTanpaBalapan

(***************************************************************************)
(* The public PDF tells the fate of its version, up to the first stale     *)
(* resend or revocation that falls into a signing.                         *)
(***************************************************************************)
THEOREM PdfSelarasBalapan == SpecBalapan => []PdfSelarasTanpaBalapan
  <1> DEFINE PBalapan == TanpaKirimUlangBasi /\ "CABUT_MENYELA" \notin balapan => PInv
  <1>1. InitBalapan => PBalapan  BY InitPInv DEF InitBalapan
  <1>2. KBalapan /\ KBalapan' /\ PBalapan /\ [NextBalapan]_varsBalapan => PBalapan'
    <2> SUFFICES ASSUME KBalapan, KBalapan', PBalapan, [NextBalapan]_varsBalapan,
                        TanpaKirimUlangBasi', "CABUT_MENYELA" \notin balapan'
                 PROVE  PInv'
      OBVIOUS
    <2>1. /\ KInv /\ RInv /\ KInv' /\ PInv
          /\ [Next]_vars /\ [TiadaKirimUlangBasi]_vars /\ [TiadaCabutMenyela]_vars
      BY LangkahBalapan DEF KBalapan
    <2> QED  BY <2>1, RevisiTunggal, NextPInv
  <1>3. PBalapan => PdfSelarasTanpaBalapan  BY DEF PInv, PdfSelarasTanpaBalapan
  <1> HIDE DEF PBalapan
  <1> QED  BY <1>1, <1>2, <1>3, KBalapanInvarian, PTL DEF SpecBalapan

(***************************************************************************)
(* A finished evaluation has every score SESUAI, up to the first stale     *)
(* resend or remark that falls into selesai.                               *)
(***************************************************************************)
THEOREM SelesaiSesuaiBalapan == SpecBalapan => []SelesaiSesuaiTanpaBalapan
  <1> DEFINE SBalapan == TanpaKirimUlangBasi /\ "NILAI_MENYELA" \notin balapan => SInv
  <1>1. InitBalapan => SBalapan  BY InitSInv DEF InitBalapan
  <1>2. KBalapan /\ KBalapan' /\ SBalapan /\ [NextBalapan]_varsBalapan => SBalapan'
    <2> SUFFICES ASSUME KBalapan, KBalapan', SBalapan, [NextBalapan]_varsBalapan,
                        TanpaKirimUlangBasi', "NILAI_MENYELA" \notin balapan'
                 PROVE  SInv'
      OBVIOUS
    <2>1. KInv /\ KInv' /\ SInv /\ [Next]_vars /\ [TiadaNilaiMenyela]_vars
      BY LangkahBalapan DEF KBalapan
    <2> QED  BY <2>1, NextSInv
  <1>3. SBalapan => SelesaiSesuaiTanpaBalapan  BY DEF SInv, SelesaiSesuaiTanpaBalapan
  <1> HIDE DEF SBalapan
  <1> QED  BY <1>1, <1>2, <1>3, KBalapanInvarian, PTL DEF SpecBalapan

\* A rejection is final for every score, up to the first score written over an unread one.
THEOREM TolakTetapBalapan == SpecBalapan => []TolakTetapTanpaBalapan
  <1> DEFINE NBalapan == "NILAI_TERTIMPA" \notin balapan => NInv
  <1>1. InitBalapan => NBalapan  BY InitNInv DEF InitBalapan
  <1>2. NBalapan /\ [NextBalapan]_varsBalapan => NBalapan'
    <2> SUFFICES ASSUME NBalapan, [NextBalapan]_varsBalapan, "NILAI_TERTIMPA" \notin balapan'
                 PROVE  NInv'
      OBVIOUS
    <2>1. NInv /\ [Next]_vars /\ [TidakTertimpa]_vars  BY LangkahBalapan
    <2> QED  BY <2>1, NextNInv
  <1>3. NBalapan => TolakTetapTanpaBalapan  BY DEF NInv, TolakTetapTanpaBalapan
  <1> HIDE DEF NBalapan
  <1> QED  BY <1>1, <1>2, <1>3, PTL DEF SpecBalapan

-----------------------------------------------------------------------------
(***************************************************************************)
(* Requests that come one at a time: nobody begins before the operation    *)
(* under way has ended.  They leave no room for any of the races.          *)
(***************************************************************************)
Bergiliran == \A p, q \in Proses : tx[p] # Idle /\ tx[q] # Idle => p = q

\* What a begun operation read is what is there.
BacaanSegar(r) ==
    /\ r.op \in {"KIRIM_ULANG", "KIRIM_ULANG_TULIS"} =>
          status[r.d] = "REVISI_DARI_EVALUATOR"
    /\ r.op = "ISI_NILAI" =>
          /\ pengajuan[r.pg].st = "SEDANG_DIEVALUASI"
          /\ r.dibaca = nilai[r.pg][r.d]

BInv == IInv /\ \A p \in Proses : BacaanSegar(tx[p])

\* What others read changes by a commit, or by a new SOP, which nobody has read.
LEMMA LangkahSendiri ==
    ASSUME IInv, [Next]_vars
    PROVE  \/ UNCHANGED <<status, pengajuan, nilai>>
           \/ \E p \in Proses : tx[p] # Idle /\ Rampung(p)
           \/ \E s \in Sop : BuatSop(s)
  <1>1. ASSUME NEW p \in Proses, CatalogNext(p)
        PROVE  UNCHANGED data \/ (tx[p] # Idle /\ Rampung(p))
    <2>1. \/ UNCHANGED data
          \/ Klon(p) \/ UbahStatus(p) \/ KirimUlang(p) \/ Hapus(p)
      BY <1>1, Zenon DEF CatalogNext, MulaiKlon, MulaiTransisi, MulaiCabut, MulaiKirimUlang,
                         MulaiHapus, BacaUmpanBalik, Mulai
    <2>2. ASSUME Klon(p) \/ UbahStatus(p) \/ KirimUlang(p) \/ Hapus(p)
          PROVE  tx[p] # Idle /\ Rampung(p)
      <3>1. /\ Rampung(p)
            /\ \/ tx[p].op = "KLON" \/ tx[p].op = "UBAH_STATUS"
               \/ tx[p].op = "KIRIM_ULANG_TULIS" \/ tx[p].op = "HAPUS"
        BY <2>2, Zenon DEF Klon, UbahStatus, KirimUlang, Hapus
      <3> QED  BY <3>1 DEF Idle
    <2> QED  BY <2>1, <2>2
  <1>2. ASSUME NEW p \in Proses, EvaluasiNext(p)
        PROVE  UNCHANGED data \/ (tx[p] # Idle /\ Rampung(p))
    <2>1. \/ UNCHANGED data
          \/ BuatPengajuan(p) \/ IsiNilai(p) \/ TindakLanjut(p) \/ Selesai(p) \/ Tolak(p)
      BY <1>2, Zenon DEF EvaluasiNext, MulaiBuatPengajuan, MulaiIsiNilai, MulaiTindakLanjut,
                         MulaiSelesai, MulaiTolak, Mulai
    <2>2. ASSUME BuatPengajuan(p) \/ IsiNilai(p) \/ TindakLanjut(p) \/ Selesai(p) \/ Tolak(p)
          PROVE  tx[p] # Idle /\ Rampung(p)
      <3>1. /\ Rampung(p)
            /\ \/ tx[p].op = "BUAT_PENGAJUAN" \/ tx[p].op = "ISI_NILAI"
               \/ tx[p].op = "TINDAK_LANJUT" \/ tx[p].op = "SELESAI" \/ tx[p].op = "TOLAK"
        BY <2>2, Zenon DEF BuatPengajuan, IsiNilai, TindakLanjut, Selesai, Tolak
      <3> QED  BY <3>1 DEF Idle
    <2> QED  BY <2>1, <2>2
  <1>3. ASSUME NEW p \in Proses, TteNext(p)
        PROVE  UNCHANGED <<status, pengajuan, nilai>> \/ (tx[p] # Idle /\ Rampung(p))
    BY <1>3 DEF TteNext, MulaiBaEvaluator, MulaiBaPjPenyusun, SiapkanPengesahan,
                MulaiFinalisasi, BaEvaluator, BaPjPenyusun, Finalisasi, Mulai, data, Idle
  <1>4. ASSUME NEW p \in Proses, Batal(p) PROVE UNCHANGED data
    BY <1>4 DEF Batal
  <1> QED  BY <1>1, <1>2, <1>3, <1>4, Zenon DEF Next, data, vars

LEMMA NextBInv == BInv /\ Bergiliran /\ [Next]_vars => BInv'
  <1> SUFFICES ASSUME BInv, Bergiliran, [Next]_vars PROVE BInv'
    OBVIOUS
  <1>0. IInv /\ IInv' /\ tx \in [Proses -> Tx] /\ tx' \in [Proses -> Tx]
    BY NextIInv DEF BInv, IInv, TypeOK
  <1>1. CASE UNCHANGED <<status, pengajuan, nilai>>
    <2>1. ASSUME NEW q \in Proses, tx'[q] = tx[q] PROVE BacaanSegar(tx[q])'
      BY <1>1, <2>1 DEF BInv, BacaanSegar
    <2>2. ASSUME NEW p \in Proses, NEW r, TxBaru(p, r), NEW q \in Proses
          PROVE  BacaanSegar(tx[q])'
      <3>1. tx'[p] = r /\ (q # p => tx'[q] = tx[q])  BY <1>0, <2>2 DEF TxBaru
      <3>2. CASE r.op = "KIRIM_ULANG"
        <4>1. PICK d \in Detail : MulaiKirimUlang(p, d)  BY <2>2, <3>2 DEF TxBaru
        <4>2. r.d = d /\ status[d] = "REVISI_DARI_EVALUATOR"
          BY <1>0, <3>1, <4>1 DEF MulaiKirimUlang, Mulai
        <4> QED  BY <1>1, <2>1, <3>1, <3>2, <4>2 DEF BacaanSegar
      <3>3. CASE r.op = "KIRIM_ULANG_TULIS"
        <4>1. BacaUmpanBalik(p)  BY <2>2, <3>3 DEF TxBaru
        <4>2. r.d = tx[p].d /\ tx[p].op = "KIRIM_ULANG"
          BY <1>0, <3>1, <4>1 DEF BacaUmpanBalik, Mulai
        <4>3. status[r.d] = "REVISI_DARI_EVALUATOR"
          BY <4>2 DEF BInv, BacaanSegar
        <4> QED  BY <1>1, <2>1, <3>1, <3>3, <4>3 DEF BacaanSegar
      <3>4. CASE r.op = "ISI_NILAI"
        <4>1. PICK pg \in Pengajuan, d \in Detail, hasil \in {"SESUAI", "PERLU_PERBAIKAN"} :
                 MulaiIsiNilai(p, pg, d, hasil)
          BY <2>2, <3>4 DEF TxBaru
        <4>2. /\ r.pg = pg /\ r.d = d /\ r.dibaca = nilai[pg][d]
              /\ pengajuan[pg].st = "SEDANG_DIEVALUASI"
          BY <1>0, <3>1, <4>1 DEF MulaiIsiNilai, Mulai
        <4> QED  BY <1>1, <2>1, <3>1, <3>4, <4>2 DEF BacaanSegar
      <3>5. CASE r.op \notin {"KIRIM_ULANG", "KIRIM_ULANG_TULIS", "ISI_NILAI"}
        BY <2>1, <3>1, <3>5 DEF BacaanSegar
      <3> QED  BY <3>2, <3>3, <3>4, <3>5
    <2>3. ASSUME NEW s \in Sop, BuatSop(s) PROVE UNCHANGED tx
      BY <2>3 DEF BuatSop
    <2>4. ASSUME UNCHANGED vars PROVE (\A q \in Proses : BacaanSegar(tx[q]))'
      BY <2>1, <2>4 DEF vars
    <2>5. ASSUME Next PROVE (\A q \in Proses : BacaanSegar(tx[q]))'
      BY <1>0, <2>1, <2>2, <2>3, <2>5, LangkahTx, Zenon DEF Next
    <2> QED  BY <1>0, <2>4, <2>5 DEF BInv
  <1>2. ASSUME NEW p \in Proses, tx[p] # Idle, Rampung(p) PROVE BInv'
    <2>1. \A q \in Proses : tx'[q] = Idle
      BY <1>0, <1>2 DEF Rampung, Bergiliran
    <2> QED  BY <1>0, <2>1 DEF BInv, BacaanSegar, Idle
  <1>3. ASSUME NEW s \in Sop, BuatSop(s) PROVE BInv'
    <2>1. /\ status[<<s, 1>>] = "TIDAK_ADA"
          /\ status' = [status EXCEPT ![<<s, 1>>] = "DRAFT"]
          /\ UNCHANGED <<pengajuan, nilai, tx>>
      BY <1>3, MaxBarisAssumption DEF BuatSop, BarisSop
    <2>2. \A d \in Detail : status[d] = "REVISI_DARI_EVALUATOR" => status'[d] = status[d]
      BY <1>0, <2>1 DEF IInv, TypeOK, DataOK
    <2>3. ASSUME NEW q \in Proses PROVE BacaanSegar(tx[q])'
      <3>1. tx[q].op \in {"KIRIM_ULANG", "KIRIM_ULANG_TULIS"} => tx[q].d \in Detail
        BY <1>0, BentukTx DEF TxKirimUlang, TxKirimUlangTulis
      <3> QED  BY <2>1, <2>2, <3>1 DEF BInv, BacaanSegar
    <2> QED  BY <1>0, <2>3 DEF BInv
  <1> QED  BY <1>0, <1>1, <1>2, <1>3, LangkahSendiri

LEMMA BergiliranInvarian == Spec /\ []Bergiliran => []BInv
  <1>1. Init => BInv
    <2>1. Init => IInv  BY InitIInv
    <2>2. Init => \A p \in Proses : BacaanSegar(tx[p])
      BY DEF Init, BacaanSegar, Idle
    <2> QED  BY <2>1, <2>2 DEF BInv
  <1> QED  BY <1>1, NextBInv, PTL DEF Spec

\* One request at a time, no operation acts on what is no longer so.
THEOREM BergiliranTanpaBalapan ==
    Spec /\ []Bergiliran =>
        KirimUlangSegar /\ CabutSendiri /\ NilaiTidakMenyela /\ NilaiTidakTertimpa
  <1>1. BInv => TiadaKirimUlangBasi
    BY DEF BInv, BacaanSegar, TiadaKirimUlangBasi, KirimUlang, Selepas, Terminal
  <1>2. Bergiliran => TiadaCabutMenyela
    BY DEF Bergiliran, TiadaCabutMenyela, UbahStatus, Idle
  <1>3. BInv /\ Bergiliran => TiadaNilaiMenyela
    BY DEF BInv, BacaanSegar, Bergiliran, TiadaNilaiMenyela, IsiNilai, Idle
  <1>4. BInv => TidakTertimpa
    BY DEF BInv, BacaanSegar, TidakTertimpa
  <1>6. Spec /\ []Bergiliran => NilaiTidakTertimpa
    BY <1>4, BergiliranInvarian, PTL DEF NilaiTidakTertimpa
  <1> QED
    BY <1>1, <1>2, <1>3, <1>6, BergiliranInvarian, PTL
    DEF KirimUlangSegar, CabutSendiri, NilaiTidakMenyela

\* What a run of the workflow should show.
JalanBenar ==
    /\ []SatuRevisiBerjalan
    /\ []PdfSelarasStatus
    /\ []SelesaiBerartiSesuai
    /\ []TolakBerartiDitolak
    /\ []PengajuanDapatDitandatangani
    /\ []SatuPengajuanAktifPerOpd
    /\ TerminalTetap
    /\ PengajuanMaju

(***************************************************************************)
(* So the workflow is correct when requests come one at a time, in every   *)
(* installation and however many of them come.                             *)
(***************************************************************************)
THEOREM UrutBenar == Spec /\ []Bergiliran => JalanBenar
  BY BergiliranTanpaBalapan, SatuRevisiTanpaKirimUlangBasi, PdfTanpaCabutMenyela,
     SelesaiTanpaNilaiMenyela, TolakTanpaTimpa, DapatDitandatanganiTanpaKirimUlangBasi,
     SatuAktifTanpaKirimUlangBasi, TerminalTanpaKirimUlangBasi, MajuTanpaKirimUlangBasi, PTL
  DEF JalanBenar

\* A server that works on one request at a time is correct.
COROLLARY SatuPermintaanBenar ==
    ASSUME \A p, q \in Proses : p = q
    PROVE  Spec => JalanBenar
  <1>1. Bergiliran  BY DEF Bergiliran
  <1> QED  BY <1>1, UrutBenar, PTL
=============================================================================
