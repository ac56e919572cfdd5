--------------------------- MODULE SopFlow_proofs ---------------------------
(***************************************************************************)
(* Proofs about SopFlow, for every set of SOPs, units, submissions and     *)
(* concurrent requests: IInv is inductive, so what it contains always      *)
(* holds, and the workflow implements the public archive ArsipSop.         *)
(***************************************************************************)
EXTENDS SopFlow, TLAPS

-----------------------------------------------------------------------------
(***************************************************************************)
(* Transactions: the operation of a begun transaction tells its fields.    *)
(***************************************************************************)

\* Every kind of operation has a record set of its own.
LEMMA BentukTx ==
    ASSUME NEW r \in Tx
    PROVE  /\ r.op = "KLON" => r \in TxKlon
           /\ r.op = "UBAH_STATUS" => r \in TxUbahStatus
           /\ r.op = "HAPUS" => r \in TxHapus
           /\ r.op = "KIRIM_ULANG" => r \in TxKirimUlang
           /\ r.op = "KIRIM_ULANG_TULIS" => r \in TxKirimUlangTulis
           /\ r.op = "BUAT_PENGAJUAN" => r \in TxBuatPengajuan
           /\ r.op = "ISI_NILAI" => r \in TxIsiNilai
           /\ r.op = "TINDAK_LANJUT" => r \in TxTindakLanjut
           /\ r.op \in {"SELESAI", "BA_EVALUATOR", "BA_PJ_PENYUSUN", "PENGESAHAN"} =>
                 r \in TxPengajuan
           /\ r.op = "TOLAK" => r \in TxTolak
           /\ r.op = "FINALISASI" => r \in TxFinalisasi
  BY DEF Tx, Idle, TxKlon, TxUbahStatus, TxHapus, TxKirimUlang, TxKirimUlangTulis,
         TxBuatPengajuan, TxIsiNilai, TxTindakLanjut, TxPengajuan, TxTolak, TxFinalisasi

\* An idle process relies on nothing.
LEMMA IdleSah == Idle \in Tx /\ TxSah(Idle)
  BY DEF Idle, Tx, TxSah

(***************************************************************************)
(* A commit never takes away what another transaction relies on: members   *)
(* of a submission, the submission itself and signatures only accumulate.  *)
(***************************************************************************)
Tumbuh ==
    \A pg \in Pengajuan :
        /\ Items(pg) \subseteq Items(pg)'
        /\ pengajuan[pg] # TanpaPengajuan => pengajuan'[pg] # TanpaPengajuan
        /\ ttdBa[pg] \subseteq ttdBa'[pg]

LEMMA TxSahTumbuh ==
    ASSUME NEW r \in Tx, TxSah(r), Tumbuh
    PROVE  TxSah(r)'
  <1>1. r.op \in {"ISI_NILAI", "TINDAK_LANJUT"} => r.pg \in Pengajuan
    BY BentukTx DEF TxIsiNilai, TxTindakLanjut
  <1>2. r.op = "KIRIM_ULANG_TULIS" => r.tutup \subseteq Pengajuan
    BY BentukTx DEF TxKirimUlangTulis
  <1>3. r.op \in {"SELESAI", "BA_EVALUATOR", "BA_PJ_PENYUSUN"} => r.pg \in Pengajuan
    BY BentukTx DEF TxPengajuan
  <1> QED  BY <1>1, <1>2, <1>3 DEF TxSah, Tumbuh

LEMMA RampungSah ==
    ASSUME TypeOK, TransaksiSah, NEW p \in Proses, Rampung(p), Tumbuh
    PROVE  tx' \in [Proses -> Tx] /\ TransaksiSah'
  <1>1. tx' \in [Proses -> Tx]
    BY IdleSah DEF TypeOK, Rampung
  <1>2. ASSUME NEW q \in Proses PROVE TxSah(tx[q])'
    <2>1. CASE q = p
      <3>1. tx'[q] = Idle  BY <2>1 DEF TypeOK, Rampung
      <3> QED  BY <3>1 DEF TxSah, Idle
    <2>2. CASE q # p
      <3>1. tx'[q] = tx[q] /\ tx[q] \in Tx  BY <2>2 DEF TypeOK, Rampung
      <3>2. TxSah(tx[q])  BY DEF TransaksiSah
      <3>3. \A r \in Tx : TxSah(r) => TxSah(r)'  BY TxSahTumbuh
      <3> QED  BY <3>1, <3>2, <3>3 DEF TxSah
    <2> QED  BY <2>1, <2>2
  <1> QED  BY <1>1, <1>2 DEF TransaksiSah


(***************************************************************************)
(* A commit that puts no version into force keeps the versions in force    *)
(* signed and unique.                                                      *)
(***************************************************************************)
LEMMA TidakTerbit ==
    ASSUME PengesahanLengkap, SatuBerlakuPerSop, TypeOK, TypeOK', Tumbuh,
           ttdSop \subseteq ttdSop',
           \A d \in Detail : status'[d] = "BERLAKU" =>
               status[d] = "BERLAKU" /\ pdf'[d] = pdf[d]
    PROVE  PengesahanLengkap' /\ SatuBerlakuPerSop'
  <1>1. SatuBerlakuPerSop'
    BY DEF SatuBerlakuPerSop
  <1>2. ASSUME NEW d \in Detail, status'[d] = "BERLAKU"
        PROVE  /\ d \in ttdSop'
               /\ pdf'[d] = "PUBLISHED"
               /\ \E pg \in Pengajuan : /\ d \in Items(pg)'
                                        /\ ttdBa'[pg] = {"PJ_EVALUATOR", "PJ_PENYUSUN"}
    <2>1. d \in ttdSop /\ pdf[d] = "PUBLISHED"
      BY <1>2 DEF PengesahanLengkap
    <2>2. PICK pg \in Pengajuan : /\ d \in Items(pg)
                                 /\ ttdBa[pg] = {"PJ_EVALUATOR", "PJ_PENYUSUN"}
      BY <1>2 DEF PengesahanLengkap
    <2>3. d \in Items(pg)' /\ {"PJ_EVALUATOR", "PJ_PENYUSUN"} \subseteq ttdBa'[pg]
      BY <2>2 DEF Tumbuh
    <2>4. ttdBa'[pg] \subseteq {"PJ_EVALUATOR", "PJ_PENYUSUN"}
      BY DEF TypeOK, DataOK
    <2> QED  BY <1>2, <2>1, <2>3, <2>4
  <1> QED  BY <1>1, <1>2 DEF PengesahanLengkap

(***************************************************************************)
(* The first half of an operation: it changes no table, and what it        *)
(* remembers is what its commit will rely on.                              *)
(***************************************************************************)
LEMMA MulaiAman ==
    ASSUME IInv, NEW p \in Proses, NEW r \in Tx, TxSah(r), Mulai(p, r)
    PROVE  IInv'
  <1>1. UNCHANGED data  BY DEF Mulai
  <1>2. tx' \in [Proses -> Tx]  BY DEF IInv, TypeOK, Mulai
  <1>3. TypeOK'  BY <1>1, <1>2 DEF IInv, TypeOK, DataOK, data
  <1>4. \A pg \in Pengajuan : Items(pg)' = Items(pg)
    BY <1>1 DEF Items, data
  <1>5. PengajuanKosong'
    BY <1>1, <1>4 DEF IInv, PengajuanKosong, data
  <1>6. UrutanTandaTangan'
    BY <1>1 DEF IInv, UrutanTandaTangan, data
  <1>7. Tumbuh  BY <1>1, <1>4 DEF Tumbuh, data
  <1>8. PengesahanLengkap' /\ SatuBerlakuPerSop'
    BY <1>1, <1>3, <1>7, TidakTerbit DEF IInv, data
  <1>9. TransaksiSah'
    <2>1. ASSUME NEW q \in Proses PROVE TxSah(tx[q])'
      <3>1. tx'[q] \in {r, tx[q]}  BY DEF IInv, TypeOK, Mulai
      <3>2. TxSah(tx[q]) /\ tx[q] \in Tx  BY DEF IInv, TransaksiSah, TypeOK
      <3>3. \A t \in Tx : TxSah(t) => TxSah(t)'  BY <1>7, TxSahTumbuh
      <3>4. CASE tx'[q] = r  BY <3>3, <3>4 DEF TxSah
      <3>5. CASE tx'[q] = tx[q]  BY <3>2, <3>3, <3>5 DEF TxSah
      <3> QED  BY <3>1, <3>4, <3>5
    <2> QED  BY <2>1 DEF TransaksiSah
  <1> QED  BY <1>3, <1>5, <1>6, <1>8, <1>9 DEF IInv

LEMMA BatalAman ==
    ASSUME IInv, NEW p \in Proses, Batal(p)
    PROVE  IInv'
  BY MulaiAman, IdleSah DEF Batal, Rampung, Mulai

-----------------------------------------------------------------------------
(***************************************************************************)
(* The operations that read and check.                                     *)
(***************************************************************************)
LEMMA MulaiKatalogAman ==
    ASSUME IInv, NEW p \in Proses, NEW d \in Detail
    PROVE  /\ MulaiKlon(p, d) => IInv'
           /\ \A ke \in StatusSOP : MulaiTransisi(p, d, ke) => IInv'
           /\ MulaiCabut(p, d) => IInv'
           /\ MulaiKirimUlang(p, d) => IInv'
           /\ MulaiHapus(p, d) => IInv'
  <1>0. TypeOK /\ d[1] \in Sop  BY DEF IInv, Detail
  <1>1. ASSUME MulaiKlon(p, d) PROVE IInv'
    <2>1. PICK e \in BarisSop(d[1]) :
             Mulai(p, [op |-> "KLON", sop |-> d[1], versi |-> versi[e] + 1])
      BY <1>1 DEF MulaiKlon
    <2>2. e \in Detail  BY <1>0, <2>1 DEF BarisSop, Detail
    <2> DEFINE r == [op |-> "KLON", sop |-> d[1], versi |-> versi[e] + 1]
    <2>3. r \in Tx  BY <1>0, <2>2 DEF TypeOK, DataOK, Tx, TxKlon
    <2>4. TxSah(r)  BY DEF TxSah
    <2> QED  BY <2>1, <2>3, <2>4, MulaiAman
  <1>2. ASSUME NEW ke \in StatusSOP, MulaiTransisi(p, d, ke) PROVE IInv'
    <2> DEFINE r == [op |-> "UBAH_STATUS", d |-> d, dari |-> status[d], ke |-> ke]
    <2>1. ke # "BERLAKU" /\ status[d] \in StatusSOP
      BY <1>2 DEF MulaiTransisi, TransisiDiizinkan, TabelTransisi, StatusSOP
    <2>2. r \in Tx /\ TxSah(r)  BY <2>1 DEF Tx, TxUbahStatus, TxSah
    <2> QED  BY <1>2, <2>2, MulaiAman DEF MulaiTransisi
  <1>3. ASSUME MulaiCabut(p, d) PROVE IInv'
    <2> DEFINE r == [op |-> "UBAH_STATUS", d |-> d, dari |-> "BERLAKU", ke |-> "DICABUT"]
    <2>1. r \in Tx /\ TxSah(r)  BY DEF Tx, TxUbahStatus, TxSah, StatusSOP
    <2> QED  BY <1>3, <2>1, MulaiAman DEF MulaiCabut
  <1>4. ASSUME MulaiKirimUlang(p, d) PROVE IInv'
    <2>1. [op |-> "KIRIM_ULANG", d |-> d] \in Tx /\ TxSah([op |-> "KIRIM_ULANG", d |-> d])
      BY DEF Tx, TxKirimUlang, TxSah
    <2> QED  BY <1>4, <2>1, MulaiAman DEF MulaiKirimUlang
  <1>5. ASSUME MulaiHapus(p, d) PROVE IInv'
    <2>1. [op |-> "HAPUS", d |-> d] \in Tx /\ TxSah([op |-> "HAPUS", d |-> d])
      BY DEF Tx, TxHapus, TxSah
    <2> QED  BY <1>5, <2>1, MulaiAman DEF MulaiHapus
  <1> QED  BY <1>1, <1>2, <1>3, <1>4, <1>5

LEMMA BacaUmpanBalikAman ==
    ASSUME IInv, NEW p \in Proses, BacaUmpanBalik(p)
    PROVE  IInv'
  <1>1. tx[p] \in Tx /\ tx[p].op = "KIRIM_ULANG"
    BY DEF IInv, TypeOK, BacaUmpanBalik
  <1>2. tx[p].d \in Detail  BY <1>1, BentukTx DEF TxKirimUlang
  <1> DEFINE r(T) == [op |-> "KIRIM_ULANG_TULIS", d |-> tx[p].d, tutup |-> T]
  <1>3. PICK T \in SUBSET UmpanBalikAktif(tx[p].d) : Mulai(p, r(T))
    BY Zenon DEF BacaUmpanBalik
  <1>4. \A pg \in T : tx[p].d \in Items(pg)
    BY <1>2 DEF UmpanBalikAktif, Items, BukanAnggota
  <1>5. r(T) \in Tx  BY <1>2 DEF Tx, TxKirimUlangTulis, UmpanBalikAktif
  <1>6. TxSah(r(T))  BY <1>4 DEF TxSah
  <1> QED  BY <1>3, <1>5, <1>6, MulaiAman

LEMMA MulaiBuatPengajuanAman ==
    ASSUME IInv, NEW p \in Proses, NEW o \in Opd, NEW items \in SUBSET Detail,
           MulaiBuatPengajuan(p, o, items)
    PROVE  IInv'
  <1> DEFINE r == [op |-> "BUAT_PENGAJUAN", opd |-> o, items |-> items]
  <1>1. r \in Tx /\ TxSah(r)  BY DEF Tx, TxBuatPengajuan, TxSah
  <1> QED  BY <1>1, MulaiAman DEF MulaiBuatPengajuan

LEMMA MulaiEvaluasiAman ==
    ASSUME IInv, NEW p \in Proses, NEW pg \in Pengajuan
    PROVE  /\ \A d \in Detail :
                 /\ \A hasil \in {"SESUAI", "PERLU_PERBAIKAN"} :
                       MulaiIsiNilai(p, pg, d, hasil) => IInv'
                 /\ MulaiTindakLanjut(p, pg, d) => IInv'
           /\ MulaiSelesai(p, pg) => IInv'
           /\ MulaiTolak(p, pg) => IInv'
  <1>0. TypeOK  BY DEF IInv
  <1>1. ASSUME NEW d \in Detail, NEW hasil \in {"SESUAI", "PERLU_PERBAIKAN"},
               MulaiIsiNilai(p, pg, d, hasil)
        PROVE  IInv'
    <2> DEFINE r == [op |-> "ISI_NILAI", pg |-> pg, d |-> d, hasil |-> hasil,
                     dibaca |-> nilai[pg][d]]
    <2>1. d \in Items(pg)  BY <1>1 DEF MulaiIsiNilai
    <2>2. nilai[pg][d] \in BarisNilai  BY <1>0, <2>1 DEF TypeOK, DataOK, Items
    <2>3. r \in Tx  BY <2>2 DEF Tx, TxIsiNilai
    <2>4. TxSah(r)  BY <2>1 DEF TxSah
    <2> QED  BY <1>1, <2>3, <2>4, MulaiAman DEF MulaiIsiNilai
  <1>2. ASSUME NEW d \in Detail, MulaiTindakLanjut(p, pg, d) PROVE IInv'
    <2> DEFINE r == [op |-> "TINDAK_LANJUT", pg |-> pg, d |-> d]
    <2>1. d \in Items(pg)  BY <1>2 DEF MulaiTindakLanjut, Items, BukanAnggota
    <2>2. r \in Tx /\ TxSah(r)  BY <2>1 DEF Tx, TxTindakLanjut, TxSah
    <2> QED  BY <1>2, <2>2, MulaiAman DEF MulaiTindakLanjut
  <1>3. ASSUME MulaiSelesai(p, pg) PROVE IInv'
    <2>1. pengajuan[pg] # TanpaPengajuan  BY <1>3 DEF MulaiSelesai, TanpaPengajuan
    <2>2. [op |-> "SELESAI", pg |-> pg] \in Tx  BY DEF Tx, TxPengajuan
    <2>3. TxSah([op |-> "SELESAI", pg |-> pg])  BY <2>1 DEF TxSah
    <2> QED  BY <1>3, <2>2, <2>3, MulaiAman DEF MulaiSelesai
  <1>4. ASSUME MulaiTolak(p, pg) PROVE IInv'
    <2> DEFINE r == [op |-> "TOLAK", pg |-> pg, ver |-> pengajuan[pg].ver,
                     versiNilai |-> [d \in Detail |-> nilai[pg][d].versi]]
    <2>1. pengajuan[pg].ver \in Nat  BY <1>0 DEF TypeOK, DataOK, TanpaPengajuan
    <2>2. \A d \in Detail : nilai[pg][d].versi \in Nat
      BY <1>0 DEF TypeOK, DataOK, BukanAnggota, BarisNilai
    <2>3. r \in Tx  BY <2>1, <2>2 DEF Tx, TxTolak
    <2>4. TxSah(r)  BY DEF TxSah
    <2> QED  BY <1>4, <2>3, <2>4, MulaiAman DEF MulaiTolak
  <1> QED  BY <1>1, <1>2, <1>3, <1>4

LEMMA MulaiTteAman ==
    ASSUME IInv, NEW p \in Proses, NEW pg \in Pengajuan
    PROVE  /\ MulaiBaEvaluator(p, pg) => IInv'
           /\ MulaiBaPjPenyusun(p, pg) => IInv'
           /\ MulaiFinalisasi(p) => IInv'
  <1>0. TypeOK  BY DEF IInv
  <1>1. ASSUME MulaiBaEvaluator(p, pg) PROVE IInv'
    <2>1. pengajuan[pg] # TanpaPengajuan  BY <1>1 DEF MulaiBaEvaluator, TanpaPengajuan
    <2>2. [op |-> "BA_EVALUATOR", pg |-> pg] \in Tx  BY DEF Tx, TxPengajuan
    <2>3. TxSah([op |-> "BA_EVALUATOR", pg |-> pg])  BY <2>1 DEF TxSah
    <2> QED  BY <1>1, <2>2, <2>3, MulaiAman DEF MulaiBaEvaluator
  <1>2. ASSUME MulaiBaPjPenyusun(p, pg) PROVE IInv'
    <2>1. pengajuan[pg].st = "DITANDATANGANI_PJ_EVALUATOR"
      BY <1>2 DEF MulaiBaPjPenyusun
    <2>2. pengajuan[pg] # TanpaPengajuan /\ "PJ_EVALUATOR" \in ttdBa[pg]
      BY <2>1 DEF TanpaPengajuan, IInv, UrutanTandaTangan
    <2>3. [op |-> "BA_PJ_PENYUSUN", pg |-> pg] \in Tx  BY DEF Tx, TxPengajuan
    <2>4. TxSah([op |-> "BA_PJ_PENYUSUN", pg |-> pg])  BY <2>2 DEF TxSah
    <2> QED  BY <1>2, <2>3, <2>4, MulaiAman DEF MulaiBaPjPenyusun
  <1>3. ASSUME MulaiFinalisasi(p) PROVE IInv'
    <2>1. tx[p] \in Tx /\ tx[p].op = "PENGESAHAN"
      BY <1>0, <1>3 DEF TypeOK, MulaiFinalisasi
    <2>2. tx[p].pg \in Pengajuan  BY <2>1, BentukTx DEF TxPengajuan
    <2>3. pengajuan[tx[p].pg].ver \in Nat  BY <1>0, <2>2 DEF TypeOK, DataOK, TanpaPengajuan
    <2> DEFINE r == [op |-> "FINALISASI", pg |-> tx[p].pg, ver |-> pengajuan[tx[p].pg].ver,
                     berlaku |-> StatusBerlaku]
    <2>4. r \in Tx  BY <2>2, <2>3 DEF Tx, TxFinalisasi, StatusBerlaku
    <2>5. TxSah(r)  BY DEF TxSah
    <2> QED  BY <1>3, <2>4, <2>5, MulaiAman DEF MulaiFinalisasi
  <1> QED  BY <1>1, <1>2, <1>3

-----------------------------------------------------------------------------
(***************************************************************************)
(* The operations that write.                                              *)
(***************************************************************************)

\* What is left to show of a commit that puts no version into force.
LEMMA RampungAman ==
    ASSUME IInv, NEW p \in Proses, Rampung(p),
           DataOK', Tumbuh, PengajuanKosong', UrutanTandaTangan',
           ttdSop \subseteq ttdSop',
           \A d \in Detail : status'[d] = "BERLAKU" =>
               status[d] = "BERLAKU" /\ pdf'[d] = pdf[d]
    PROVE  IInv'
  <1>1. tx' \in [Proses -> Tx] /\ TransaksiSah'  BY RampungSah DEF IInv
  <1>2. TypeOK'  BY <1>1 DEF TypeOK
  <1>3. PengesahanLengkap' /\ SatuBerlakuPerSop'  BY <1>2, TidakTerbit DEF IInv
  <1> QED  BY <1>1, <1>2, <1>3 DEF IInv

\* A step that leaves submissions, scores and signatures alone.
LEMMA HanyaVersi ==
    ASSUME IInv, UNCHANGED <<pengajuan, nilai, ttdBa>>
    PROVE  Tumbuh /\ PengajuanKosong' /\ UrutanTandaTangan'
  <1>1. \A pg \in Pengajuan : Items(pg)' = Items(pg)  BY DEF Items
  <1> QED  BY <1>1 DEF Tumbuh, IInv, PengajuanKosong, UrutanTandaTangan

LEMMA BuatSopAman ==
    ASSUME IInv, NEW s \in Sop, BuatSop(s)
    PROVE  IInv'
  <1>1. <<s, 1>> \in Detail  BY MaxBarisAssumption DEF Detail
  <1>2. DataOK'  BY <1>1 DEF IInv, TypeOK, DataOK, BuatSop, StatusSOP
  <1>3. Tumbuh /\ PengajuanKosong' /\ UrutanTandaTangan'
    BY HanyaVersi DEF BuatSop
  <1>4. TypeOK'  BY <1>2 DEF IInv, TypeOK, BuatSop
  <1>5. TransaksiSah'
    <2>1. \A r \in Tx : TxSah(r) => TxSah(r)'  BY <1>3, TxSahTumbuh
    <2> QED  BY <2>1 DEF IInv, TypeOK, TransaksiSah, TxSah, BuatSop
  <1>6. \A d \in Detail : status'[d] = "BERLAKU" =>
            status[d] = "BERLAKU" /\ pdf'[d] = pdf[d]
    BY DEF IInv, TypeOK, DataOK, BuatSop
  <1>7. PengesahanLengkap' /\ SatuBerlakuPerSop'
    BY <1>3, <1>4, <1>6, TidakTerbit DEF IInv, BuatSop
  <1> QED  BY <1>3, <1>4, <1>5, <1>7 DEF IInv

LEMMA KatalogAman ==
    ASSUME IInv, NEW p \in Proses, Klon(p) \/ UbahStatus(p) \/ Hapus(p)
    PROVE  IInv'
  <1>0. TypeOK /\ DataOK /\ tx[p] \in Tx /\ TxSah(tx[p])
    BY DEF IInv, TypeOK, TransaksiSah
  <1>1. Rampung(p) /\ UNCHANGED <<pengajuan, nilai, ttdBa, ttdSop>>
    BY DEF Klon, UbahStatus, Hapus
  <1>2. Tumbuh /\ PengajuanKosong' /\ UrutanTandaTangan'
    BY <1>1, HanyaVersi
  <1>3. DataOK' /\ \A d \in Detail : status'[d] = "BERLAKU" =>
                       status[d] = "BERLAKU" /\ pdf'[d] = pdf[d]
    <2>1. CASE Klon(p)
      <3>1. tx[p].sop \in Sop /\ tx[p].versi \in Nat
        BY <1>0, <2>1, BentukTx DEF Klon, TxKlon
      <3>2. PICK k \in 1..MaxBaris :
               /\ status' = [status EXCEPT ![<<tx[p].sop, k>>] = "DRAFT"]
               /\ versi' = [versi EXCEPT ![<<tx[p].sop, k>>] = tx[p].versi]
        BY <2>1 DEF Klon
      <3>3. UNCHANGED <<pengajuan, nilai, ttdBa, ttdSop, pdf>>  BY <2>1 DEF Klon
      <3>4. DataOK'  BY <1>0, <3>1, <3>2, <3>3 DEF DataOK, StatusSOP
      <3> QED  BY <1>0, <3>2, <3>3, <3>4 DEF DataOK
    <2>2. CASE UbahStatus(p)
      <3>1. tx[p].d \in Detail /\ tx[p].ke \in StatusSOP
        BY <1>0, <2>2, BentukTx DEF UbahStatus, TxUbahStatus
      <3>2. tx[p].ke # "BERLAKU"  BY <1>0, <2>2 DEF UbahStatus, TxSah
      <3>3. DataOK'  BY <1>0, <2>2, <3>1 DEF DataOK, UbahStatus
      <3> QED  BY <1>0, <2>2, <3>1, <3>2, <3>3 DEF DataOK, UbahStatus
    <2>3. CASE Hapus(p)
      <3>1. DataOK'  BY <1>0, <2>3 DEF DataOK, Hapus
      <3> QED  BY <1>0, <2>3, <3>1 DEF DataOK, Hapus
    <2> QED  BY <2>1, <2>2, <2>3
  <1> QED  BY <1>1, <1>2, <1>3, RampungAman

(***************************************************************************)
(* A step that rewrites scores of members only: no row appears or goes.    *)
(***************************************************************************)
LEMMA HanyaNilai ==
    ASSUME IInv, UNCHANGED <<pengajuan, ttdBa>>,
           \A pg \in Pengajuan, d \in Detail :
               \/ nilai'[pg][d] = nilai[pg][d]
               \/ d \in Items(pg) /\ nilai'[pg][d] # BukanAnggota
    PROVE  Tumbuh /\ PengajuanKosong' /\ UrutanTandaTangan'
  <1>1. \A pg \in Pengajuan : Items(pg)' = Items(pg)  BY DEF Items
  <1> QED  BY <1>1 DEF Tumbuh, IInv, PengajuanKosong, UrutanTandaTangan

\* Such a write raises the version of the score; only isiNilai gives a new verdict.
LEMMA NilaiBerubah ==
    ASSUME IInv, NEW p \in Proses, KirimUlang(p) \/ IsiNilai(p) \/ TindakLanjut(p)
    PROVE  /\ DataOK'
           /\ \A pg \in Pengajuan, d \in Detail :
                 \/ nilai'[pg][d] = nilai[pg][d]
                 \/ /\ d \in Items(pg)
                    /\ nilai[pg][d] \in BarisNilai /\ nilai'[pg][d] \in BarisNilai
                    /\ nilai'[pg][d].versi = nilai[pg][d].versi + 1
                    /\ \/ nilai'[pg][d].hasil = nilai[pg][d].hasil
                       \/ /\ IsiNilai(p) /\ pg = tx[p].pg /\ d = tx[p].d
                          /\ nilai'[pg][d].hasil = tx[p].hasil
           /\ \A d \in Detail :
                 \/ status'[d] = status[d]
                 \/ /\ status[d] \in {"DIAJUKAN_EVALUASI", "SEDANG_DIEVALUASI"}
                    /\ status'[d] = "REVISI_DARI_EVALUATOR"
                 \/ KirimUlang(p) /\ d = tx[p].d /\ status'[d] = "SEDANG_DIEVALUASI"
  <1>0. TypeOK /\ DataOK /\ tx[p] \in Tx /\ TxSah(tx[p])
    BY DEF IInv, TypeOK, TransaksiSah
  <1>1. UNCHANGED <<pengajuan, ttdBa, ttdSop, pdf>>
    BY DEF KirimUlang, IsiNilai, TindakLanjut
  <1>2. CASE KirimUlang(p)
    <2>1. tx[p].d \in Detail /\ tx[p].tutup \subseteq Pengajuan
      BY <1>0, <1>2, BentukTx DEF KirimUlang, TxKirimUlangTulis
    <2>2. \A pg \in tx[p].tutup : tx[p].d \in Items(pg)
      BY <1>0, <1>2 DEF KirimUlang, TxSah
    <2>3. \A pg \in tx[p].tutup : nilai[pg][tx[p].d] \in BarisNilai
      BY <1>0, <2>1, <2>2 DEF DataOK, Items
    <2> DEFINE baru(pg) == [nilai[pg] EXCEPT ![tx[p].d] = Ditindaklanjuti(@)]
    <2>4. nilai' = [pg \in Pengajuan |-> IF pg \in tx[p].tutup THEN baru(pg) ELSE nilai[pg]]
      BY <1>2 DEF KirimUlang
    <2>5. \A pg \in tx[p].tutup :
             /\ baru(pg) \in [Detail -> BarisNilai \cup {BukanAnggota}]
             /\ baru(pg)[tx[p].d] \in BarisNilai
             /\ baru(pg)[tx[p].d].versi = nilai[pg][tx[p].d].versi + 1
             /\ baru(pg)[tx[p].d].hasil = nilai[pg][tx[p].d].hasil
             /\ \A d \in Detail \ {tx[p].d} : baru(pg)[d] = nilai[pg][d]
      BY <1>0, <2>1, <2>3 DEF DataOK, BarisNilai, StatusTindakLanjut, Ditindaklanjuti
    <2>6. nilai' \in [Pengajuan -> [Detail -> BarisNilai \cup {BukanAnggota}]]
      BY <1>0, <2>1, <2>4, <2>5 DEF DataOK
    <2>7. ASSUME NEW pg \in Pengajuan, NEW d \in Detail, nilai'[pg][d] # nilai[pg][d]
          PROVE  /\ d \in Items(pg)
                 /\ nilai[pg][d] \in BarisNilai /\ nilai'[pg][d] \in BarisNilai
                 /\ nilai'[pg][d].versi = nilai[pg][d].versi + 1
                 /\ nilai'[pg][d].hasil = nilai[pg][d].hasil
      <3>1. pg \in tx[p].tutup /\ nilai'[pg] = baru(pg)  BY <2>4, <2>7
      <3>2. d = tx[p].d  BY <2>5, <2>7, <3>1
      <3> HIDE DEF baru
      <3> QED  BY <2>2, <2>3, <2>5, <3>1, <3>2
    <2>8. status' = [status EXCEPT ![tx[p].d] = "SEDANG_DIEVALUASI"] /\ UNCHANGED versi
      BY <1>2 DEF KirimUlang
    <2>9. DataOK'  BY <1>0, <1>1, <2>6, <2>8 DEF DataOK, StatusSOP
    <2>10. \A d \in Detail : \/ status'[d] = status[d]
                             \/ d = tx[p].d /\ status'[d] = "SEDANG_DIEVALUASI"
      BY <1>0, <2>8 DEF DataOK
    <2> QED  BY <1>2, <2>7, <2>9, <2>10
  <1>3. CASE IsiNilai(p)
    <2>1. tx[p] \in TxIsiNilai
      BY <1>0, <1>3, BentukTx DEF IsiNilai
    <2>2. tx[p].d \in Items(tx[p].pg)
      BY <1>0, <1>3 DEF IsiNilai, TxSah
    <2>3. tx[p].pg \in Pengajuan /\ tx[p].d \in Detail
          /\ tx[p].hasil \in {"SESUAI", "PERLU_PERBAIKAN"} /\ tx[p].dibaca \in BarisNilai
      BY <2>1 DEF TxIsiNilai
    <2> DEFINE lama == nilai[tx[p].pg][tx[p].d]
               tl == TindakLanjutBaru(tx[p].hasil, tx[p].dibaca.tl, lama.tl)
               baru == [hasil |-> tx[p].hasil, tl |-> tl, versi |-> lama.versi + 1]
    <2>4. lama \in BarisNilai  BY <1>0, <2>2, <2>3 DEF DataOK, Items
    <2>5. tl \in StatusTindakLanjut \cup {"NULL"}
      BY <2>3, <2>4 DEF TindakLanjutBaru, BarisNilai, StatusTindakLanjut
    <2>6. baru \in BarisNilai
      BY <2>3, <2>4, <2>5 DEF BarisNilai, HasilEvaluasi
    <2>7. nilai' = [nilai EXCEPT ![tx[p].pg][tx[p].d] = baru]
      BY <1>3, Zenon DEF IsiNilai
    <2>8. \A d \in Detail : \/ status'[d] = status[d]
                            \/ /\ status[d] \in {"DIAJUKAN_EVALUASI", "SEDANG_DIEVALUASI"}
                               /\ status'[d] = "REVISI_DARI_EVALUATOR"
      BY <1>0, <1>3, <2>3 DEF IsiNilai, DataOK
    <2>9. status' \in [Detail -> StatusSOP \cup {"TIDAK_ADA", "DIHAPUS"}]
      BY <1>0, <1>3, <2>3 DEF IsiNilai, DataOK, StatusSOP
    <2>10. UNCHANGED versi  BY <1>3 DEF IsiNilai
    <2>11. nilai' \in [Pengajuan -> [Detail -> BarisNilai \cup {BukanAnggota}]]
      BY <1>0, <2>3, <2>6, <2>7 DEF DataOK
    <2>12. /\ nilai'[tx[p].pg][tx[p].d] = baru
           /\ \A pg \in Pengajuan, d \in Detail :
                 nilai'[pg][d] # nilai[pg][d] => pg = tx[p].pg /\ d = tx[p].d
      BY <1>0, <2>3, <2>7 DEF DataOK
    <2>13. baru.hasil = tx[p].hasil /\ baru.versi = lama.versi + 1  OBVIOUS
    <2>14. DataOK'  BY <1>0, <1>1, <2>9, <2>10, <2>11 DEF DataOK
    <2> HIDE DEF baru
    <2> QED  BY <1>3, <2>2, <2>4, <2>6, <2>8, <2>12, <2>13, <2>14
  <1>4. CASE TindakLanjut(p)
    <2>1. tx[p] \in TxTindakLanjut
      BY <1>0, <1>4, BentukTx DEF TindakLanjut
    <2>2. tx[p].d \in Items(tx[p].pg)
      BY <1>0, <1>4 DEF TindakLanjut, TxSah
    <2>3. tx[p].pg \in Pengajuan /\ tx[p].d \in Detail
      BY <2>1 DEF TxTindakLanjut
    <2> DEFINE lama == nilai[tx[p].pg][tx[p].d]
               baru == Ditindaklanjuti(lama)
    <2>4. lama \in BarisNilai  BY <1>0, <2>2, <2>3 DEF DataOK, Items
    <2>5. baru \in BarisNilai /\ baru.hasil = lama.hasil /\ baru.versi = lama.versi + 1
      BY <2>4 DEF BarisNilai, StatusTindakLanjut, Ditindaklanjuti
    <2>6. nilai' = [nilai EXCEPT ![tx[p].pg][tx[p].d] = baru]
      BY <1>4, Zenon DEF TindakLanjut
    <2>7. nilai' \in [Pengajuan -> [Detail -> BarisNilai \cup {BukanAnggota}]]
      BY <1>0, <2>3, <2>5, <2>6 DEF DataOK
    <2>8. /\ nilai'[tx[p].pg][tx[p].d] = baru
          /\ \A pg \in Pengajuan, d \in Detail :
                nilai'[pg][d] # nilai[pg][d] => pg = tx[p].pg /\ d = tx[p].d
      BY <1>0, <2>3, <2>6 DEF DataOK
    <2>9. UNCHANGED <<status, versi>>  BY <1>4 DEF TindakLanjut
    <2>10. DataOK'  BY <1>0, <1>1, <2>7, <2>9 DEF DataOK
    <2> HIDE DEF baru
    <2> QED  BY <2>2, <2>4, <2>5, <2>8, <2>9, <2>10
  <1> QED  BY <1>2, <1>3, <1>4

LEMMA NilaiAman ==
    ASSUME IInv, NEW p \in Proses, KirimUlang(p) \/ IsiNilai(p) \/ TindakLanjut(p)
    PROVE  IInv'
  <1>1. /\ Rampung(p)
        /\ UNCHANGED <<pengajuan, ttdBa, ttdSop, pdf>>
    BY DEF KirimUlang, IsiNilai, TindakLanjut
  <1>2. \A b \in BarisNilai : b # BukanAnggota
    BY DEF BarisNilai, BukanAnggota, HasilEvaluasi
  <1>3. \A pg \in Pengajuan, d \in Detail :
           \/ nilai'[pg][d] = nilai[pg][d]
           \/ d \in Items(pg) /\ nilai'[pg][d] # BukanAnggota
    BY <1>2, NilaiBerubah
  <1>4. DataOK' /\ \A d \in Detail : status'[d] = "BERLAKU" => status[d] = "BERLAKU"
    BY NilaiBerubah
  <1>5. Tumbuh /\ PengajuanKosong' /\ UrutanTandaTangan'
    BY <1>1, <1>3, HanyaNilai
  <1> QED  BY <1>1, <1>4, <1>5, RampungAman

LEMMA BuatPengajuanAman ==
    ASSUME IInv, NEW p \in Proses, BuatPengajuan(p)
    PROVE  IInv'
  <1>0. TypeOK /\ DataOK /\ tx[p] \in Tx  BY DEF IInv, TypeOK
  <1>1. tx[p].opd \in Opd /\ tx[p].items \subseteq Detail
    BY <1>0, BentukTx DEF BuatPengajuan, TxBuatPengajuan
  <1> DEFINE items == tx[p].items
             baris == [d \in Detail |-> IF d \in items THEN NilaiBaru ELSE BukanAnggota]
             baru == [st |-> "SEDANG_DIEVALUASI", opd |-> tx[p].opd, ver |-> 0]
  <1>2. PICK pg \in Pengajuan : /\ pengajuan[pg] = TanpaPengajuan
                               /\ pengajuan' = [pengajuan EXCEPT ![pg] = baru]
                               /\ nilai' = [nilai EXCEPT ![pg] = baris]
    BY DEF BuatPengajuan
  <1>3. /\ Rampung(p)
        /\ UNCHANGED <<versi, ttdBa, ttdSop, pdf>>
        /\ status' = [d \in Detail |->
              IF d \in items THEN "SEDANG_DIEVALUASI" ELSE status[d]]
    BY DEF BuatPengajuan
  <1>4. Items(pg) = {} /\ ttdBa[pg] = {}
    BY <1>2 DEF IInv, PengajuanKosong
  <1>5. baru # TanpaPengajuan
    BY DEF TanpaPengajuan
  <1>6. baris \in [Detail -> BarisNilai \cup {BukanAnggota}]
    BY DEF BarisNilai, NilaiBaru
  <1>7. DataOK'
    <2>1. nilai' \in [Pengajuan -> [Detail -> BarisNilai \cup {BukanAnggota}]]
      BY <1>0, <1>2, <1>6 DEF DataOK
    <2>2. pengajuan' \in [Pengajuan ->
             [st : StatusPengajuan, opd : Opd, ver : Nat] \cup {TanpaPengajuan}]
      BY <1>0, <1>1, <1>2 DEF DataOK, StatusPengajuan
    <2>3. status' \in [Detail -> StatusSOP \cup {"TIDAK_ADA", "DIHAPUS"}]
      BY <1>0, <1>3 DEF DataOK, StatusSOP
    <2> QED  BY <1>0, <1>3, <2>1, <2>2, <2>3 DEF DataOK
  <1>8. \A k \in Pengajuan \ {pg} : /\ Items(k)' = Items(k)
                                    /\ pengajuan'[k] = pengajuan[k]
    BY <1>0, <1>2 DEF DataOK, Items
  <1>9. pengajuan'[pg] = baru  BY <1>0, <1>2 DEF DataOK
  <1>10. Tumbuh
    BY <1>3, <1>4, <1>5, <1>8, <1>9 DEF Tumbuh
  <1>11. PengajuanKosong'
    BY <1>3, <1>5, <1>8, <1>9 DEF IInv, PengajuanKosong
  <1>12. UrutanTandaTangan'
    BY <1>3, <1>8, <1>9 DEF IInv, UrutanTandaTangan
  <1>13. \A d \in Detail : status'[d] = "BERLAKU" => status[d] = "BERLAKU" /\ pdf'[d] = pdf[d]
    BY <1>3
  <1> QED  BY <1>3, <1>7, <1>10, <1>11, <1>12, <1>13, RampungAman

(***************************************************************************)
(* A step that moves one existing submission on and signs for it.          *)
(***************************************************************************)
LEMMA HanyaPengajuan ==
    ASSUME IInv, NEW pg \in Pengajuan, pengajuan[pg] # TanpaPengajuan,
           NEW st \in StatusPengajuan, NEW peran \in SUBSET {"PJ_EVALUATOR", "PJ_PENYUSUN"},
           st = "DITANDATANGANI_PJ_EVALUATOR" => "PJ_EVALUATOR" \in ttdBa[pg] \cup peran,
           st \in {"DITANDATANGANI_PJ_PENYUSUN", "SELESAI"} =>
               ttdBa[pg] \cup peran = {"PJ_EVALUATOR", "PJ_PENYUSUN"},
           pengajuan' = [pengajuan EXCEPT ![pg] = Beralih(@, st)],
           ttdBa' = [ttdBa EXCEPT ![pg] = @ \cup peran],
           \A k \in Pengajuan : Items(k)' = Items(k)
    PROVE  /\ pengajuan' \in [Pengajuan ->
                 [st : StatusPengajuan, opd : Opd, ver : Nat] \cup {TanpaPengajuan}]
           /\ ttdBa' \in [Pengajuan -> SUBSET {"PJ_EVALUATOR", "PJ_PENYUSUN"}]
           /\ Tumbuh /\ PengajuanKosong' /\ UrutanTandaTangan'
  <1>1. DataOK  BY DEF IInv, TypeOK
  <1>2. pengajuan[pg] \in [st : StatusPengajuan, opd : Opd, ver : Nat]
    BY <1>1 DEF DataOK
  <1> DEFINE baru == Beralih(pengajuan[pg], st)
  <1>3. /\ baru \in [st : StatusPengajuan, opd : Opd, ver : Nat]
        /\ baru.st = st
    BY <1>2 DEF Beralih
  <1>4. baru # TanpaPengajuan
    BY <1>3 DEF TanpaPengajuan, StatusPengajuan
  <1>5. pengajuan' = [pengajuan EXCEPT ![pg] = baru]
    OBVIOUS
  <1>6. pengajuan'[pg] = baru /\ \A k \in Pengajuan \ {pg} : pengajuan'[k] = pengajuan[k]
    BY <1>1, <1>5 DEF DataOK
  <1>7. pengajuan' \in [Pengajuan ->
                 [st : StatusPengajuan, opd : Opd, ver : Nat] \cup {TanpaPengajuan}]
    BY <1>1, <1>3, <1>5 DEF DataOK
  <1>8. ttdBa' \in [Pengajuan -> SUBSET {"PJ_EVALUATOR", "PJ_PENYUSUN"}]
    BY <1>1 DEF DataOK
  <1>9. ttdBa'[pg] = ttdBa[pg] \cup peran /\ \A k \in Pengajuan \ {pg} : ttdBa'[k] = ttdBa[k]
    BY <1>1 DEF DataOK
  <1>10. Tumbuh  BY <1>4, <1>6, <1>9 DEF Tumbuh
  <1>11. PengajuanKosong'
    BY <1>4, <1>6, <1>9 DEF IInv, PengajuanKosong
  <1>12. UrutanTandaTangan'
    <2>1. ASSUME NEW k \in Pengajuan
          PROVE  /\ pengajuan'[k].st = "DITANDATANGANI_PJ_EVALUATOR" => "PJ_EVALUATOR" \in ttdBa'[k]
                 /\ pengajuan'[k].st \in {"DITANDATANGANI_PJ_PENYUSUN", "SELESAI"} =>
                       ttdBa'[k] = {"PJ_EVALUATOR", "PJ_PENYUSUN"}
      <3>1. CASE k = pg  BY <1>3, <1>6, <1>9, <3>1
      <3>2. CASE k # pg  BY <1>6, <1>9, <3>2 DEF IInv, UrutanTandaTangan
      <3> QED  BY <3>1, <3>2
    <2> QED  BY <2>1 DEF UrutanTandaTangan
  <1> QED  BY <1>7, <1>8, <1>10, <1>11, <1>12

LEMMA SelesaiTolakAman ==
    ASSUME IInv, NEW p \in Proses, Selesai(p) \/ Tolak(p)
    PROVE  IInv'
  <1>0. TypeOK /\ DataOK /\ tx[p] \in Tx /\ TxSah(tx[p])
    BY DEF IInv, TypeOK, TransaksiSah
  <1>1. PICK pg \in Pengajuan : pg = tx[p].pg
    BY <1>0, BentukTx DEF Selesai, Tolak, TxPengajuan, TxTolak
  <1>2. pengajuan[pg] # TanpaPengajuan
    BY <1>0, <1>1 DEF Selesai, Tolak, TxSah, TanpaPengajuan
  <1>3. PICK st \in {"SELESAI_DIEVALUASI", "DITOLAK"} :
            pengajuan' = [pengajuan EXCEPT ![pg] = Beralih(@, st)]
    BY <1>1, Zenon DEF Selesai, Tolak
  <1>4. Rampung(p) /\ UNCHANGED <<versi, ttdBa, ttdSop, pdf>>
    BY DEF Selesai, Tolak
  <1>5. /\ nilai' \in [Pengajuan -> [Detail -> BarisNilai \cup {BukanAnggota}]]
        /\ \A k \in Pengajuan : Items(k)' = Items(k)
    <2>1. CASE Selesai(p)
      <3>1. UNCHANGED nilai  BY <2>1 DEF Selesai
      <3> QED  BY <1>0, <3>1 DEF DataOK, Items
    <2>2. CASE Tolak(p)
      <3> DEFINE tertolak(d) ==
                    [hasil |-> "DITOLAK", tl |-> "NULL", versi |-> nilai[pg][d].versi + 1]
                 baris == [d \in Detail |->
                              IF d \in Items(pg) THEN tertolak(d) ELSE nilai[pg][d]]
      <3>1. nilai' = [nilai EXCEPT ![pg] = baris]
        BY <1>1, <2>2 DEF Tolak
      <3>2. \A d \in Items(pg) : nilai[pg][d] \in BarisNilai
        BY <1>0, <1>1 DEF DataOK, Items
      <3>3. \A d \in Items(pg) : tertolak(d) \in BarisNilai /\ tertolak(d) # BukanAnggota
        BY <3>2 DEF BarisNilai, HasilEvaluasi, BukanAnggota
      <3>4. baris \in [Detail -> BarisNilai \cup {BukanAnggota}]
        <4>1. \A d \in Detail : nilai[pg][d] \in BarisNilai \cup {BukanAnggota}
          BY <1>0, <1>1 DEF DataOK
        <4> HIDE DEF tertolak
        <4> QED  BY <3>3, <4>1
      <3>5. nilai' \in [Pengajuan -> [Detail -> BarisNilai \cup {BukanAnggota}]]
        BY <1>0, <3>1, <3>4 DEF DataOK
      <3>6. nilai'[pg] = baris /\ \A k \in Pengajuan \ {pg} : nilai'[k] = nilai[k]
        BY <1>0, <1>1, <3>1 DEF DataOK
      <3>7. \A d \in Detail : baris[d] # BukanAnggota <=> d \in Items(pg)
        BY <3>3 DEF Items
      <3> HIDE DEF baris
      <3>8. Items(pg)' = Items(pg)
        BY <3>6, <3>7 DEF Items
      <3>9. \A k \in Pengajuan \ {pg} : Items(k)' = Items(k)
        BY <3>6 DEF Items
      <3> QED  BY <1>1, <3>5, <3>8, <3>9
    <2> QED  BY <2>1, <2>2
  <1>6. PICK akhir \in StatusSOP \ {"BERLAKU"} :
            status' = [d \in Detail |-> IF d \in Items(pg) THEN akhir ELSE status[d]]
    BY <1>1 DEF Selesai, Tolak, StatusSOP
  <1>7. /\ pengajuan' \in [Pengajuan ->
              [st : StatusPengajuan, opd : Opd, ver : Nat] \cup {TanpaPengajuan}]
        /\ Tumbuh /\ PengajuanKosong' /\ UrutanTandaTangan'
    <2>1. ttdBa' = [ttdBa EXCEPT ![pg] = @ \cup {}]
      BY <1>0, <1>4 DEF DataOK
    <2>2. st \in StatusPengajuan  BY DEF StatusPengajuan
    <2>3. {} \in SUBSET {"PJ_EVALUATOR", "PJ_PENYUSUN"}  OBVIOUS
    <2> QED  BY <1>1, <1>2, <1>3, <1>5, <2>1, <2>2, <2>3, HanyaPengajuan
  <1>8. DataOK'
    BY <1>0, <1>4, <1>5, <1>6, <1>7 DEF DataOK
  <1>9. \A d \in Detail : status'[d] = "BERLAKU" => status[d] = "BERLAKU" /\ pdf'[d] = pdf[d]
    BY <1>4, <1>6
  <1> QED  BY <1>4, <1>7, <1>8, <1>9, RampungAman

LEMMA BeritaAcaraAman ==
    ASSUME IInv, NEW p \in Proses, BaEvaluator(p) \/ BaPjPenyusun(p)
    PROVE  IInv'
  <1>0. TypeOK /\ DataOK /\ tx[p] \in Tx /\ TxSah(tx[p])
    BY DEF IInv, TypeOK, TransaksiSah
  <1> DEFINE pg == tx[p].pg
  <1>1. pg \in Pengajuan
    BY <1>0, BentukTx DEF BaEvaluator, BaPjPenyusun, TxPengajuan
  <1>2. pengajuan[pg] # TanpaPengajuan
    BY <1>0 DEF BaEvaluator, BaPjPenyusun, TxSah
  <1>3. Rampung(p) /\ UNCHANGED <<versi, nilai, ttdSop, pdf>>
    BY DEF BaEvaluator, BaPjPenyusun
  <1>4. \A k \in Pengajuan : Items(k)' = Items(k)
    BY <1>3 DEF Items
  <1>5. /\ pengajuan' \in [Pengajuan ->
              [st : StatusPengajuan, opd : Opd, ver : Nat] \cup {TanpaPengajuan}]
        /\ ttdBa' \in [Pengajuan -> SUBSET {"PJ_EVALUATOR", "PJ_PENYUSUN"}]
        /\ Tumbuh /\ PengajuanKosong' /\ UrutanTandaTangan'
    <2>1. CASE BaEvaluator(p)
      <3>1. /\ pengajuan' = [pengajuan EXCEPT ![pg] = Beralih(@, "DITANDATANGANI_PJ_EVALUATOR")]
            /\ ttdBa' = [ttdBa EXCEPT ![pg] = @ \cup {"PJ_EVALUATOR"}]
        BY <2>1 DEF BaEvaluator
      <3>2. "DITANDATANGANI_PJ_EVALUATOR" \in StatusPengajuan  BY DEF StatusPengajuan
      <3>3. {"PJ_EVALUATOR"} \in SUBSET {"PJ_EVALUATOR", "PJ_PENYUSUN"}
            /\ "PJ_EVALUATOR" \in ttdBa[pg] \cup {"PJ_EVALUATOR"}
        OBVIOUS
      <3> HIDE DEF pg
      <3> QED  BY <1>1, <1>2, <1>4, <3>1, <3>2, <3>3, HanyaPengajuan
    <2>2. CASE BaPjPenyusun(p)
      <3>1. /\ pengajuan' = [pengajuan EXCEPT ![pg] = Beralih(@, "DITANDATANGANI_PJ_PENYUSUN")]
            /\ ttdBa' = [ttdBa EXCEPT ![pg] = @ \cup {"PJ_PENYUSUN"}]
        BY <2>2 DEF BaPjPenyusun
      <3>2. "DITANDATANGANI_PJ_PENYUSUN" \in StatusPengajuan  BY DEF StatusPengajuan
      <3>3. "PJ_EVALUATOR" \in ttdBa[pg]
        BY <1>0, <2>2 DEF BaPjPenyusun, TxSah
      <3>4. ttdBa[pg] \subseteq {"PJ_EVALUATOR", "PJ_PENYUSUN"}
        BY <1>0, <1>1 DEF DataOK
      <3>5. {"PJ_PENYUSUN"} \in SUBSET {"PJ_EVALUATOR", "PJ_PENYUSUN"}
            /\ ttdBa[pg] \cup {"PJ_PENYUSUN"} = {"PJ_EVALUATOR", "PJ_PENYUSUN"}
        BY <3>3, <3>4
      <3> HIDE DEF pg
      <3> QED  BY <1>1, <1>2, <1>4, <3>1, <3>2, <3>5, HanyaPengajuan
    <2> QED  BY <2>1, <2>2
  <1>6. \A d \in Detail : status'[d] \in {status[d], "DIVERIFIKASI_PJ_EVALUATOR_ORGANISASI"}
    BY DEF BaEvaluator, BaPjPenyusun
  <1>7. status' \in [Detail -> StatusSOP \cup {"TIDAK_ADA", "DIHAPUS"}]
    BY <1>0 DEF BaEvaluator, BaPjPenyusun, DataOK, StatusSOP
  <1>8. DataOK'
    BY <1>0, <1>3, <1>5, <1>7 DEF DataOK
  <1> QED  BY <1>3, <1>5, <1>6, <1>8, RampungAman

LEMMA SiapkanAman ==
    ASSUME IInv, NEW p \in Proses, NEW pg \in Pengajuan, SiapkanPengesahan(p, pg)
    PROVE  IInv'
  <1>0. TypeOK /\ DataOK  BY DEF IInv, TypeOK
  <1> DEFINE r == [op |-> "PENGESAHAN", pg |-> pg]
  <1>1. UNCHANGED <<status, versi, pengajuan, nilai, ttdBa, ttdSop>>
    BY DEF SiapkanPengesahan
  <1>2. r \in Tx /\ TxSah(r)  BY DEF Tx, TxPengajuan, TxSah
  <1>3. tx' = [tx EXCEPT ![p] = r]  BY DEF SiapkanPengesahan
  <1>4. pdf' = [d \in Detail |->
                  IF d \in Items(pg) /\ pdf[d] = "TANPA" THEN "SIAP" ELSE pdf[d]]
    BY DEF SiapkanPengesahan
  <1>5. TypeOK'
    <2>1. tx' \in [Proses -> Tx]  BY <1>0, <1>2, <1>3 DEF TypeOK
    <2>2. DataOK'  BY <1>0, <1>1, <1>4 DEF DataOK
    <2> QED  BY <2>1, <2>2 DEF TypeOK
  <1>6. Tumbuh /\ PengajuanKosong' /\ UrutanTandaTangan'
    BY <1>1, HanyaVersi
  <1>7. TransaksiSah'
    <2>1. ASSUME NEW q \in Proses PROVE TxSah(tx[q])'
      <3>1. tx'[q] \in {r, tx[q]}  BY <1>0, <1>3 DEF TypeOK
      <3>2. TxSah(tx[q]) /\ tx[q] \in Tx  BY DEF IInv, TransaksiSah, TypeOK
      <3>3. \A t \in Tx : TxSah(t) => TxSah(t)'  BY <1>6, TxSahTumbuh
      <3>4. CASE tx'[q] = r  BY <1>2, <3>3, <3>4 DEF TxSah
      <3>5. CASE tx'[q] = tx[q]  BY <3>2, <3>3, <3>5 DEF TxSah
      <3> QED  BY <3>1, <3>4, <3>5
    <2> QED  BY <2>1 DEF TransaksiSah
  <1>8. \A d \in Detail : status'[d] = "BERLAKU" => status[d] = "BERLAKU" /\ pdf'[d] = pdf[d]
    BY <1>1, <1>4 DEF IInv, PengesahanLengkap
  <1>9. PengesahanLengkap' /\ SatuBerlakuPerSop'
    BY <1>1, <1>5, <1>6, <1>8, TidakTerbit DEF IInv
  <1> QED  BY <1>5, <1>6, <1>7, <1>9 DEF IInv

(***************************************************************************)
(* The only commit that puts versions into force: the Berita Acara is      *)
(* complete, and what was in force of the same SOPs is replaced.           *)
(***************************************************************************)
LEMMA FinalisasiAman ==
    ASSUME IInv, NEW p \in Proses, Finalisasi(p)
    PROVE  IInv'
  <1>0. TypeOK /\ DataOK /\ tx[p] \in Tx /\ tx[p].op = "FINALISASI"
    BY DEF IInv, TypeOK, Finalisasi
  <1>1. PICK pg \in Pengajuan : pg = tx[p].pg
    BY <1>0, BentukTx DEF TxFinalisasi
  <1> DEFINE items == Items(pg)
             berlaku == {e \in tx[p].berlaku : pdf[e] # "TANPA"}
  <1>2. PICK urutan \in SUBSET items :
            /\ TerakhirPerSop(items, urutan)
            /\ status' = [d \in Detail |->
                  IF d \in urutan THEN "BERLAKU"
                  ELSE IF Digantikan(d, items, urutan, StatusBerlaku) THEN "DIGANTIKAN"
                  ELSE status[d]]
            /\ pdf' = [d \in Detail |->
                  IF d \in urutan THEN "PUBLISHED"
                  ELSE IF Digantikan(d, items, urutan, berlaku) THEN "SUPERSEDED"
                  ELSE pdf[d]]
    BY <1>1 DEF Finalisasi
  <1>3. /\ pengajuan[pg].st = "DITANDATANGANI_PJ_PENYUSUN"
        /\ pengajuan' = [pengajuan EXCEPT ![pg] = Beralih(@, "SELESAI")]
        /\ ttdSop' = ttdSop \cup items
        /\ Rampung(p)
        /\ UNCHANGED <<versi, nilai, ttdBa>>
    BY <1>1 DEF Finalisasi
  <1>4. items \subseteq Detail /\ \A k \in Pengajuan : Items(k)' = Items(k)
    BY <1>3 DEF Items
  <1>5. ttdBa[pg] = {"PJ_EVALUATOR", "PJ_PENYUSUN"}
    BY <1>3 DEF IInv, UrutanTandaTangan
  <1>6. /\ pengajuan' \in [Pengajuan ->
              [st : StatusPengajuan, opd : Opd, ver : Nat] \cup {TanpaPengajuan}]
        /\ Tumbuh /\ PengajuanKosong' /\ UrutanTandaTangan'
    <2>1. ttdBa' = [ttdBa EXCEPT ![pg] = @ \cup {}]  BY <1>0, <1>3 DEF DataOK
    <2>2. pengajuan[pg] # TanpaPengajuan  BY <1>3 DEF TanpaPengajuan
    <2>3. "SELESAI" \in StatusPengajuan  BY DEF StatusPengajuan
    <2>4. {} \in SUBSET {"PJ_EVALUATOR", "PJ_PENYUSUN"}
          /\ ttdBa[pg] \cup {} = {"PJ_EVALUATOR", "PJ_PENYUSUN"}
      BY <1>5
    <2> QED  BY <1>3, <1>4, <2>1, <2>2, <2>3, <2>4, HanyaPengajuan
  <1>7. TypeOK' /\ TransaksiSah'
    <2>1. status' \in [Detail -> StatusSOP \cup {"TIDAK_ADA", "DIHAPUS"}]
      BY <1>0, <1>2 DEF DataOK, StatusSOP
    <2>2. pdf' \in [Detail -> {"TANPA", "SIAP", "PUBLISHED", "SUPERSEDED", "REVOKED"}]
      BY <1>0, <1>2 DEF DataOK
    <2>3. DataOK'
      BY <1>0, <1>3, <1>4, <1>6, <2>1, <2>2 DEF DataOK
    <2>4. tx' \in [Proses -> Tx] /\ TransaksiSah'
      BY <1>3, <1>6, RampungSah DEF IInv
    <2> QED  BY <2>3, <2>4 DEF TypeOK
  <1>8. \A d \in Detail : status'[d] = "BERLAKU" =>
            d \in urutan \/ (status[d] = "BERLAKU" /\ \A t \in items : t[1] # d[1])
    BY <1>2 DEF Digantikan, StatusBerlaku
  <1>9. SatuBerlakuPerSop'
    <2>1. ASSUME NEW d \in Detail, NEW e \in Detail, d[1] = e[1],
                 status'[d] = "BERLAKU", status'[e] = "BERLAKU"
          PROVE  d = e
      <3>1. CASE d \in urutan /\ e \in urutan
        BY <1>2, <2>1, <3>1 DEF TerakhirPerSop
      <3>2. CASE d \notin urutan
        <4>1. status[d] = "BERLAKU" /\ \A t \in items : t[1] # e[1]
          BY <1>8, <2>1, <3>2
        <4>2. status[e] = "BERLAKU"  BY <1>2, <1>8, <2>1, <4>1
        <4> QED  BY <2>1, <4>1, <4>2 DEF IInv, SatuBerlakuPerSop
      <3>3. CASE e \notin urutan
        <4>1. status[e] = "BERLAKU" /\ \A t \in items : t[1] # d[1]
          BY <1>8, <2>1, <3>3
        <4>2. status[d] = "BERLAKU"  BY <1>2, <1>8, <2>1, <4>1
        <4> QED  BY <2>1, <4>1, <4>2 DEF IInv, SatuBerlakuPerSop
      <3> QED  BY <3>1, <3>2, <3>3
    <2> QED  BY <2>1 DEF SatuBerlakuPerSop
  <1>10. PengesahanLengkap'
    <2>1. ASSUME NEW d \in Detail, status'[d] = "BERLAKU"
          PROVE  /\ d \in ttdSop'
                 /\ pdf'[d] = "PUBLISHED"
                 /\ \E k \in Pengajuan : /\ d \in Items(k)'
                                         /\ ttdBa'[k] = {"PJ_EVALUATOR", "PJ_PENYUSUN"}
      <3>1. CASE d \in urutan
        <4>1. d \in ttdSop' /\ pdf'[d] = "PUBLISHED"  BY <1>2, <1>3, <3>1
        <4>2. d \in Items(pg)' /\ ttdBa'[pg] = {"PJ_EVALUATOR", "PJ_PENYUSUN"}
          BY <1>2, <1>3, <1>4, <1>5, <3>1
        <4> QED  BY <4>1, <4>2
      <3>2. CASE d \notin urutan
        <4>1. status[d] = "BERLAKU" /\ \A t \in items : t[1] # d[1]
          BY <1>8, <2>1, <3>2
        <4>2. PICK k \in Pengajuan : /\ d \in Items(k)
                                     /\ ttdBa[k] = {"PJ_EVALUATOR", "PJ_PENYUSUN"}
          BY <4>1 DEF IInv, PengesahanLengkap
        <4>3. d \in ttdSop /\ pdf[d] = "PUBLISHED"
          BY <4>1 DEF IInv, PengesahanLengkap
        <4>4. pdf'[d] = pdf[d]
          BY <1>2, <3>2, <4>1 DEF Digantikan
        <4>5. d \in Items(k)' /\ ttdBa'[k] = {"PJ_EVALUATOR", "PJ_PENYUSUN"}
          BY <1>3, <1>4, <4>2
        <4> QED  BY <1>3, <4>3, <4>4, <4>5
      <3> QED  BY <3>1, <3>2
    <2> QED  BY <2>1 DEF PengesahanLengkap
  <1> QED  BY <1>6, <1>7, <1>9, <1>10 DEF IInv

-----------------------------------------------------------------------------
LEMMA InitIInv == Init => IInv
  <1> SUFFICES ASSUME Init PROVE IInv
    OBVIOUS
  <1>1. DataOK
    BY DEF Init, DataInit, DataOK
  <1>2. tx \in [Proses -> Tx] /\ TransaksiSah
    BY IdleSah DEF Init, TransaksiSah
  <1>3. \A pg \in Pengajuan : Items(pg) = {}
    BY DEF Init, DataInit, Items
  <1>4. PengajuanKosong
    BY <1>3 DEF Init, DataInit, PengajuanKosong
  <1>5. UrutanTandaTangan
    BY DEF Init, DataInit, UrutanTandaTangan, TanpaPengajuan
  <1>6. PengesahanLengkap /\ SatuBerlakuPerSop
    BY DEF Init, DataInit, PengesahanLengkap, SatuBerlakuPerSop
  <1> QED  BY <1>1, <1>2, <1>4, <1>5, <1>6 DEF IInv, TypeOK

LEMMA NextIInv == IInv /\ [Next]_vars => IInv'
  <1> SUFFICES ASSUME IInv, [Next]_vars PROVE IInv'
    OBVIOUS
  <1>1. ASSUME NEW s \in Sop, BuatSop(s) PROVE IInv'
    BY <1>1, BuatSopAman
  <1>2. ASSUME NEW p \in Proses, CatalogNext(p) PROVE IInv'
    BY <1>2, MulaiKatalogAman, BacaUmpanBalikAman, KatalogAman, NilaiAman, Zenon
       DEF CatalogNext
  <1>3. ASSUME NEW p \in Proses, EvaluasiNext(p) PROVE IInv'
    BY <1>3, MulaiBuatPengajuanAman, MulaiEvaluasiAman, BuatPengajuanAman, NilaiAman,
       SelesaiTolakAman, Zenon
       DEF EvaluasiNext
  <1>4. ASSUME NEW p \in Proses, TteNext(p) PROVE IInv'
    <2>1. ASSUME MulaiFinalisasi(p) PROVE IInv'
      <3>1. tx[p] \in Tx /\ tx[p].op = "PENGESAHAN"
        BY <2>1 DEF IInv, TypeOK, MulaiFinalisasi
      <3>2. tx[p].pg \in Pengajuan  BY <3>1, BentukTx DEF TxPengajuan
      <3> QED  BY <2>1, <3>2, MulaiTteAman
    <2> QED  BY <1>4, <2>1, MulaiTteAman, SiapkanAman, BeritaAcaraAman, FinalisasiAman, Zenon
             DEF TteNext
  <1>5. ASSUME NEW p \in Proses, Batal(p) PROVE IInv'
    BY <1>5, BatalAman
  <1>6. CASE UNCHANGED vars
    <2>1. \A pg \in Pengajuan : Items(pg)' = Items(pg)
      BY <1>6 DEF vars, Items
    <2>2. TransaksiSah'
      <3>1. Tumbuh  BY <1>6, <2>1 DEF vars, Tumbuh
      <3>2. \A t \in Tx : TxSah(t) => TxSah(t)'  BY <3>1, TxSahTumbuh
      <3> QED  BY <1>6, <3>2 DEF vars, IInv, TypeOK, TransaksiSah, TxSah
    <2> QED  BY <1>6, <2>1, <2>2 DEF vars, IInv, TypeOK, DataOK, PengajuanKosong,
                UrutanTandaTangan, PengesahanLengkap, SatuBerlakuPerSop
  <1> QED  BY <1>1, <1>2, <1>3, <1>4, <1>5, <1>6, Zenon DEF Next

(***************************************************************************)
(* The inductive invariant holds in every reachable state.                 *)
(***************************************************************************)
THEOREM Invarian == Spec => []IInv
  BY InitIInv, NextIInv, PTL DEF Spec

\* Every table and every transaction in flight keeps its form.
THEOREM TipeBenar == Spec => []TypeOK
  BY Invarian, PTL DEF IInv

\* An SOP never has two versions in force, however many requests run at once.
THEOREM BerlakuTunggal == Spec => []SatuBerlakuPerSop
  BY Invarian, PTL DEF IInv

\* A version in force carries its three signatures and the published PDF.
THEOREM BerlakuDisahkan == Spec => []PengesahanLengkap
  BY Invarian, PTL DEF IInv

\* No step of a submission is reached before the signatures it stands for exist.
THEOREM TandaTanganBerurutan == Spec => []UrutanTandaTangan
  BY Invarian, PTL DEF IInv

-----------------------------------------------------------------------------
(***************************************************************************)
(* The workflow implements the public archive: each of its steps leaves    *)
(* the archive as it is, withdraws one version, or publishes a batch.      *)
(***************************************************************************)

\* What the archive shows of one version.
LEMMA KeadaanVersi ==
    ASSUME IInv, NEW d \in Detail
    PROVE  /\ Keadaan[d] = "BERLAKU" <=> status[d] = "BERLAKU"
           /\ Keadaan[d] = "ARSIP" <=> status[d] # "BERLAKU" /\ d \in ttdSop
           /\ Keadaan[d] = "BELUM" <=> status[d] # "BERLAKU" /\ d \notin ttdSop
           /\ Keadaan[d] = "BELUM" <=> d \notin ttdSop
  BY DEF Keadaan, IInv, PengesahanLengkap

\* Without a new signature at most one version can leave the archive's front.
LEMMA TurunSatu ==
    ASSUME IInv, NEW x \in Detail, UNCHANGED ttdSop,
           status'[x] = "BERLAKU" => status[x] = "BERLAKU",
           \A d \in Detail \ {x} : status'[d] = "BERLAKU" <=> status[d] = "BERLAKU"
    PROVE  [Arsip!ArsipNext]_Keadaan
  <1>1. CASE status'[x] = "BERLAKU" \/ status[x] # "BERLAKU"
    <2>1. \A d \in Detail : status'[d] = "BERLAKU" <=> status[d] = "BERLAKU"
      BY <1>1
    <2> QED  BY <2>1 DEF Keadaan
  <1>2. CASE status'[x] # "BERLAKU" /\ status[x] = "BERLAKU"
    <2>1. x \in ttdSop /\ Keadaan[x] = "BERLAKU"
      BY <1>2 DEF IInv, PengesahanLengkap, Keadaan
    <2>2. Keadaan' = [Keadaan EXCEPT ![x] = "ARSIP"]
      BY <1>2, <2>1 DEF Keadaan
    <2>3. Arsip!Tarik(x)  BY <2>1, <2>2 DEF Arsip!Tarik
    <2> QED  BY <2>3 DEF Arsip!ArsipNext
  <1> QED  BY <1>1, <1>2

\* Without a new signature and a change of the versions in force nothing is seen.
LEMMA TidakTerlihat ==
    ASSUME UNCHANGED ttdSop,
           \A d \in Detail : status'[d] = "BERLAKU" <=> status[d] = "BERLAKU"
    PROVE  [Arsip!ArsipNext]_Keadaan
  BY DEF Keadaan

LEMMA FinalisasiTerbit ==
    ASSUME IInv, NEW p \in Proses, Finalisasi(p)
    PROVE  [Arsip!ArsipNext]_Keadaan
  <1>0. DataOK /\ tx[p] \in Tx /\ tx[p].op = "FINALISASI"
    BY DEF IInv, TypeOK, Finalisasi
  <1>1. PICK pg \in Pengajuan : pg = tx[p].pg
    BY <1>0, BentukTx DEF TxFinalisasi
  <1> DEFINE items == Items(pg)
  <1>2. PICK urutan \in SUBSET items :
            /\ TerakhirPerSop(items, urutan)
            /\ status' = [d \in Detail |->
                  IF d \in urutan THEN "BERLAKU"
                  ELSE IF Digantikan(d, items, urutan, StatusBerlaku) THEN "DIGANTIKAN"
                  ELSE status[d]]
    BY <1>1 DEF Finalisasi
  <1>3. items \cap ttdSop = {} /\ ttdSop' = ttdSop \cup items
    BY <1>1 DEF Finalisasi
  <1>4. items \subseteq Detail  BY DEF Items
  <1>5. CASE items = {}
    <2>1. UNCHANGED ttdSop  BY <1>3, <1>5
    <2>2. \A d \in Detail : status'[d] = status[d]
      BY <1>2, <1>5 DEF Digantikan
    <2> QED  BY <2>1, <2>2, TidakTerlihat
  <1>6. CASE items # {}
    <2>1. \A d \in items : Keadaan[d] = "BELUM"
      BY <1>3, <1>4, KeadaanVersi
    <2>2. /\ \A d \in items : \E t \in urutan : t[1] = d[1]
          /\ \A t, u \in urutan : t[1] = u[1] => t = u
      BY <1>2 DEF TerakhirPerSop
    <2>3. ASSUME NEW d \in Detail
          PROVE  Keadaan'[d] = IF d \in urutan THEN "BERLAKU"
                               ELSE IF \/ d \in items
                                       \/ /\ Keadaan[d] = "BERLAKU"
                                          /\ \E t \in items : t[1] = d[1]
                               THEN "ARSIP"
                               ELSE Keadaan[d]
      <3>1. CASE d \in urutan  BY <1>2, <3>1 DEF Keadaan
      <3>2. CASE d \in items \ urutan
        <4>1. status'[d] = "DIGANTIKAN"  BY <1>2, <3>2 DEF Digantikan
        <4> QED  BY <1>3, <3>2, <4>1 DEF Keadaan
      <3>3. CASE d \notin items /\ status[d] = "BERLAKU" /\ \E t \in items : t[1] = d[1]
        <4>1. status'[d] = "DIGANTIKAN"
          BY <1>2, <3>3 DEF Digantikan, StatusBerlaku
        <4>2. d \in ttdSop  BY <3>3 DEF IInv, PengesahanLengkap
        <4> QED  BY <1>2, <1>3, <3>3, <4>1, <4>2 DEF Keadaan
      <3>4. CASE d \notin items /\ ~(status[d] = "BERLAKU" /\ \E t \in items : t[1] = d[1])
        <4>1. status'[d] = status[d]
          BY <1>2, <3>4 DEF Digantikan, StatusBerlaku
        <4>2. Keadaan'[d] = Keadaan[d]
          BY <1>3, <3>4, <4>1 DEF Keadaan
        <4>3. Keadaan[d] = "BERLAKU" <=> status[d] = "BERLAKU"
          BY KeadaanVersi
        <4> QED  BY <1>2, <3>4, <4>2, <4>3
      <3> QED  BY <3>1, <3>2, <3>3, <3>4
    <2> DEFINE induk == [d \in Detail |-> d[1]]
    <2>4. urutan \subseteq Detail /\ \A d \in Detail : induk[d] = d[1]
      BY <1>2, <1>4
    <2>5. /\ \A d \in items : \E t \in urutan : induk[t] = induk[d]
          /\ \A t, u \in urutan : induk[t] = induk[u] => t = u
      <3> HIDE DEF induk
      <3> QED  BY <1>4, <2>2, <2>4
    <2>6. \A d \in Detail :
             (\E t \in items : t[1] = d[1]) <=> (\E t \in items : induk[t] = induk[d])
      <3> HIDE DEF induk
      <3> QED  BY <1>4, <2>4
    <2>7. Keadaan' = [d \in Detail |->
                        IF d \in urutan THEN "BERLAKU"
                        ELSE IF d \in items \/ Arsip!Tergantikan(d, items) THEN "ARSIP"
                        ELSE Keadaan[d]]
      <3>1. \A d \in Detail : Arsip!Tergantikan(d, items) <=>
                  Keadaan[d] = "BERLAKU" /\ \E t \in items : t[1] = d[1]
        BY <2>6 DEF Arsip!Tergantikan
      <3>2. Keadaan' = [d \in Detail |-> Keadaan'[d]]  BY DEF Keadaan
      <3> QED  BY <2>3, <3>1, <3>2
    <2>8. Arsip!Terbit(items, urutan)
      BY <1>6, <2>1, <2>5, <2>7 DEF Arsip!Terbit
    <2> QED  BY <1>2, <1>4, <2>8 DEF Arsip!ArsipNext
  <1> QED  BY <1>5, <1>6

LEMMA LangkahArsip == IInv /\ [Next]_vars => [Arsip!ArsipNext]_Keadaan
  <1> SUFFICES ASSUME IInv, [Next]_vars PROVE [Arsip!ArsipNext]_Keadaan
    OBVIOUS
  <1>0. TypeOK /\ DataOK  BY DEF IInv, TypeOK
  <1>1. CASE UNCHANGED <<status, ttdSop>>
    BY <1>1, TidakTerlihat
  <1>2. ASSUME NEW s \in Sop, BuatSop(s) PROVE [Arsip!ArsipNext]_Keadaan
    <2>1. <<s, 1>> \in BarisSop(s)  BY MaxBarisAssumption DEF BarisSop
    <2> QED  BY <1>0, <1>2, <2>1, TidakTerlihat DEF BuatSop, DataOK
  <1>3. ASSUME NEW p \in Proses, CatalogNext(p) PROVE [Arsip!ArsipNext]_Keadaan
    <2>0. tx[p] \in Tx /\ TxSah(tx[p])  BY <1>0 DEF TypeOK, IInv, TransaksiSah
    <2>1. CASE Klon(p)
      BY <1>0, <2>1, TidakTerlihat DEF Klon, DataOK
    <2>2. CASE UbahStatus(p)
      <3>1. tx[p].d \in Detail  BY <2>0, <2>2, BentukTx DEF UbahStatus, TxUbahStatus
      <3>2. tx[p].ke # "BERLAKU"  BY <2>0, <2>2 DEF UbahStatus, TxSah
      <3> QED  BY <1>0, <2>2, <3>1, <3>2, TurunSatu DEF UbahStatus, DataOK
    <2>3. CASE KirimUlang(p)
      <3>1. tx[p].d \in Detail
        BY <2>0, <2>3, BentukTx DEF KirimUlang, TxKirimUlangTulis
      <3>2. status' = [status EXCEPT ![tx[p].d] = "SEDANG_DIEVALUASI"] /\ UNCHANGED ttdSop
        BY <2>3 DEF KirimUlang
      <3> QED  BY <1>0, <3>1, <3>2, TurunSatu DEF DataOK
    <2>4. CASE Hapus(p)
      <3>1. tx[p].d \in Detail  BY <2>0, <2>4, BentukTx DEF Hapus, TxHapus
      <3> QED  BY <1>0, <2>4, <3>1, TurunSatu DEF Hapus, DataOK
    <2>5. CASE \E d \in Detail :
                 \/ MulaiKlon(p, d)
                 \/ \E ke \in StatusSOP : MulaiTransisi(p, d, ke)
                 \/ MulaiCabut(p, d)
                 \/ MulaiKirimUlang(p, d)
                 \/ MulaiHapus(p, d)
      BY <1>1, <2>5 DEF MulaiKlon, MulaiTransisi, MulaiCabut, MulaiKirimUlang, MulaiHapus,
                        Mulai, data
    <2>6. CASE BacaUmpanBalik(p)
      BY <1>1, <2>6 DEF BacaUmpanBalik, Mulai, data
    <2> QED  BY <1>3, <2>1, <2>2, <2>3, <2>4, <2>5, <2>6, Zenon DEF CatalogNext
  <1>4. ASSUME NEW p \in Proses, EvaluasiNext(p) PROVE [Arsip!ArsipNext]_Keadaan
    <2>1. CASE BuatPengajuan(p)
      BY <1>0, <2>1, TidakTerlihat DEF BuatPengajuan, DataOK
    <2>2. CASE IsiNilai(p)
      BY <1>0, <2>2, TidakTerlihat DEF IsiNilai, DataOK
    <2>3. CASE Selesai(p)
      BY <1>0, <2>3, TidakTerlihat DEF Selesai, SemuaDapatDinilai, DapatDinilai, DataOK
    <2>4. CASE Tolak(p)
      BY <1>0, <2>4, TidakTerlihat DEF Tolak, SemuaDapatDinilai, DapatDinilai, DataOK
    <2>5. CASE TindakLanjut(p)
      BY <1>1, <2>5 DEF TindakLanjut
    <2>6. CASE \/ \E o \in Opd, items \in SUBSET Detail : MulaiBuatPengajuan(p, o, items)
               \/ \E pg \in Pengajuan :
                     \/ \E d \in Detail :
                           \/ \E hasil \in {"SESUAI", "PERLU_PERBAIKAN"} :
                                 MulaiIsiNilai(p, pg, d, hasil)
                           \/ MulaiTindakLanjut(p, pg, d)
                     \/ MulaiSelesai(p, pg)
                     \/ MulaiTolak(p, pg)
      <3>1. UNCHANGED data
        BY <2>6, Zenon DEF MulaiBuatPengajuan, MulaiIsiNilai, MulaiTindakLanjut, MulaiSelesai,
                           MulaiTolak, Mulai
      <3> QED  BY <1>1, <3>1 DEF data
    <2> QED  BY <1>4, <2>1, <2>2, <2>3, <2>4, <2>5, <2>6, Zenon DEF EvaluasiNext
  <1>5. ASSUME NEW p \in Proses, TteNext(p) PROVE [Arsip!ArsipNext]_Keadaan
    <2>1. CASE BaPjPenyusun(p)
      BY <1>0, <2>1, TidakTerlihat DEF BaPjPenyusun, DataOK
    <2>2. CASE Finalisasi(p)
      BY <2>2, FinalisasiTerbit
    <2>3. CASE BaEvaluator(p) \/ MulaiFinalisasi(p)
      BY <1>1, <2>3 DEF BaEvaluator, MulaiFinalisasi, Mulai, data
    <2>4. CASE \E pg \in Pengajuan : \/ MulaiBaEvaluator(p, pg)
                                     \/ MulaiBaPjPenyusun(p, pg)
                                     \/ SiapkanPengesahan(p, pg)
      BY <1>1, <2>4 DEF MulaiBaEvaluator, MulaiBaPjPenyusun, SiapkanPengesahan, Mulai, data
    <2> QED  BY <1>5, <2>1, <2>2, <2>3, <2>4, Zenon DEF TteNext
  <1>6. ASSUME NEW p \in Proses, Batal(p) PROVE [Arsip!ArsipNext]_Keadaan
    BY <1>1, <1>6 DEF Batal, data
  <1>7. CASE UNCHANGED vars
    BY <1>1, <1>7 DEF vars
  <1> QED  BY <1>2, <1>3, <1>4, <1>5, <1>6, <1>7, Zenon DEF Next

(***************************************************************************)
(* A published version never becomes unpublished, an SOP has one version   *)
(* in force, and publishing replaces the one before in the same step.      *)
(***************************************************************************)
THEOREM MenerapkanArsip == Spec => ArsipTerjaga
  <1>1. Init => Arsip!ArsipInit
    BY DEF Init, DataInit, Arsip!ArsipInit, Keadaan
  <1>2. Spec => Arsip!ArsipInit /\ [][Arsip!ArsipNext]_Keadaan
    BY <1>1, Invarian, LangkahArsip, PTL DEF Spec
  <1> QED  BY <1>2, PTL DEF ArsipTerjaga, Arsip!ArsipSpec

=============================================================================
