------------------------------- MODULE SopData -------------------------------
(***************************************************************************)
(* The tables the SOP workflow shares, and the transactions in flight.     *)
(*                                                                         *)
(* The server keeps its state in MariaDB at REPEATABLE READ: the plain     *)
(* reads of a transaction see the snapshot of its first read, its writes   *)
(* act on the current rows.  So an operation is two steps of a process p:  *)
(* one reads and checks and keeps in tx[p] what it will still use, one     *)
(* writes and commits.  Between them any other process may commit.         *)
(***************************************************************************)
EXTENDS Naturals, FiniteSets, SopStatus

CONSTANTS
    Sop,            \* SOP headers
    Opd,            \* organisational units
    OpdSop,         \* the unit that owns an SOP
    MaxBaris,       \* bound: version rows an SOP ever gets
    Pengajuan,      \* evaluation submissions
    Proses,         \* requests the server works on at the same time
    MaxVersiNilai   \* bound: NilaiEvaluasi.version up to which scores are filled in

ASSUME OpdSopAssumption == OpdSop \in [Sop -> Opd]
ASSUME MaxBarisAssumption == MaxBaris \in Nat \ {0}
ASSUME MaxVersiNilaiAssumption == MaxVersiNilai \in Nat

VARIABLES
    status,     \* status[d]: DetailSOP.status of version row d
    versi,      \* versi[d]: DetailSOP.versi, 0 when there is no row
    pengajuan,  \* pengajuan[pg]: status, opdId and version
    nilai,      \* nilai[pg][d]: the NilaiEvaluasi row of d in pg
    ttdBa,      \* ttdBa[pg]: roles that signed the Berita Acara of pg
    ttdSop,     \* versions whose document carries the Kepala OPD signature
    pdf,        \* pdf[d]: DokumenTte.pdfStatus of version d
    tx          \* tx[p]: the operation process p has begun

data == <<status, versi, pengajuan, nilai, ttdBa, ttdSop, pdf>>
vars == <<status, versi, pengajuan, nilai, ttdBa, ttdSop, pdf, tx>>

(***************************************************************************)
(* Rows.  A version row is named by its SOP and the order of creation, and *)
(* the name of a deleted row is never reused, as its generated id.         *)
(***************************************************************************)
Detail == Sop \X (1..MaxBaris)
BarisSop(s) == {s} \X (1..MaxBaris)
Ada(d) == status[d] \in StatusSOP

BukanAnggota == [hasil |-> "BUKAN_ANGGOTA", tl |-> "NULL", versi |-> 0]
NilaiBaru == [hasil |-> "NULL", tl |-> "NULL", versi |-> 0]
BarisNilai == [hasil : HasilEvaluasi \cup {"NULL"},
               tl : StatusTindakLanjut \cup {"NULL"},
               versi : Nat]

\* The row after its remark was dealt with (statusTindakLanjut SELESAI, version + 1).
Ditindaklanjuti(b) == [hasil |-> b.hasil, tl |-> "SELESAI", versi |-> b.versi + 1]

\* The versions submitted with pg: the detailSopIds of its NilaiEvaluasi rows.
Items(pg) == {d \in Detail : nilai[pg][d] # BukanAnggota}

TanpaPengajuan == [st |-> "TIDAK_ADA", opd |-> "NULL", ver |-> 0]
Aktif(pg) == pengajuan[pg].st \in PengajuanAktif

\* The submission row at another step (statusPengajuan st, version + 1).
Beralih(k, st) == [st |-> st, opd |-> k.opd, ver |-> k.ver + 1]

(***************************************************************************)
(* What a begun operation remembers of the rows it read.                   *)
(***************************************************************************)
Idle == [op |-> "IDLE"]
TxKlon == [op : {"KLON"}, sop : Sop, versi : Nat]
TxUbahStatus == [op : {"UBAH_STATUS"}, d : Detail, dari : StatusSOP, ke : StatusSOP]
TxHapus == [op : {"HAPUS"}, d : Detail]
TxKirimUlang == [op : {"KIRIM_ULANG"}, d : Detail]
TxKirimUlangTulis == [op : {"KIRIM_ULANG_TULIS"}, d : Detail, tutup : SUBSET Pengajuan]
TxBuatPengajuan == [op : {"BUAT_PENGAJUAN"}, opd : Opd, items : SUBSET Detail]
TxIsiNilai == [op : {"ISI_NILAI"}, pg : Pengajuan, d : Detail,
               hasil : {"SESUAI", "PERLU_PERBAIKAN"}, dibaca : BarisNilai]
TxTindakLanjut == [op : {"TINDAK_LANJUT"}, pg : Pengajuan, d : Detail]
TxPengajuan == [op : {"SELESAI", "BA_EVALUATOR", "BA_PJ_PENYUSUN", "PENGESAHAN"},
                pg : Pengajuan]
TxTolak == [op : {"TOLAK"}, pg : Pengajuan, ver : Nat, versiNilai : [Detail -> Nat]]
TxFinalisasi == [op : {"FINALISASI"}, pg : Pengajuan, ver : Nat,
                 berlaku : SUBSET Detail]

Tx == {Idle} \cup TxKlon \cup TxUbahStatus \cup TxHapus \cup TxKirimUlang
      \cup TxKirimUlangTulis \cup TxBuatPengajuan \cup TxIsiNilai \cup TxTindakLanjut
      \cup TxPengajuan \cup TxTolak \cup TxFinalisasi

DataOK ==
    /\ status \in [Detail -> StatusSOP \cup {"TIDAK_ADA", "DIHAPUS"}]
    /\ versi \in [Detail -> Nat]
    /\ pengajuan \in [Pengajuan ->
          [st : StatusPengajuan, opd : Opd, ver : Nat] \cup {TanpaPengajuan}]
    /\ nilai \in [Pengajuan -> [Detail -> BarisNilai \cup {BukanAnggota}]]
    /\ ttdBa \in [Pengajuan -> SUBSET {"PJ_EVALUATOR", "PJ_PENYUSUN"}]
    /\ ttdSop \subseteq Detail
    /\ pdf \in [Detail -> {"TANPA", "SIAP", "PUBLISHED", "SUPERSEDED", "REVOKED"}]

TypeOK == DataOK /\ tx \in [Proses -> Tx]

DataInit ==
    /\ status = [d \in Detail |-> "TIDAK_ADA"]
    /\ versi = [d \in Detail |-> 0]
    /\ pengajuan = [pg \in Pengajuan |-> TanpaPengajuan]
    /\ nilai = [pg \in Pengajuan |-> [d \in Detail |-> BukanAnggota]]
    /\ ttdBa = [pg \in Pengajuan |-> {}]
    /\ ttdSop = {}
    /\ pdf = [d \in Detail |-> "TANPA"]

\* Process p keeps what it read and its transaction continues.
Mulai(p, rekaman) ==
    /\ tx' = [tx EXCEPT ![p] = rekaman]
    /\ UNCHANGED data

\* Process p commits and answers its request.
Rampung(p) == tx' = [tx EXCEPT ![p] = Idle]

(***************************************************************************)
(* A begun operation ends without effect: a check at commit fails and the  *)
(* transaction is rolled back, or the database aborts it (deadlock,        *)
(* timeout, lost connection), or the server stops.                         *)
(***************************************************************************)
Batal(p) ==
    /\ tx[p] # Idle
    /\ Rampung(p)
    /\ UNCHANGED data
=============================================================================
