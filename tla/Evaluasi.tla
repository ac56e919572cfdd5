------------------------------- MODULE Evaluasi -------------------------------
(***************************************************************************)
(* The evaluation of submitted versions: a submission is opened for an     *)
(* OPD, the evaluator scores its versions, the author closes the remarks,  *)
(* the evaluator finishes or rejects the submission.                       *)
(***************************************************************************)
EXTENDS SopData

\* Mutant: the row of the OPD is read without FOR UPDATE.
OpdTanpaKunci(o) == TRUE

(***************************************************************************)
(* executeCreatePengajuanDenganLock, reached by the PJ Penyusun and by the *)
(* evaluator's workspace.  The row of the OPD is locked FOR UPDATE, so a   *)
(* second transaction for the same OPD waits until the first has ended.    *)
(***************************************************************************)
OpdBebas(o) == \A q \in Proses : ~(tx[q].op = "BUAT_PENGAJUAN" /\ tx[q].opd = o)

MulaiBuatPengajuan(p, o, items) ==
    /\ tx[p] = Idle
    /\ OpdBebas(o)
    /\ ~\E pg \in Pengajuan : Aktif(pg) /\ pengajuan[pg].opd = o
    /\ items # {}
    /\ \A d \in items : /\ OpdSop[d[1]] = o
                        /\ status[d] = "MENUNGGU_PENGAJUAN_EVALUASI"
    /\ Mulai(p, [op |-> "BUAT_PENGAJUAN", opd |-> o, items |-> items])

\* The submission appears with its empty scores, if no item changed status meanwhile.
BuatPengajuan(p) ==
    LET items == tx[p].items IN
    /\ tx[p].op = "BUAT_PENGAJUAN"
    /\ \A d \in items : status[d] = "MENUNGGU_PENGAJUAN_EVALUASI"
    /\ \E pg \in Pengajuan :
          /\ pengajuan[pg] = TanpaPengajuan
          /\ pengajuan' = [pengajuan EXCEPT
                ![pg] = [st |-> "SEDANG_DIEVALUASI", opd |-> tx[p].opd, ver |-> 0]]
          /\ nilai' = [nilai EXCEPT ![pg] =
                [d \in Detail |-> IF d \in items THEN NilaiBaru ELSE BukanAnggota]]
    /\ status' = [d \in Detail |-> IF d \in items THEN "SEDANG_DIEVALUASI" ELSE status[d]]
    /\ Rampung(p)
    /\ UNCHANGED <<versi, ttdBa, ttdSop, pdf>>

\* Mutant: a submission can be scored after it was rejected or finished.
MulaiIsiNilaiSusulan(p, pg, d, hasil) ==
    /\ tx[p] = Idle
    /\ d \in Items(pg)
    /\ nilai[pg][d].versi < MaxVersiNilai
    /\ Mulai(p, [op |-> "ISI_NILAI", pg |-> pg, d |-> d, hasil |-> hasil,
                 dibaca |-> nilai[pg][d]])

(***************************************************************************)
(* isiNilai: the version the evaluator saw must be the one in the          *)
(* snapshot; the write that follows names the row alone.  A remark to be   *)
(* fixed reopens the follow-up and sends the version back to its authors.  *)
(***************************************************************************)
MulaiIsiNilai(p, pg, d, hasil) ==
    /\ tx[p] = Idle
    /\ pengajuan[pg].st = "SEDANG_DIEVALUASI"
    /\ d \in Items(pg)
    /\ nilai[pg][d].versi < MaxVersiNilai
    /\ Mulai(p, [op |-> "ISI_NILAI", pg |-> pg, d |-> d, hasil |-> hasil,
                 dibaca |-> nilai[pg][d]])

TindakLanjutBaru(hasil, dibaca, kini) ==
    IF hasil = "PERLU_PERBAIKAN" THEN "TERBUKA"
    ELSE IF dibaca = "TERBUKA" THEN "NULL"
    ELSE kini

IsiNilai(p) ==
    LET d == tx[p].d
        perluPerbaikan == tx[p].hasil = "PERLU_PERBAIKAN"
    IN
    /\ tx[p].op = "ISI_NILAI"
    /\ nilai' = [nilai EXCEPT ![tx[p].pg][d] =
          [hasil |-> tx[p].hasil,
           tl |-> TindakLanjutBaru(tx[p].hasil, tx[p].dibaca.tl, @.tl),
           versi |-> @.versi + 1]]
    /\ status' = [status EXCEPT ![d] =
          IF perluPerbaikan /\ @ \in {"DIAJUKAN_EVALUASI", "SEDANG_DIEVALUASI"}
          THEN "REVISI_DARI_EVALUATOR"
          ELSE @]
    /\ Rampung(p)
    /\ UNCHANGED <<versi, pengajuan, ttdBa, ttdSop, pdf>>

\* tandaiTindakLanjutSelesai: the author marks the remark as dealt with.
MulaiTindakLanjut(p, pg, d) ==
    /\ tx[p] = Idle
    /\ pengajuan[pg].st = "SEDANG_DIEVALUASI"
    /\ status[d] = "REVISI_DARI_EVALUATOR"
    /\ nilai[pg][d].hasil = "PERLU_PERBAIKAN"
    /\ nilai[pg][d].tl = "TERBUKA"
    /\ Mulai(p, [op |-> "TINDAK_LANJUT", pg |-> pg, d |-> d])

TindakLanjut(p) ==
    /\ tx[p].op = "TINDAK_LANJUT"
    /\ nilai' = [nilai EXCEPT ![tx[p].pg][tx[p].d] = Ditindaklanjuti(@)]
    /\ Rampung(p)
    /\ UNCHANGED <<status, versi, pengajuan, ttdBa, ttdSop, pdf>>

\* Every version of pg is still in evaluation; the mutant leaves the comparison out.
DinilaiTanpaCek(pg) == TRUE

SemuaDapatDinilai(pg) == \A d \in Items(pg) : status[d] \in DapatDinilai

\* Mutant: a version without a score does not hold the submission back.
MulaiSelesaiKurang(p, pg) ==
    /\ tx[p] = Idle
    /\ pengajuan[pg].st = "SEDANG_DIEVALUASI"
    /\ Items(pg) # {}
    /\ \A d \in Items(pg) : nilai[pg][d].hasil # "PERLU_PERBAIKAN"
    /\ Mulai(p, [op |-> "SELESAI", pg |-> pg])

(***************************************************************************)
(* selesai: every score SESUAI in the snapshot; at commit only the status  *)
(* of the versions is compared, the submission itself is overwritten.      *)
(***************************************************************************)
MulaiSelesai(p, pg) ==
    /\ tx[p] = Idle
    /\ pengajuan[pg].st = "SEDANG_DIEVALUASI"
    /\ Items(pg) # {}
    /\ \A d \in Items(pg) : nilai[pg][d].hasil = "SESUAI"
    /\ Mulai(p, [op |-> "SELESAI", pg |-> pg])

Selesai(p) ==
    LET pg == tx[p].pg IN
    /\ tx[p].op = "SELESAI"
    /\ SemuaDapatDinilai(pg)
    /\ status' = [d \in Detail |->
          IF d \in Items(pg) THEN "MENUNGGU_TTD_PJ_EVALUATOR" ELSE status[d]]
    /\ pengajuan' = [pengajuan EXCEPT ![pg] = Beralih(@, "SELESAI_DIEVALUASI")]
    /\ Rampung(p)
    /\ UNCHANGED <<versi, nilai, ttdBa, ttdSop, pdf>>

(***************************************************************************)
(* tolak: the whole submission is rejected.  The submission, each score    *)
(* and each version are compared with what was read.                       *)
(***************************************************************************)
MulaiTolak(p, pg) ==
    /\ tx[p] = Idle
    /\ pengajuan[pg].st = "SEDANG_DIEVALUASI"
    /\ Items(pg) # {}
    /\ SemuaDapatDinilai(pg)
    /\ Mulai(p, [op |-> "TOLAK", pg |-> pg, ver |-> pengajuan[pg].ver,
                 versiNilai |-> [d \in Detail |-> nilai[pg][d].versi]])

Tolak(p) ==
    LET pg == tx[p].pg IN
    /\ tx[p].op = "TOLAK"
    /\ pengajuan[pg].st = "SEDANG_DIEVALUASI"
    /\ pengajuan[pg].ver = tx[p].ver
    /\ SemuaDapatDinilai(pg)
    /\ \A d \in Items(pg) : nilai[pg][d].versi = tx[p].versiNilai[d]
    /\ pengajuan' = [pengajuan EXCEPT ![pg] = Beralih(@, "DITOLAK")]
    /\ nilai' = [nilai EXCEPT ![pg] = [d \in Detail |->
          IF d \in Items(pg)
          THEN [hasil |-> "DITOLAK", tl |-> "NULL", versi |-> nilai[pg][d].versi + 1]
          ELSE nilai[pg][d]]]
    /\ status' = [d \in Detail |->
          IF d \in Items(pg) THEN "DITOLAK_EVALUATOR" ELSE status[d]]
    /\ Rampung(p)
    /\ UNCHANGED <<versi, ttdBa, ttdSop, pdf>>

EvaluasiNext(p) ==
    \/ \E o \in Opd, items \in SUBSET Detail : MulaiBuatPengajuan(p, o, items)
    \/ \E pg \in Pengajuan :
          \/ \E d \in Detail :
                \/ \E hasil \in {"SESUAI", "PERLU_PERBAIKAN"} : MulaiIsiNilai(p, pg, d, hasil)
                \/ MulaiTindakLanjut(p, pg, d)
          \/ MulaiSelesai(p, pg)
          \/ MulaiTolak(p, pg)
    \/ BuatPengajuan(p)
    \/ IsiNilai(p)
    \/ TindakLanjut(p)
    \/ Selesai(p)
    \/ Tolak(p)
=============================================================================
