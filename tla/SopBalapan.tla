------------------------------ MODULE SopBalapan ------------------------------
(***************************************************************************)
(* The workflow with a history of the races that happened in it.  Four     *)
(* operations act at their commit on what they read before it without      *)
(* looking again; each can be overtaken in one way, a condition on steps   *)
(* (the fourth is TidakTertimpa).  The properties below hold of any number *)
(* of concurrent requests as long as the race they name has not happened.  *)
(* Requests that come one at a time never race, so these are also the      *)
(* properties of such a server.                                            *)
(***************************************************************************)
EXTENDS SopFlow

VARIABLE balapan    \* the races that happened so far

varsBalapan == <<status, versi, pengajuan, nilai, ttdBa, ttdSop, pdf, tx, balapan>>

\* A version whose evaluation is over, whatever its end.
Selepas == {"MENUNGGU_TTD_PJ_EVALUATOR", "DIVERIFIKASI_PJ_EVALUATOR_ORGANISASI"}
           \cup Terminal

(***************************************************************************)
(* No version is sent back to its evaluator after its evaluation ended:    *)
(* what kirimUlangKeEvaluatorSetelahRevisi would ensure if it compared the *)
(* status in the transaction that writes it.                               *)
(***************************************************************************)
TiadaKirimUlangBasi == \A p \in Proses : KirimUlang(p) => status[tx[p].d] \notin Selepas

\* No version is revoked while a final transaction of its SOP is under way.
TiadaCabutMenyela ==
    \A p, q \in Proses :
        /\ UbahStatus(p)
        /\ tx[p].ke = "DICABUT"
        /\ tx[q].op = "FINALISASI"
        => \A d \in Items(tx[q].pg) : d[1] # tx[p].d[1]

\* A remark to be fixed is never written when the evaluation is over or being finished.
TiadaNilaiMenyela ==
    \A p \in Proses :
        IsiNilai(p) /\ tx[p].hasil = "PERLU_PERBAIKAN" =>
            /\ pengajuan[tx[p].pg].st = "SEDANG_DIEVALUASI"
            /\ \A q \in Proses : ~(tx[q].op = "SELESAI" /\ tx[q].pg = tx[p].pg)

BalapanBaru ==
    {b \in {"KIRIM_ULANG_BASI", "CABUT_MENYELA", "NILAI_MENYELA", "NILAI_TERTIMPA"} :
        \/ b = "KIRIM_ULANG_BASI" /\ ~TiadaKirimUlangBasi
        \/ b = "CABUT_MENYELA" /\ ~TiadaCabutMenyela
        \/ b = "NILAI_MENYELA" /\ ~TiadaNilaiMenyela
        \/ b = "NILAI_TERTIMPA" /\ ~TidakTertimpa}

Catat == balapan' = balapan \cup BalapanBaru

InitBalapan == Init /\ balapan = {}

NextBalapan == Next /\ Catat

SpecBalapan == InitBalapan /\ [][NextBalapan]_varsBalapan

-----------------------------------------------------------------------------
(***************************************************************************)
(* What holds as long as a race has not happened.                          *)
(***************************************************************************)
TanpaKirimUlangBasi == "KIRIM_ULANG_BASI" \notin balapan

(***************************************************************************)
(* Without a stale resend an OPD has at most one submission in progress,   *)
(* whoever opens them: executeCreatePengajuanDenganLock locks the OPD row. *)
(***************************************************************************)
SatuAktifTanpaBalapan == TanpaKirimUlangBasi => SatuPengajuanAktifPerOpd

\* Without a stale resend a submission past its evaluation can always be signed on.
DapatDitandatanganiTanpaBalapan == TanpaKirimUlangBasi => PengajuanDapatDitandatangani

\* Without a stale resend an SOP has one revision in progress: the key (sopId, versi).
SatuRevisiTanpaBalapan == TanpaKirimUlangBasi => SatuRevisiBerjalan

\* Up to the first stale resend no submission goes back, by whoever commits late.
MajuTanpaBalapan == [][TanpaKirimUlangBasi' => MajuSelangkah]_varsBalapan

\* Up to the first stale resend a terminal version stays terminal.
TerminalTanpaBalapan == [][TanpaKirimUlangBasi' => TerminalSelangkah]_varsBalapan

(***************************************************************************)
(* The public PDF tells the fate of its version, unless a version was sent *)
(* back late or a revocation fell into a signing of its SOP.               *)
(***************************************************************************)
PdfSelarasTanpaBalapan ==
    TanpaKirimUlangBasi /\ "CABUT_MENYELA" \notin balapan => PdfSelarasStatus

(***************************************************************************)
(* A finished evaluation has every score SESUAI, unless a version was sent *)
(* back late or a remark fell between the check and the commit of selesai. *)
(***************************************************************************)
SelesaiSesuaiTanpaBalapan ==
    TanpaKirimUlangBasi /\ "NILAI_MENYELA" \notin balapan => SelesaiBerartiSesuai

\* A rejection is final for every score, unless a score was written over an unread one.
TolakTetapTanpaBalapan == "NILAI_TERTIMPA" \notin balapan => TolakBerartiDitolak
=============================================================================
