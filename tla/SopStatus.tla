------------------------------ MODULE SopStatus ------------------------------
(***************************************************************************)
(* The status vocabulary of SOPFlow and the pure rules over it: which      *)
(* version may be edited, which is terminal, which transitions the status  *)
(* endpoint allows and which submission keeps its OPD busy.                *)
(***************************************************************************)

\* Every status of one version (DetailSOP) of an SOP.
StatusSOP == {"DRAFT", "SEDANG_DISUSUN", "MENUNGGU_PENGAJUAN_EVALUASI",
              "DIAJUKAN_EVALUASI", "SEDANG_DIEVALUASI", "REVISI_DARI_EVALUATOR",
              "DITOLAK_EVALUATOR", "MENUNGGU_TTD_PJ_EVALUATOR",
              "DIVERIFIKASI_PJ_EVALUATOR_ORGANISASI", "BERLAKU", "DIGANTIKAN",
              "DICABUT"}

\* Every status of an evaluation submission (PengajuanEvaluasi).
StatusPengajuan == {"SEDANG_DIEVALUASI", "DITOLAK", "SELESAI_DIEVALUASI",
                    "DITANDATANGANI_PJ_EVALUATOR", "DITANDATANGANI_PJ_PENYUSUN",
                    "SELESAI"}

HasilEvaluasi == {"SESUAI", "PERLU_PERBAIKAN", "DITOLAK"}
StatusTindakLanjut == {"TERBUKA", "SELESAI"}

\* TERMINAL_DETAIL_STATUSES: the content of such a version is final.
Terminal == {"DITOLAK_EVALUATOR", "BERLAKU", "DIGANTIKAN", "DICABUT"}

\* A version in evaluation: the evaluator may still reject it or finish it.
DapatDinilai == {"DIAJUKAN_EVALUASI", "SEDANG_DIEVALUASI", "REVISI_DARI_EVALUATOR"}

\* STATUS_PENGAJUAN_AKTIF_LINTAS_JOBDESK: the submission still occupies its OPD.
PengajuanAktif == {"SEDANG_DIEVALUASI", "SELESAI_DIEVALUASI",
                   "DITANDATANGANI_PJ_EVALUATOR", "DITANDATANGANI_PJ_PENYUSUN"}

(***************************************************************************)
(* The table TRANSITIONS without its roles: every role named there exists, *)
(* so a transition is possible exactly when its rule exists.               *)
(***************************************************************************)
TabelTransisi ==
    ({"DRAFT", "SEDANG_DISUSUN", "REVISI_DARI_EVALUATOR"}
        \X {"MENUNGGU_PENGAJUAN_EVALUASI"})
    \cup {<<"MENUNGGU_PENGAJUAN_EVALUASI", "DIAJUKAN_EVALUASI">>,
          <<"BERLAKU", "DICABUT">>}

\* Mutants: a rule too many, for a revoked, a verified and a rejected version.
TransisiPulih == TabelTransisi \cup {<<"DICABUT", "BERLAKU">>}
TransisiTerbit ==
    TabelTransisi \cup {<<"DIVERIFIKASI_PJ_EVALUATOR_ORGANISASI", "BERLAKU">>}
TransisiAjukanLagi ==
    TabelTransisi \cup {<<"DITOLAK_EVALUATOR", "MENUNGGU_PENGAJUAN_EVALUASI">>}

TransisiDiizinkan == TabelTransisi
=============================================================================
