--------------------------------- MODULE Tte ---------------------------------
(***************************************************************************)
(* The signatures that make a version effective: PJ Evaluator and PJ       *)
(* Penyusun sign the Berita Acara of the submission, then the Kepala OPD   *)
(* signs every version of it in one batch.  A signature is unique per      *)
(* document and role.                                                      *)
(***************************************************************************)
EXTENDS SopData

\* transaksiTandaTanganiBaEvaluator: the submission is overwritten at commit.
MulaiBaEvaluator(p, pg) ==
    /\ tx[p] = Idle
    /\ pengajuan[pg].st = "SELESAI_DIEVALUASI"
    /\ "PJ_EVALUATOR" \notin ttdBa[pg]
    /\ Mulai(p, [op |-> "BA_EVALUATOR", pg |-> pg])

BaEvaluator(p) ==
    LET pg == tx[p].pg IN
    /\ tx[p].op = "BA_EVALUATOR"
    /\ "PJ_EVALUATOR" \notin ttdBa[pg]
    /\ ttdBa' = [ttdBa EXCEPT ![pg] = @ \cup {"PJ_EVALUATOR"}]
    /\ pengajuan' = [pengajuan EXCEPT ![pg] = Beralih(@, "DITANDATANGANI_PJ_EVALUATOR")]
    /\ Rampung(p)
    /\ UNCHANGED <<status, versi, nilai, ttdSop, pdf>>

\* transaksiTandaTanganiBaPjPenyusun: every version must still wait for this signature.
MulaiBaPjPenyusun(p, pg) ==
    /\ tx[p] = Idle
    /\ pengajuan[pg].st = "DITANDATANGANI_PJ_EVALUATOR"
    /\ "PJ_PENYUSUN" \notin ttdBa[pg]
    /\ Mulai(p, [op |-> "BA_PJ_PENYUSUN", pg |-> pg])

BaPjPenyusun(p) ==
    LET pg == tx[p].pg IN
    /\ tx[p].op = "BA_PJ_PENYUSUN"
    /\ "PJ_PENYUSUN" \notin ttdBa[pg]
    /\ \A d \in Items(pg) : status[d] = "MENUNGGU_TTD_PJ_EVALUATOR"
    /\ status' = [d \in Detail |->
          IF d \in Items(pg) THEN "DIVERIFIKASI_PJ_EVALUATOR_ORGANISASI" ELSE status[d]]
    /\ ttdBa' = [ttdBa EXCEPT ![pg] = @ \cup {"PJ_PENYUSUN"}]
    /\ pengajuan' = [pengajuan EXCEPT ![pg] = Beralih(@, "DITANDATANGANI_PJ_PENYUSUN")]
    /\ Rampung(p)
    /\ UNCHANGED <<versi, nilai, ttdSop, pdf>>

(***************************************************************************)
(* tandaTanganiSemuaSopPengajuan.  prepareSopPengesahanDocuments creates   *)
(* the missing documents in a transaction of its own; the PDFs are then    *)
(* stamped, signed and written; finalizeSopPengesahanWithArtifacts reads   *)
(* everything again and publishes the batch.                               *)
(***************************************************************************)
SiapDisahkan(pg) ==
    /\ pengajuan[pg].st = "DITANDATANGANI_PJ_PENYUSUN"
    /\ Items(pg) # {}
    /\ \A d \in Items(pg) : status[d] = "DIVERIFIKASI_PJ_EVALUATOR_ORGANISASI"
    /\ Items(pg) \cap ttdSop = {}

SiapkanPengesahan(p, pg) ==
    /\ tx[p] = Idle
    /\ SiapDisahkan(pg)
    /\ pdf' = [d \in Detail |->
          IF d \in Items(pg) /\ pdf[d] = "TANPA" THEN "SIAP" ELSE pdf[d]]
    /\ tx' = [tx EXCEPT ![p] = [op |-> "PENGESAHAN", pg |-> pg]]
    /\ UNCHANGED <<status, versi, pengajuan, nilai, ttdBa, ttdSop>>

\* Mutant: the versions to supersede are listed after they were replaced.
MulaiFinalisasiTerlambat(p) ==
    LET pg == tx[p].pg IN
    /\ tx[p].op = "PENGESAHAN"
    /\ SiapDisahkan(pg)
    /\ \A d \in Items(pg) : pdf[d] # "TANPA"
    /\ Mulai(p, [op |-> "FINALISASI", pg |-> pg, ver |-> pengajuan[pg].ver,
                 berlaku |-> {}])

\* The versions in force.
StatusBerlaku == {d \in Detail : status[d] = "BERLAKU"}

\* The snapshot of the final transaction: the version claimed and the versions in force.
MulaiFinalisasi(p) ==
    LET pg == tx[p].pg IN
    /\ tx[p].op = "PENGESAHAN"
    /\ SiapDisahkan(pg)
    /\ \A d \in Items(pg) : pdf[d] # "TANPA"
    /\ Mulai(p, [op |-> "FINALISASI", pg |-> pg, ver |-> pengajuan[pg].ver,
                 berlaku |-> StatusBerlaku])

(***************************************************************************)
(* The batch is signed in some order.  Signing a version replaces every    *)
(* other version of its SOP in force, one signed earlier in the batch too, *)
(* so the last of each SOP remains: urutan holds these last versions.      *)
(***************************************************************************)
TerakhirPerSop(items, urutan) ==
    /\ urutan \subseteq items
    /\ \A d \in items : \E t \in urutan : t[1] = d[1]
    /\ \A t, u \in urutan : t[1] = u[1] => t = u

\* Mutant: only the versions of the batch are replaced.
DigantikanBatch(d, items, urutan, berlaku) ==
    /\ d \in items \ urutan
    /\ \E t \in items : t[1] = d[1]

\* gantikanVersiBerlakuLain: another version, of the batch or in berlaku, of an SOP signed.
Digantikan(d, items, urutan, berlaku) ==
    /\ d \in (items \cup berlaku) \ urutan
    /\ \E t \in items : t[1] = d[1]

Finalisasi(p) ==
    LET pg == tx[p].pg
        items == Items(pg)
    IN
    /\ tx[p].op = "FINALISASI"
    /\ pengajuan[pg].st = "DITANDATANGANI_PJ_PENYUSUN"
    /\ pengajuan[pg].ver = tx[p].ver
    /\ items \cap ttdSop = {}
    /\ pengajuan' = [pengajuan EXCEPT ![pg] = Beralih(@, "SELESAI")]
    /\ \E urutan \in SUBSET items :
          /\ TerakhirPerSop(items, urutan)
          /\ status' = [d \in Detail |->
                IF d \in urutan THEN "BERLAKU"
                ELSE IF Digantikan(d, items, urutan, StatusBerlaku)
                THEN "DIGANTIKAN"
                ELSE status[d]]
          /\ pdf' = [d \in Detail |->
                IF d \in urutan THEN "PUBLISHED"
                ELSE IF Digantikan(d, items, urutan, {e \in tx[p].berlaku : pdf[e] # "TANPA"})
                THEN "SUPERSEDED"
                ELSE pdf[d]]
    /\ ttdSop' = ttdSop \cup items
    /\ Rampung(p)
    /\ UNCHANGED <<versi, nilai, ttdBa>>

TteNext(p) ==
    \/ \E pg \in Pengajuan : \/ MulaiBaEvaluator(p, pg)
                             \/ MulaiBaPjPenyusun(p, pg)
                             \/ SiapkanPengesahan(p, pg)
    \/ BaEvaluator(p)
    \/ BaPjPenyusun(p)
    \/ MulaiFinalisasi(p)
    \/ Finalisasi(p)
=============================================================================
