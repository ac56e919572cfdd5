------------------------------ MODULE SopCatalog ------------------------------
(***************************************************************************)
(* The catalogue: a version is created, cloned into a revision, submitted, *)
(* sent again after a revision, revoked or deleted.  The service reads and *)
(* checks outside any transaction, the repository writes later.            *)
(***************************************************************************)
EXTENDS SopData

\* createSopWithInitialDetail: a new SOP with version 1 in DRAFT.
BuatSop(s) ==
    /\ \A d \in BarisSop(s) : status[d] = "TIDAK_ADA"
    /\ status' = [status EXCEPT ![<<s, 1>>] = "DRAFT"]
    /\ versi' = [versi EXCEPT ![<<s, 1>>] = 1]
    /\ UNCHANGED <<pengajuan, nilai, ttdBa, ttdSop, pdf, tx>>

\* No version of s is on its way from draft to a terminal status (hasRevisiInFlight).
TanpaRevisiBerjalan(s) ==
    \A d \in BarisSop(s) : Ada(d) => status[d] \in Terminal

(***************************************************************************)
(* cloneDetailSopFromSource: the source, its siblings and the next version *)
(* number are read first; the revision is inserted later, under the unique *)
(* key (sopId, versi).                                                     *)
(***************************************************************************)
MulaiKlon(p, sumber) ==
    LET s == sumber[1] IN
    /\ tx[p] = Idle
    /\ status[sumber] \in Terminal
    /\ TanpaRevisiBerjalan(s)
    /\ \E terakhir \in BarisSop(s) :
          /\ \A d \in BarisSop(s) : versi[d] <= versi[terakhir]
          /\ Mulai(p, [op |-> "KLON", sop |-> s, versi |-> versi[terakhir] + 1])

\* Mutant: the key (sopId, versi) is not unique, the second clone is inserted as well.
KlonTanpaKunci(p) ==
    /\ tx[p].op = "KLON"
    /\ \E k \in 1..MaxBaris :
          /\ status[<<tx[p].sop, k>>] = "TIDAK_ADA"
          /\ \A j \in 1..(k - 1) : status[<<tx[p].sop, j>>] # "TIDAK_ADA"
          /\ status' = [status EXCEPT ![<<tx[p].sop, k>>] = "DRAFT"]
          /\ versi' = [versi EXCEPT ![<<tx[p].sop, k>>] = tx[p].versi]
    /\ Rampung(p)
    /\ UNCHANGED <<pengajuan, nilai, ttdBa, ttdSop, pdf>>

Klon(p) ==
    /\ tx[p].op = "KLON"
    /\ \A d \in BarisSop(tx[p].sop) : versi[d] # tx[p].versi
    /\ \E k \in 1..MaxBaris :
          /\ status[<<tx[p].sop, k>>] = "TIDAK_ADA"
          /\ \A j \in 1..(k - 1) : status[<<tx[p].sop, j>>] # "TIDAK_ADA"
          /\ status' = [status EXCEPT ![<<tx[p].sop, k>>] = "DRAFT"]
          /\ versi' = [versi EXCEPT ![<<tx[p].sop, k>>] = tx[p].versi]
    /\ Rampung(p)
    /\ UNCHANGED <<pengajuan, nilai, ttdBa, ttdSop, pdf>>

(***************************************************************************)
(* transitionDetailSopStatus checks the policy against the status it read. *)
(* A target DICABUT is cabutSopBerlaku, which reads every version of the   *)
(* SOP.  Whether the content is complete is left open.                     *)
(***************************************************************************)
MulaiTransisi(p, d, ke) ==
    /\ tx[p] = Idle
    /\ ke # "DICABUT"
    /\ <<status[d], ke>> \in TransisiDiizinkan
    /\ Mulai(p, [op |-> "UBAH_STATUS", d |-> d, dari |-> status[d], ke |-> ke])

MulaiCabut(p, d) ==
    /\ tx[p] = Idle
    /\ status[d] = "BERLAKU"
    /\ TanpaRevisiBerjalan(d[1])
    /\ Mulai(p, [op |-> "UBAH_STATUS", d |-> d, dari |-> "BERLAKU", ke |-> "DICABUT"])

\* updateDetailSopStatus: compare and set on the status; a revocation marks the PDF too.
UbahStatus(p) ==
    LET d == tx[p].d
        dicabut == tx[p].ke = "DICABUT" /\ pdf[d] # "TANPA"
    IN
    /\ tx[p].op = "UBAH_STATUS"
    /\ status[d] = tx[p].dari
    /\ status' = [status EXCEPT ![d] = tx[p].ke]
    /\ pdf' = [pdf EXCEPT ![d] = IF dicabut THEN "REVOKED" ELSE @]
    /\ Rampung(p)
    /\ UNCHANGED <<versi, pengajuan, nilai, ttdBa, ttdSop>>

(***************************************************************************)
(* kirimUlangKeEvaluatorSetelahRevisi: the service checks the status, then *)
(* a transaction looks for the open remark (BacaUmpanBalik) and finally    *)
(* closes it and moves the version, whatever its status is by then.        *)
(***************************************************************************)
MulaiKirimUlang(p, d) ==
    /\ tx[p] = Idle
    /\ status[d] = "REVISI_DARI_EVALUATOR"
    /\ Mulai(p, [op |-> "KIRIM_ULANG", d |-> d])

UmpanBalikAktif(d) ==
    {pg \in Pengajuan : /\ pengajuan[pg].st = "SEDANG_DIEVALUASI"
                        /\ nilai[pg][d].hasil = "PERLU_PERBAIKAN"}

BacaUmpanBalik(p) ==
    LET d == tx[p].d IN
    /\ tx[p].op = "KIRIM_ULANG"
    /\ \/ /\ UmpanBalikAktif(d) = {}
          /\ Mulai(p, [op |-> "KIRIM_ULANG_TULIS", d |-> d, tutup |-> {}])
       \/ \E pg \in UmpanBalikAktif(d) :
             Mulai(p, [op |-> "KIRIM_ULANG_TULIS", d |-> d,
                       tutup |-> {x \in {pg} : nilai[x][d].tl # "SELESAI"}])

KirimUlang(p) ==
    LET d == tx[p].d IN
    /\ tx[p].op = "KIRIM_ULANG_TULIS"
    /\ Ada(d)
    /\ nilai' = [pg \in Pengajuan |->
          IF pg \in tx[p].tutup
          THEN [nilai[pg] EXCEPT ![d] = Ditindaklanjuti(@)]
          ELSE nilai[pg]]
    /\ status' = [status EXCEPT ![d] = "SEDANG_DIEVALUASI"]
    /\ Rampung(p)
    /\ UNCHANGED <<versi, pengajuan, ttdBa, ttdSop, pdf>>

(***************************************************************************)
(* deleteVersiDraft for a revision, deleteSopDraftAwal for the only        *)
(* version of an SOP.  The delete itself names the row alone; the foreign  *)
(* key of NilaiEvaluasi refuses it once the version was submitted.         *)
(* Mutant TanpaKunciAsing: there is no such key.                           *)
(***************************************************************************)
TanpaKunciAsing(d) == TRUE

BelumDinilai(d) == \A pg \in Pengajuan : d \notin Items(pg)

MulaiHapus(p, d) ==
    /\ tx[p] = Idle
    /\ status[d] = "DRAFT"
    /\ \/ versi[d] > 1 /\ BelumDinilai(d)
       \/ versi[d] = 1 /\ \A e \in BarisSop(d[1]) \ {d} : ~Ada(e)
    /\ Mulai(p, [op |-> "HAPUS", d |-> d])

Hapus(p) ==
    LET d == tx[p].d IN
    /\ tx[p].op = "HAPUS"
    /\ Ada(d)
    /\ BelumDinilai(d)
    /\ status' = [status EXCEPT ![d] = "DIHAPUS"]
    /\ versi' = [versi EXCEPT ![d] = 0]
    /\ Rampung(p)
    /\ UNCHANGED <<pengajuan, nilai, ttdBa, ttdSop, pdf>>

CatalogNext(p) ==
    \/ \E d \in Detail :
          \/ MulaiKlon(p, d)
          \/ \E ke \in StatusSOP : MulaiTransisi(p, d, ke)
          \/ MulaiCabut(p, d)
          \/ MulaiKirimUlang(p, d)
          \/ MulaiHapus(p, d)
    \/ Klon(p)
    \/ UbahStatus(p)
    \/ BacaUmpanBalik(p)
    \/ KirimUlang(p)
    \/ Hapus(p)
=============================================================================
