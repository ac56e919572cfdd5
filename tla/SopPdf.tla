-------------------------------- MODULE SopPdf --------------------------------
(***************************************************************************)
(* The official PDF files.  The batch signing of Tte writes, between its   *)
(* two transactions, one new file per version, and publishes the paths     *)
(* with the final one.  A failed attempt deletes its own files; what a     *)
(* crash leaves behind is deleted by a periodic, bounded sweeper.          *)
(***************************************************************************)
EXTENDS Naturals, FiniteSets

CONSTANTS
    Dokumen,        \* versions to sign (DokumenTte rows)
    Upaya,          \* signing attempts, each with its random attempt id
    Paket,          \* Paket[u]: the versions of the submission that u signs
    Posisi,         \* Posisi[f]: place of a file in the order of the directories
    BatasSapu,      \* files a sweep looks at (100 in the code)
    MaxMati,        \* bound: crashes of the server
    CommitAmbigu,   \* whether a commit can succeed and report an error
    Kosong          \* the pdfPath of a document that has none

Berkas == Upaya \X Dokumen

ASSUME PaketAssumption == Paket \in [Upaya -> SUBSET Dokumen]
ASSUME PosisiAssumption ==
    /\ Posisi \in [Berkas -> Nat]
    /\ \A f, g \in Berkas : Posisi[f] = Posisi[g] => f = g
ASSUME BatasSapuAssumption == BatasSapu \in Nat \ {0}
ASSUME MaxMatiAssumption == MaxMati \in Nat
ASSUME CommitAmbiguAssumption == CommitAmbigu \in BOOLEAN
ASSUME KosongAssumption == Kosong \notin Upaya

VARIABLES
    fase,       \* fase[u]: how far attempt u has come
    artefak,    \* artefak[u]: versions in the list artifacts of u
    berkas,     \* berkas[f]: "TIADA", "TMP" before its rename, "ADA"
    usang,      \* files older than the grace period
    rujukan,    \* rujukan[d]: the attempt whose file is DokumenTte.pdfPath of d
    kandidat,   \* files the running sweep has still to look at
    yatim,      \* the file of the sweep that no document referred to
    mati        \* crashes so far

vars == <<fase, artefak, berkas, usang, rujukan, kandidat, yatim, mati>>
sapu == <<kandidat, yatim>>

TypeOK ==
    /\ fase \in [Upaya -> {"BELUM", "MENULIS", "MEMBERSIHKAN", "GAGAL", "SELESAI"}]
    /\ artefak \in [Upaya -> SUBSET Dokumen]
    /\ berkas \in [Berkas -> {"TIADA", "TMP", "ADA"}]
    /\ usang \subseteq Berkas
    /\ rujukan \in [Dokumen -> Upaya \cup {Kosong}]
    /\ kandidat \subseteq Berkas
    /\ yatim \subseteq Berkas
    /\ mati \in Nat

Init ==
    /\ fase = [u \in Upaya |-> "BELUM"]
    /\ artefak = [u \in Upaya |-> {}]
    /\ berkas = [f \in Berkas |-> "TIADA"]
    /\ usang = {}
    /\ rujukan = [d \in Dokumen |-> Kosong]
    /\ kandidat = {}
    /\ yatim = {}
    /\ mati = 0

Dirujuk(f) == rujukan[f[2]] = f[1]
BelumTerbit(u) == \A d \in Paket[u] : rujukan[d] = Kosong

-----------------------------------------------------------------------------
(***************************************************************************)
(* One attempt of tandaTanganiSemuaSopPengajuan.                           *)
(***************************************************************************)
Siapkan(u) ==
    /\ fase[u] = "BELUM"
    /\ BelumTerbit(u)
    /\ fase' = [fase EXCEPT ![u] = "MENULIS"]
    /\ UNCHANGED <<artefak, berkas, usang, rujukan, sapu, mati>>

\* writeOfficialPdf writes beside the path, one file at a time, ...
TulisTmp(u, d) ==
    /\ fase[u] = "MENULIS"
    /\ d \in Paket[u] \ artefak[u]
    /\ \A e \in Dokumen : berkas[<<u, e>>] # "TMP"
    /\ berkas' = [berkas EXCEPT ![<<u, d>>] = "TMP"]
    /\ UNCHANGED <<fase, artefak, usang, rujukan, sapu, mati>>

\* ... and renames; only then the attempt knows the file as its own.
NamaiPdf(u, d) ==
    /\ fase[u] = "MENULIS"
    /\ berkas[<<u, d>>] = "TMP"
    /\ berkas' = [berkas EXCEPT ![<<u, d>>] = "ADA"]
    /\ artefak' = [artefak EXCEPT ![u] = @ \cup {d}]
    /\ UNCHANGED <<fase, usang, rujukan, sapu, mati>>

(***************************************************************************)
(* Any error: stamping, signing, writing (which tries to remove its        *)
(* temporary file), or a final transaction that did not commit.            *)
(***************************************************************************)
Gagal(u) ==
    /\ fase[u] = "MENULIS"
    /\ \E sisa \in {"TIADA", "TMP"} :
          berkas' = [f \in Berkas |->
              IF f[1] = u /\ berkas[f] = "TMP" THEN sisa ELSE berkas[f]]
    /\ fase' = [fase EXCEPT ![u] = "MEMBERSIHKAN"]
    /\ UNCHANGED <<artefak, usang, rujukan, sapu, mati>>

\* Mutant: the final transaction does not ask for a file of every version.
FinalisasiDini(u) ==
    /\ fase[u] = "MENULIS"
    /\ BelumTerbit(u)
    /\ rujukan' = [d \in Dokumen |-> IF d \in Paket[u] THEN u ELSE rujukan[d]]
    /\ fase' = [fase EXCEPT ![u] = "SELESAI"]
    /\ UNCHANGED <<artefak, berkas, usang, sapu, mati>>

(***************************************************************************)
(* finalizeSopPengesahanWithArtifacts: the paths of the whole batch are    *)
(* published at once, by the one attempt that claims the submission.  If   *)
(* the connection breaks during COMMIT, the attempt sees an error.         *)
(***************************************************************************)
Finalisasi(u) ==
    /\ fase[u] = "MENULIS"
    /\ artefak[u] = Paket[u]
    /\ BelumTerbit(u)
    /\ rujukan' = [d \in Dokumen |-> IF d \in Paket[u] THEN u ELSE rujukan[d]]
    /\ \E akhir \in {"SELESAI"} \cup IF CommitAmbigu THEN {"MEMBERSIHKAN"} ELSE {} :
          fase' = [fase EXCEPT ![u] = akhir]
    /\ UNCHANGED <<artefak, berkas, usang, sapu, mati>>

\* The catch block deletes each file of artifacts; deleteStoredPdf hides an error.
HapusArtefak(u, d) ==
    /\ fase[u] = "MEMBERSIHKAN"
    /\ d \in artefak[u]
    /\ artefak' = [artefak EXCEPT ![u] = @ \ {d}]
    /\ \/ berkas' = [berkas EXCEPT ![<<u, d>>] = "TIADA"]
       \/ berkas' = berkas
    /\ UNCHANGED <<fase, usang, rujukan, sapu, mati>>

JawabGagal(u) ==
    /\ fase[u] = "MEMBERSIHKAN"
    /\ artefak[u] = {}
    /\ fase' = [fase EXCEPT ![u] = "GAGAL"]
    /\ UNCHANGED <<artefak, berkas, usang, rujukan, sapu, mati>>

-----------------------------------------------------------------------------
(***************************************************************************)
(* Time, and the sweeper: reconcile lists stale files, asks the database   *)
(* about each in turn, and deletes it when no document refers to it.       *)
(***************************************************************************)
Berjalan(u) == fase[u] \in {"MENULIS", "MEMBERSIHKAN"}

\* A file becomes stale; no attempt lasts as long as the grace period (2 hours or more).
Menua(f) ==
    /\ berkas[f] # "TIADA"
    /\ f \notin usang
    /\ ~Berjalan(f[1])
    /\ usang' = usang \cup {f}
    /\ UNCHANGED <<fase, artefak, berkas, rujukan, sapu, mati>>

\* Mutant: the pattern of the file names does not match temporary files.
UsangTanpaTmp == {f \in usang : berkas[f] = "ADA"}

BerkasUsang == usang

\* listStaleAttemptFiles: the first BatasSapu stale files, referenced ones too.
SapuMulai ==
    /\ kandidat = {}
    /\ BerkasUsang # {}
    /\ kandidat' = {f \in BerkasUsang :
          Cardinality({g \in BerkasUsang : Posisi[g] < Posisi[f]}) < BatasSapu}
    /\ UNCHANGED <<fase, artefak, berkas, usang, rujukan, yatim, mati>>

Giliran(f) == f \in kandidat /\ \A g \in kandidat : Posisi[f] <= Posisi[g]

\* Mutant: the database is not asked.
PeriksaTanpaRujukan(f) ==
    /\ Giliran(f)
    /\ yatim = {}
    /\ yatim' = {f}
    /\ UNCHANGED <<fase, artefak, berkas, usang, rujukan, kandidat, mati>>

SapuPeriksa(f) ==
    /\ Giliran(f)
    /\ yatim = {}
    /\ kandidat' = IF Dirujuk(f) THEN kandidat \ {f} ELSE kandidat
    /\ yatim' = IF Dirujuk(f) THEN {} ELSE {f}
    /\ UNCHANGED <<fase, artefak, berkas, usang, rujukan, mati>>

SapuHapus(f) ==
    /\ f \in yatim
    /\ berkas' = [berkas EXCEPT ![f] = "TIADA"]
    /\ usang' = usang \ {f}
    /\ kandidat' = kandidat \ {f}
    /\ yatim' = {}
    /\ UNCHANGED <<fase, artefak, rujukan, mati>>

\* A database or file system error ends the sweep; the files left are kept.
SapuGagal ==
    /\ kandidat # {}
    /\ kandidat' = {}
    /\ yatim' = {}
    /\ UNCHANGED <<fase, artefak, berkas, usang, rujukan, mati>>

\* The server stops: attempts and sweep are forgotten, the files and the rows stay.
Mati ==
    /\ mati < MaxMati
    /\ mati' = mati + 1
    /\ fase' = [u \in Upaya |-> IF Berjalan(u) THEN "GAGAL" ELSE fase[u]]
    /\ artefak' = [u \in Upaya |-> {}]
    /\ kandidat' = {}
    /\ yatim' = {}
    /\ UNCHANGED <<berkas, usang, rujukan>>

UpayaNext(u) ==
    \/ Siapkan(u)
    \/ \E d \in Dokumen : TulisTmp(u, d) \/ NamaiPdf(u, d) \/ HapusArtefak(u, d)
    \/ Gagal(u)
    \/ Finalisasi(u)
    \/ JawabGagal(u)

Next ==
    \/ \E u \in Upaya : UpayaNext(u)
    \/ \E f \in Berkas : Menua(f) \/ SapuPeriksa(f) \/ SapuHapus(f)
    \/ SapuMulai
    \/ SapuGagal
    \/ Mati

Spec == Init /\ [][Next]_vars

(***************************************************************************)
(* A started request runs to its end, time passes, the timer of the        *)
(* sweeper fires, and the database and the disk, asked about the same file *)
(* again and again, do not fail every time.                                *)
(***************************************************************************)
SpecAdil ==
    /\ Spec
    /\ \A u \in Upaya : WF_vars(UpayaNext(u) /\ ~Siapkan(u))
    /\ WF_vars(SapuMulai)
    /\ \A f \in Berkas : /\ WF_vars(Menua(f))
                         /\ SF_vars(SapuPeriksa(f))
                         /\ SF_vars(SapuHapus(f))

-----------------------------------------------------------------------------
\* The file of a published document is there to be read (getPublishedPdf).
PublikasiTersedia ==
    \A d \in Dokumen : rujukan[d] # Kosong => berkas[<<rujukan[d], d>>] = "ADA"

(***************************************************************************)
(* What the sweeper is about to delete is not the file of a document, nor  *)
(* of an attempt that may still publish it, however long ago the database  *)
(* was asked (reconcile, deleteStaleAttemptFile).                          *)
(***************************************************************************)
SapuAman == \A f \in yatim : ~Dirujuk(f) /\ fase[f[1]] # "MENULIS"

\* A file no document refers to does not stay for ever.
YatimTerhapus ==
    \A f \in Berkas : berkas[f] # "TIADA" ~> berkas[f] = "TIADA" \/ Dirujuk(f)

(***************************************************************************)
(* The inductive invariant: an attempt not begun has no files, stale files *)
(* belong to attempts that are over, a running attempt still has what it   *)
(* wrote, and, unless a commit can report an error, what was published was *)
(* finished.                                                               *)
(***************************************************************************)
UpayaBelum ==
    \A u \in Upaya : fase[u] = "BELUM" =>
        artefak[u] = {} /\ \A d \in Dokumen : berkas[<<u, d>>] = "TIADA"
UsangSelesai == \A f \in usang : fase[f[1]] \in {"GAGAL", "SELESAI"}
SapuSah == kandidat \subseteq usang /\ yatim \subseteq kandidat
ArtefakAda ==
    \A u \in Upaya : fase[u] = "MENULIS" => \A d \in artefak[u] : berkas[<<u, d>>] = "ADA"
TerbitSelesai ==
    ~CommitAmbigu => \A d \in Dokumen : rujukan[d] # Kosong => fase[rujukan[d]] = "SELESAI"

IInv == /\ TypeOK
        /\ UpayaBelum
        /\ UsangSelesai
        /\ SapuSah
        /\ SapuAman
        /\ ArtefakAda
        /\ TerbitSelesai
        /\ ~CommitAmbigu => PublikasiTersedia
=============================================================================
