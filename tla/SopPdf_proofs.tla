---------------------------- MODULE SopPdf_proofs ----------------------------
(***************************************************************************)
(* The files: however attempts, crashes and sweeps interleave, the sweeper *)
(* never deletes a file some document refers to, and, as long as a commit  *)
(* does not report an error, no published file is lost.                    *)
(***************************************************************************)
EXTENDS SopPdf, TLAPS

\* The initial state has no files at all.
LEMMA InitIInv == Init => IInv
<1> SUFFICES ASSUME Init PROVE IInv
    OBVIOUS
<1>1. TypeOK
    BY DEF Init, TypeOK
<1>2. UpayaBelum /\ UsangSelesai /\ SapuSah /\ SapuAman /\ ArtefakAda
    BY DEF Init, Berkas, UpayaBelum, UsangSelesai, SapuSah, SapuAman, ArtefakAda
<1>3. TerbitSelesai /\ PublikasiTersedia
    BY DEF Init, TerbitSelesai, PublikasiTersedia
<1> QED
    BY <1>1, <1>2, <1>3 DEF IInv

-----------------------------------------------------------------------------
\* A request starts with nothing written.
LEMMA SiapkanIInv == ASSUME IInv, NEW u \in Upaya, Siapkan(u) PROVE IInv'
<1>1. TypeOK'
    BY DEF IInv, TypeOK, Siapkan, sapu
<1>2. UpayaBelum'
    BY DEF IInv, UpayaBelum, Siapkan
<1>3. UsangSelesai'
    BY DEF IInv, UsangSelesai, Siapkan
<1>4. SapuSah'
    BY DEF IInv, SapuSah, Siapkan, sapu
<1>5. SapuAman'
    BY DEF IInv, SapuAman, SapuSah, UsangSelesai, Dirujuk, Siapkan, sapu
<1>6. ArtefakAda'
    BY DEF IInv, UpayaBelum, ArtefakAda, Siapkan
<1>7. TerbitSelesai'
    BY DEF IInv, TerbitSelesai, Siapkan
<1>8. (~CommitAmbigu => PublikasiTersedia)'
    BY DEF IInv, PublikasiTersedia, Siapkan
<1> QED
    BY <1>1, <1>2, <1>3, <1>4, <1>5, <1>6, <1>7, <1>8 DEF IInv

\* A temporary file is new: it is in no list yet and no document refers to it.
LEMMA TulisTmpIInv ==
    ASSUME IInv, NEW u \in Upaya, NEW d \in Dokumen, TulisTmp(u, d)
    PROVE  IInv'
<1>1. TypeOK'
    BY DEF IInv, TypeOK, TulisTmp, sapu
<1>2. UpayaBelum'
    BY DEF IInv, UpayaBelum, TulisTmp
<1>3. UsangSelesai'
    BY DEF IInv, UsangSelesai, TulisTmp
<1>4. SapuSah'
    BY DEF IInv, SapuSah, TulisTmp, sapu
<1>5. SapuAman'
    BY DEF IInv, SapuAman, Dirujuk, TulisTmp, sapu
<1>6. ArtefakAda'
    BY DEF IInv, ArtefakAda, TulisTmp
<1>7. TerbitSelesai'
    BY DEF IInv, TerbitSelesai, TulisTmp
<1>8. (~CommitAmbigu => PublikasiTersedia)'
    BY DEF IInv, PublikasiTersedia, TerbitSelesai, TulisTmp
<1> QED
    BY <1>1, <1>2, <1>3, <1>4, <1>5, <1>6, <1>7, <1>8 DEF IInv

\* A renamed file joins the list of its attempt.
LEMMA NamaiPdfIInv ==
    ASSUME IInv, NEW u \in Upaya, NEW d \in Dokumen, NamaiPdf(u, d)
    PROVE  IInv'
<1>1. TypeOK'
    BY DEF IInv, TypeOK, NamaiPdf, sapu
<1>2. UpayaBelum'
    BY DEF IInv, UpayaBelum, NamaiPdf
<1>3. UsangSelesai'
    BY DEF IInv, UsangSelesai, NamaiPdf
<1>4. SapuSah'
    BY DEF IInv, SapuSah, NamaiPdf, sapu
<1>5. SapuAman'
    BY DEF IInv, SapuAman, Dirujuk, NamaiPdf, sapu
<1>6. ArtefakAda'
    BY DEF IInv, TypeOK, ArtefakAda, NamaiPdf, Berkas
<1>7. TerbitSelesai'
    BY DEF IInv, TerbitSelesai, NamaiPdf
<1>8. (~CommitAmbigu => PublikasiTersedia)'
    BY DEF IInv, PublikasiTersedia, NamaiPdf
<1> QED
    BY <1>1, <1>2, <1>3, <1>4, <1>5, <1>6, <1>7, <1>8 DEF IInv

\* A failing attempt touches temporary files only.
LEMMA GagalIInv == ASSUME IInv, NEW u \in Upaya, Gagal(u) PROVE IInv'
<1>1. TypeOK'
    BY DEF IInv, TypeOK, Gagal, sapu
<1>2. UpayaBelum'
    BY DEF IInv, UpayaBelum, Gagal, Berkas
<1>3. UsangSelesai'
    BY DEF IInv, UsangSelesai, Gagal
<1>4. SapuSah'
    BY DEF IInv, SapuSah, Gagal, sapu
<1>5. SapuAman'
    BY DEF IInv, SapuAman, Dirujuk, Gagal, sapu
<1>6. ArtefakAda'
    BY DEF IInv, TypeOK, ArtefakAda, Gagal, Berkas
<1>7. TerbitSelesai'
    BY DEF IInv, TerbitSelesai, Gagal
<1>8. (~CommitAmbigu => PublikasiTersedia)'
    BY DEF IInv, TypeOK, PublikasiTersedia, Gagal, Berkas
<1> QED
    BY <1>1, <1>2, <1>3, <1>4, <1>5, <1>6, <1>7, <1>8 DEF IInv

\* Everything published was written, and none of it is stale.
LEMMA FinalisasiIInv == ASSUME IInv, NEW u \in Upaya, Finalisasi(u) PROVE IInv'
<1>1. TypeOK'
    BY DEF IInv, TypeOK, Finalisasi, sapu
<1>2. UpayaBelum'
    BY DEF IInv, UpayaBelum, Finalisasi
<1>3. UsangSelesai'
    BY DEF IInv, UsangSelesai, Finalisasi
<1>4. SapuSah'
    BY DEF IInv, SapuSah, Finalisasi, sapu
<1>5. SapuAman'
    BY DEF IInv, TypeOK, SapuAman, Dirujuk, Finalisasi, Berkas, sapu
<1>6. ArtefakAda'
    BY DEF IInv, ArtefakAda, Finalisasi
<1>7. TerbitSelesai'
    BY DEF IInv, TypeOK, TerbitSelesai, Finalisasi
<1>8. (~CommitAmbigu => PublikasiTersedia)'
    BY DEF IInv, PublikasiTersedia, ArtefakAda, Finalisasi
<1> QED
    BY <1>1, <1>2, <1>3, <1>4, <1>5, <1>6, <1>7, <1>8 DEF IInv

\* An attempt that cleans up published nothing, unless a commit can report an error.
LEMMA HapusArtefakIInv ==
    ASSUME IInv, NEW u \in Upaya, NEW d \in Dokumen, HapusArtefak(u, d)
    PROVE  IInv'
<1>1. TypeOK'
    BY DEF IInv, TypeOK, HapusArtefak, sapu
<1>2. UpayaBelum'
    BY DEF IInv, TypeOK, UpayaBelum, HapusArtefak, Berkas
<1>3. UsangSelesai'
    BY DEF IInv, UsangSelesai, HapusArtefak
<1>4. SapuSah'
    BY DEF IInv, SapuSah, HapusArtefak, sapu
<1>5. SapuAman'
    BY DEF IInv, SapuAman, Dirujuk, HapusArtefak, sapu
<1>6. ArtefakAda'
    BY DEF IInv, TypeOK, ArtefakAda, HapusArtefak, Berkas
<1>7. TerbitSelesai'
    BY DEF IInv, TerbitSelesai, HapusArtefak
<1>8. (~CommitAmbigu => PublikasiTersedia)'
    BY DEF IInv, TypeOK, PublikasiTersedia, TerbitSelesai, HapusArtefak, Berkas
<1> QED
    BY <1>1, <1>2, <1>3, <1>4, <1>5, <1>6, <1>7, <1>8 DEF IInv

\* The answer changes no file.
LEMMA JawabGagalIInv == ASSUME IInv, NEW u \in Upaya, JawabGagal(u) PROVE IInv'
<1>1. TypeOK'
    BY DEF IInv, TypeOK, JawabGagal, sapu
<1>2. UpayaBelum'
    BY DEF IInv, UpayaBelum, JawabGagal
<1>3. UsangSelesai'
    BY DEF IInv, UsangSelesai, JawabGagal
<1>4. SapuSah'
    BY DEF IInv, SapuSah, JawabGagal, sapu
<1>5. SapuAman'
    BY DEF IInv, SapuAman, Dirujuk, JawabGagal, sapu
<1>6. ArtefakAda'
    BY DEF IInv, ArtefakAda, JawabGagal
<1>7. TerbitSelesai'
    BY DEF IInv, TerbitSelesai, JawabGagal
<1>8. (~CommitAmbigu => PublikasiTersedia)'
    BY DEF IInv, PublikasiTersedia, JawabGagal
<1> QED
    BY <1>1, <1>2, <1>3, <1>4, <1>5, <1>6, <1>7, <1>8 DEF IInv

\* Only files of attempts that are over become stale.
LEMMA MenuaIInv == ASSUME IInv, NEW f \in Berkas, Menua(f) PROVE IInv'
<1>1. TypeOK'
    BY DEF IInv, TypeOK, Menua, sapu
<1>2. UpayaBelum'
    BY DEF IInv, UpayaBelum, Menua
<1>3. UsangSelesai'
    BY DEF IInv, TypeOK, UsangSelesai, UpayaBelum, Berjalan, Menua, Berkas
<1>4. SapuSah'
    BY DEF IInv, SapuSah, Menua, sapu
<1>5. SapuAman'
    BY DEF IInv, SapuAman, Dirujuk, Menua, sapu
<1>6. ArtefakAda'
    BY DEF IInv, ArtefakAda, Menua
<1>7. TerbitSelesai'
    BY DEF IInv, TerbitSelesai, Menua
<1>8. (~CommitAmbigu => PublikasiTersedia)'
    BY DEF IInv, PublikasiTersedia, Menua
<1> QED
    BY <1>1, <1>2, <1>3, <1>4, <1>5, <1>6, <1>7, <1>8 DEF IInv

\* A sweep lists stale files.
LEMMA SapuMulaiIInv == ASSUME IInv, SapuMulai PROVE IInv'
<1>1. TypeOK'
    BY DEF IInv, TypeOK, SapuMulai, BerkasUsang
<1>2. UpayaBelum'
    BY DEF IInv, UpayaBelum, SapuMulai
<1>3. UsangSelesai'
    BY DEF IInv, UsangSelesai, SapuMulai
<1>4. SapuSah'
    BY DEF IInv, SapuSah, SapuMulai, BerkasUsang
<1>5. SapuAman'
    BY DEF IInv, SapuAman, SapuSah, SapuMulai
<1>6. ArtefakAda'
    BY DEF IInv, ArtefakAda, SapuMulai
<1>7. TerbitSelesai'
    BY DEF IInv, TerbitSelesai, SapuMulai
<1>8. (~CommitAmbigu => PublikasiTersedia)'
    BY DEF IInv, PublikasiTersedia, SapuMulai
<1> QED
    BY <1>1, <1>2, <1>3, <1>4, <1>5, <1>6, <1>7, <1>8 DEF IInv

\* The file found without a document belongs to an attempt that is over.
LEMMA SapuPeriksaIInv == ASSUME IInv, NEW f \in Berkas, SapuPeriksa(f) PROVE IInv'
<1>1. TypeOK'
    BY DEF IInv, TypeOK, SapuPeriksa
<1>2. UpayaBelum'
    BY DEF IInv, UpayaBelum, SapuPeriksa
<1>3. UsangSelesai'
    BY DEF IInv, UsangSelesai, SapuPeriksa
<1>4. SapuSah'
    BY DEF IInv, SapuSah, SapuPeriksa, Giliran
<1>5. SapuAman'
    BY DEF IInv, SapuAman, SapuSah, UsangSelesai, Dirujuk, SapuPeriksa, Giliran
<1>6. ArtefakAda'
    BY DEF IInv, ArtefakAda, SapuPeriksa
<1>7. TerbitSelesai'
    BY DEF IInv, TerbitSelesai, SapuPeriksa
<1>8. (~CommitAmbigu => PublikasiTersedia)'
    BY DEF IInv, PublikasiTersedia, SapuPeriksa
<1> QED
    BY <1>1, <1>2, <1>3, <1>4, <1>5, <1>6, <1>7, <1>8 DEF IInv

\* The file deleted is referred to by no document.
LEMMA SapuHapusIInv == ASSUME IInv, NEW f \in Berkas, SapuHapus(f) PROVE IInv'
<1>1. TypeOK'
    BY DEF IInv, TypeOK, SapuHapus
<1>2. UpayaBelum'
    BY DEF IInv, UpayaBelum, SapuHapus
<1>3. UsangSelesai'
    BY DEF IInv, UsangSelesai, SapuHapus
<1>4. SapuSah'
    BY DEF IInv, SapuSah, SapuHapus
<1>5. SapuAman'
    BY DEF IInv, SapuAman, SapuHapus
<1>6. ArtefakAda'
    BY DEF IInv, ArtefakAda, UsangSelesai, SapuSah, SapuHapus
<1>7. TerbitSelesai'
    BY DEF IInv, TerbitSelesai, SapuHapus
<1>8. (~CommitAmbigu => PublikasiTersedia)'
    BY DEF IInv, PublikasiTersedia, SapuAman, Dirujuk, SapuHapus
<1> QED
    BY <1>1, <1>2, <1>3, <1>4, <1>5, <1>6, <1>7, <1>8 DEF IInv

\* A sweep given up deletes nothing.
LEMMA SapuGagalIInv == ASSUME IInv, SapuGagal PROVE IInv'
<1>1. TypeOK'
    BY DEF IInv, TypeOK, SapuGagal
<1>2. UpayaBelum'
    BY DEF IInv, UpayaBelum, SapuGagal
<1>3. UsangSelesai'
    BY DEF IInv, UsangSelesai, SapuGagal
<1>4. SapuSah'
    BY DEF IInv, SapuSah, SapuGagal
<1>5. SapuAman'
    BY DEF IInv, SapuAman, SapuGagal
<1>6. ArtefakAda'
    BY DEF IInv, ArtefakAda, SapuGagal
<1>7. TerbitSelesai'
    BY DEF IInv, TerbitSelesai, SapuGagal
<1>8. (~CommitAmbigu => PublikasiTersedia)'
    BY DEF IInv, PublikasiTersedia, SapuGagal
<1> QED
    BY <1>1, <1>2, <1>3, <1>4, <1>5, <1>6, <1>7, <1>8 DEF IInv

\* A crash only ends attempts and the sweep.
LEMMA MatiIInv == ASSUME IInv, Mati PROVE IInv'
<1>1. TypeOK'
    BY DEF IInv, TypeOK, Mati
<1>2. UpayaBelum'
    BY DEF IInv, UpayaBelum, Mati
<1>3. UsangSelesai'
    BY DEF IInv, TypeOK, UsangSelesai, Mati, Berkas
<1>4. SapuSah'
    BY DEF IInv, SapuSah, Mati
<1>5. SapuAman'
    BY DEF IInv, SapuAman, Mati
<1>6. ArtefakAda'
    BY DEF IInv, ArtefakAda, Mati
<1>7. TerbitSelesai'
    BY DEF IInv, TypeOK, TerbitSelesai, Berjalan, Mati
<1>8. (~CommitAmbigu => PublikasiTersedia)'
    BY DEF IInv, PublikasiTersedia, Mati
<1> QED
    BY <1>1, <1>2, <1>3, <1>4, <1>5, <1>6, <1>7, <1>8 DEF IInv

\* IInv is inductive: one lemma per action.
LEMMA NextIInv == IInv /\ [Next]_vars => IInv'
<1> SUFFICES ASSUME IInv, [Next]_vars PROVE IInv'
    OBVIOUS
<1>1. CASE UNCHANGED vars
    BY <1>1 DEF vars, IInv, TypeOK, UpayaBelum, UsangSelesai, SapuSah, SapuAman,
                ArtefakAda, TerbitSelesai, PublikasiTersedia, Berjalan, Dirujuk
<1>2. ASSUME NEW u \in Upaya, UpayaNext(u) PROVE IInv'
  <2>1. CASE Siapkan(u) \/ Gagal(u) \/ Finalisasi(u) \/ JawabGagal(u)
      BY <2>1, SiapkanIInv, GagalIInv, FinalisasiIInv, JawabGagalIInv
  <2>2. ASSUME NEW d \in Dokumen, TulisTmp(u, d) \/ NamaiPdf(u, d) \/ HapusArtefak(u, d)
        PROVE  IInv'
      BY <2>2, TulisTmpIInv, NamaiPdfIInv, HapusArtefakIInv
  <2> QED
      BY <1>2, <2>1, <2>2 DEF UpayaNext
<1>3. ASSUME NEW f \in Berkas, Menua(f) \/ SapuPeriksa(f) \/ SapuHapus(f) PROVE IInv'
    BY <1>3, MenuaIInv, SapuPeriksaIInv, SapuHapusIInv
<1>4. CASE SapuMulai \/ SapuGagal \/ Mati
    BY <1>4, SapuMulaiIInv, SapuGagalIInv, MatiIInv
<1> QED
    BY <1>1, <1>2, <1>3, <1>4 DEF Next

-----------------------------------------------------------------------------
\* Every reachable state satisfies the inductive invariant.
THEOREM Invarian == Spec => []IInv
<1>1. Init => IInv
    BY InitIInv
<1>2. IInv /\ [Next]_vars => IInv'
    BY NextIInv
<1> QED
    BY <1>1, <1>2, PTL DEF Spec

(***************************************************************************)
(* The sweeper never deletes a file that a document refers to, nor one an  *)
(* attempt may still publish, even when commits report errors (reconcile). *)
(***************************************************************************)
THEOREM PenyapuAman == Spec => []SapuAman
<1>1. IInv => SapuAman
    BY DEF IInv
<1> QED
    BY <1>1, Invarian, PTL

(***************************************************************************)
(* As long as no commit reports an error, every published file stays       *)
(* readable: the files-first, database-last protocol of the signing.       *)
(***************************************************************************)
THEOREM PublikasiTerjaga == ~CommitAmbigu => (Spec => []PublikasiTersedia)
<1> SUFFICES ASSUME ~CommitAmbigu PROVE Spec => []PublikasiTersedia
    OBVIOUS
<1>1. IInv => PublikasiTersedia
    BY DEF IInv
<1> QED
    BY <1>1, Invarian, PTL
=============================================================================
