-------------------------- MODULE DiagramEditor_proofs --------------------------
(***************************************************************************)
(* The autosave of the procedure for any number of editors, edits, reads   *)
(* and failures: an edit is never forgotten, one write of an editor is     *)
(* under way at a time, a write replaces only what its browser had been    *)
(* sent, the hand-over after a flush is honest, and what a page takes for  *)
(* saved is what the server holds.                                         *)
(*                                                                         *)
(* Then the diagram beside the procedure, for any number of editors and    *)
(* kinds: what was shown of SopEditor survives the composition, and a      *)
(* stored override always names langkah of the current procedure.  For one *)
(* editor, a stored slice is never replaced by an older one.               *)
(***************************************************************************)
EXTENDS DiagramEditor, FiniteSetTheorems, TLAPS

-----------------------------------------------------------------------------
(***************************************************************************)
(* The operators of useSingleWriterAutosave, for any state of the hook.    *)
(***************************************************************************)
\* What no step of the hook but an answer touches.
Tetap(q, p) == q.muat = p.muat /\ q.draf = p.draf /\ q.dasar = p.dasar

\* drain sends exactly what is dirty while the page may save, and releases the
\* flush that waits for it only when there is nothing more to send.
LEMMA KurasSifat ==
    ASSUME NEW p \in Penulis, NEW aktif \in BOOLEAN, NEW akhir \in StatusSimpan
    PROVE  LET q == Kuras(p, aktif, akhir)
           IN  /\ q \in Penulis
               /\ Tetap(q, p)
               /\ q.kirim <=> aktif /\ Kotor(p)
               /\ q.tick = p.tick
               /\ q.serah = p.serah \/ (q.serah = "kirim" /\ p.serah = "siram" /\ ~q.kirim)
BY DEF Kuras, Kotor, Penulis, StatusSimpan, Tetap

\* The effect arms the timer for rows that differ from the baseline.
LEMMA EfekSifat ==
    ASSUME NEW p \in Penulis, NEW aktif \in BOOLEAN
    PROVE  LET q == Efek(p, aktif)
           IN  /\ q \in Penulis
               /\ Tetap(q, p)
               /\ q.kirim = p.kirim /\ q.serah = p.serah
               /\ aktif /\ Kotor(p) => q.tick \/ q.kirim
               /\ (p.tick => ~p.kirim) => (q.tick => ~q.kirim)
<1>1. CASE ~aktif
    BY <1>1 DEF Efek, Kotor, Penulis, StatusSimpan, Tetap
<1>2. CASE aktif /\ ~Kotor(p)
    BY <1>2 DEF Efek, Kotor, Penulis, StatusSimpan, Tetap
<1>3. CASE aktif /\ Kotor(p) /\ p.kirim
    BY <1>3 DEF Efek, Kotor, Penulis, StatusSimpan, Tetap
<1>4. CASE aktif /\ Kotor(p) /\ ~p.kirim
    BY <1>4 DEF Efek, Kotor, Penulis, StatusSimpan, Tetap
<1> QED
    BY <1>1, <1>2, <1>3, <1>4

\* A failed write ends the run with the failure on the screen.
LEMMA GagalSifat ==
    ASSUME NEW p \in Penulis
    PROVE  LET q == Gagal(p)
           IN  /\ q \in Penulis
               /\ Tetap(q, p)
               /\ ~q.kirim /\ q.status = "galat"
               /\ q.serah = p.serah \/ (q.serah = "kirim" /\ p.serah = "siram")
BY DEF Gagal, Penulis, StatusSimpan, Tetap

\* What prosedur is a member of.
ProsedurMungkin ==
    [isi : Naskah, rev : Nat, gen : Nat, oleh : [Ruas -> Penyunting \cup {Kosong}]]

\* What holds of the page of an editor between any two steps.
LamanSah(p, w) ==
    /\ p.muat # Kosong => w # Kosong /\ p.draf \in Naskah /\ p.dasar \in Naskah
    /\ p.tick => ~p.kirim
    /\ AktifDi(p, w) /\ Kotor(p) => p.tick \/ p.kirim \/ p.status = "galat"

\* A new workbench wakes the effect only when it changes whether the page may save.
LEMMA EfekBilaSifat ==
    ASSUME NEW p \in Penulis, NEW lama \in Tampak \cup {Kosong}, NEW baru \in Tampak,
           LamanSah(p, lama)
    PROVE  LET q == EfekBila(p, lama, baru)
           IN  /\ q \in Penulis
               /\ Tetap(q, p)
               /\ q.kirim = p.kirim /\ q.serah = p.serah
               /\ LamanSah(q, baru)
<1>0. baru # Kosong
    BY KosongAssumption
<1>1. AktifDi(p, lama) \in BOOLEAN /\ AktifDi(p, baru) \in BOOLEAN
    BY DEF AktifDi, Tampak
<1>2. CASE AktifDi(p, lama) = AktifDi(p, baru)
    BY <1>0, <1>2 DEF EfekBila, Tetap, LamanSah
<1>3. CASE AktifDi(p, lama) # AktifDi(p, baru)
    <2> DEFINE q == Efek(p, AktifDi(p, baru))
    <2>1. /\ q \in Penulis /\ Tetap(q, p) /\ q.kirim = p.kirim /\ q.serah = p.serah
          /\ AktifDi(p, baru) /\ Kotor(p) => q.tick \/ q.kirim
          /\ q.tick => ~q.kirim
        BY <1>1, EfekSifat DEF LamanSah
    <2>2. EfekBila(p, lama, baru) = q
        BY <1>3 DEF EfekBila
    <2> HIDE DEF q
    <2> QED
        BY <1>0, <2>1, <2>2 DEF AktifDi, Kotor, Tetap, LamanSah
<1> QED
    BY <1>2, <1>3

-----------------------------------------------------------------------------
(***************************************************************************)
(* The inductive invariant.                                                *)
(***************************************************************************)
\* A revision names one content: a view that is not old is the procedure.
TampakSah(w) ==
    w.rev =< prosedur.rev /\ (w.rev = prosedur.rev => w.isi = prosedur.isi)

TampakSelaras ==
    /\ \A c \in Penyunting : wb[c] # Kosong => TampakSah(wb[c])
    /\ \A c \in Penyunting : segar[c] # Kosong => TampakSah(segar[c])
    /\ \A r \in minta : r.lihat # Kosong => TampakSah(r.lihat)

\* Likewise the content a write was built on.
PermintaanSah ==
    \A r \in minta : r.bagian = "PROSEDUR" =>
        /\ r.isi \in Naskah
        /\ r.rev =< prosedur.rev /\ (r.rev = prosedur.rev => r.atas = prosedur.isi)

SemuaLaman == \A c \in Penyunting : LamanSah(pn[c], wb[c])

Menunggu(c) == {r \in minta : r.dari = c /\ MilikProsedur(r)}

\* drain's flag agrees with the one write somebody waits for.
Tunggal ==
    \A c \in Penyunting :
        /\ pn[c].kirim <=> Menunggu(c) # {}
        /\ \A r, s \in Menunggu(c) : r = s

\* A section a write under way does not send is as it was last saved.
SisaSama ==
    \A c \in Penyunting : \A r \in Menunggu(c) :
        pn[c].muat # Kosong /\ \A u \in Ruas \ r.ruas : r.isi[u] = pn[c].dasar[u]

IInv == TypeOKE /\ TampakSelaras /\ PermintaanSah /\ SemuaLaman /\ Tunggal /\ SisaSama

LEMMA InitIInv == InitE => IInv
<1> SUFFICES ASSUME InitE PROVE IInv
    OBVIOUS
<1>1. NaskahAwal \in Naskah
    BY DEF NaskahAwal, Naskah, Isi
<1>2. PenulisBaru \in Penulis
    BY DEF PenulisBaru, Penulis, StatusSimpan, NaskahMungkin
<1>3. TypeOKE
    BY <1>1, <1>2 DEF InitE, TypeOKE, TanpaOverride, Isi
<1>4. TampakSelaras /\ PermintaanSah
    BY DEF InitE, TampakSelaras, PermintaanSah
<1>5. SemuaLaman
    BY DEF InitE, SemuaLaman, LamanSah, PenulisBaru, Kotor
<1>6. Tunggal /\ SisaSama
    BY DEF InitE, Tunggal, SisaSama, Menunggu, PenulisBaru
<1> QED
    BY <1>3, <1>4, <1>5, <1>6 DEF IInv

\* What the server shows is what it holds.
LEMMA LihatSah == ASSUME TypeOKE PROVE Lihat \in Tampak /\ TampakSah(Lihat)
BY DEF TypeOKE, Lihat, Tampak, TampakSah

\* A write is built on the workbench it was sent from.
LEMMA PermintaanBaru ==
    ASSUME NEW c \in Penyunting, NEW p \in Penulis, NEW w \in Tampak, TampakSah(w),
           p.draf \in Naskah
    PROVE  LET s == PermintaanProsedur(c, p, w)
           IN  /\ s \in Permintaan
               /\ s.isi = p.draf /\ s.ruas = Berubah(p)
               /\ s.dari = c /\ MilikProsedur(s) /\ s.bagian = "PROSEDUR"
               /\ s.fase = "periksa" /\ s.lihat = Kosong
               /\ s.rev =< prosedur.rev /\ (s.rev = prosedur.rev => s.atas = prosedur.isi)
BY DEF PermintaanProsedur, Permintaan, FaseMinta, Penulis, Tampak, TampakSah, MilikProsedur,
       Berubah, NaskahMungkin, Isi

-----------------------------------------------------------------------------
(***************************************************************************)
(* Steps of a page that send nothing.                                      *)
(***************************************************************************)
\* Such a step keeps the invariant when it leaves the page in order.
LEMMA LamanIInv ==
    ASSUME IInv, NEW c \in Penyunting, NEW p \in Penulis, NEW w \in Tampak \cup {Kosong},
           NEW g \in Tampak \cup {Kosong},
           pn' = [pn EXCEPT ![c] = p], p.kirim = pn[c].kirim, LamanSah(p, w),
           pn[c].kirim => p.muat = pn[c].muat /\ p.dasar = pn[c].dasar,
           wb' = [wb EXCEPT ![c] = w], w # Kosong => TampakSah(w),
           segar' = [segar EXCEPT ![c] = g], g # Kosong => TampakSah(g),
           terbuka' \in BOOLEAN, UNCHANGED <<prosedur, diagram, minta>>
    PROVE  IInv'
<1>1. TypeOKE'
    BY DEF IInv, TypeOKE
<1>2. \A d \in Penyunting :
          /\ wb'[d] = (IF d = c THEN w ELSE wb[d])
          /\ segar'[d] = (IF d = c THEN g ELSE segar[d])
          /\ pn'[d] = (IF d = c THEN p ELSE pn[d])
    BY DEF IInv, TypeOKE
<1>3. TampakSelaras'
    BY <1>2 DEF IInv, TampakSelaras, TampakSah
<1>4. PermintaanSah'
    BY DEF IInv, PermintaanSah
<1>5. SemuaLaman'
    BY <1>2 DEF IInv, SemuaLaman
<1>6. \A d \in Penyunting : Menunggu(d)' = Menunggu(d)
    BY DEF Menunggu, MilikProsedur
<1>7. Tunggal' /\ SisaSama'
    BY <1>2, <1>6 DEF IInv, Tunggal, SisaSama
<1> QED
    BY <1>1, <1>3, <1>4, <1>5, <1>7 DEF IInv

\* The workbench of c, its read and its page as they are.
LEMMA LamanAwal ==
    ASSUME IInv, NEW c \in Penyunting
    PROVE  /\ wb[c] \in Tampak \cup {Kosong} /\ wb = [wb EXCEPT ![c] = wb[c]]
           /\ wb[c] # Kosong => TampakSah(wb[c])
           /\ segar[c] \in Tampak \cup {Kosong} /\ segar = [segar EXCEPT ![c] = segar[c]]
           /\ segar[c] # Kosong => TampakSah(segar[c])
           /\ pn[c] \in Penulis /\ pn = [pn EXCEPT ![c] = pn[c]]
           /\ LamanSah(pn[c], wb[c])
BY DEF IInv, TypeOKE, TampakSelaras, SemuaLaman

LEMMA BukaIInv == ASSUME IInv, NEW c \in Penyunting, Buka(c) PROVE IInv'
<1>1. LamanSah(pn[c], Lihat)
    BY LamanAwal DEF Buka, LamanSah, AktifDi
<1>2. Lihat \in Tampak /\ TampakSah(Lihat)
    BY LihatSah DEF IInv
<1> QED
    BY <1>1, <1>2, LamanAwal, LamanIInv DEF Buka, varsServer, IInv, TypeOKE

LEMMA MuatIInv == ASSUME IInv, NEW c \in Penyunting, Muat(c) PROVE IInv'
<1> DEFINE p == [pn[c] EXCEPT !.muat = prosedur.isi, !.gen = prosedur.gen,
                              !.draf = prosedur.isi, !.dasar = prosedur.isi]
<1>1. /\ p \in Penulis /\ p.kirim = pn[c].kirim /\ p.tick = pn[c].tick /\ ~Kotor(p)
      /\ p.draf \in Naskah /\ p.dasar \in Naskah
    <2>1. prosedur.isi \in Naskah /\ prosedur.gen \in Nat /\ pn[c] \in Penulis
        BY LamanAwal DEF IInv, TypeOKE
    <2> QED
        BY <2>1 DEF Penulis, NaskahMungkin, Kotor
<1>t. UNCHANGED <<terbuka, prosedur, diagram, minta, wb, segar>> /\ terbuka \in BOOLEAN
    BY DEF Muat, varsServer, IInv, TypeOKE
<1>2. pn' = [pn EXCEPT ![c] = p]
    BY DEF Muat, IInv, TypeOKE
<1> HIDE DEF p
<1>3. LamanSah(p, wb[c])
    BY <1>1, LamanAwal DEF LamanSah, Muat
<1>4. ~pn[c].kirim
    BY DEF Muat, IInv, Tunggal, SisaSama
<1> QED
    BY <1>1, <1>2, <1>3, <1>4, <1>t, LamanAwal, LamanIInv

\* An edit changes one section of the rows and nothing else of the page.
LEMMA SuntingSifat ==
    ASSUME NEW p \in Penulis, p.draf \in Naskah, NEW u \in Ruas, NEW isi \in Isi
    PROVE  LET q == Sunting(p, u, isi)
           IN  /\ q \in Penulis /\ q.draf = [p.draf EXCEPT ![u] = isi] /\ q.draf \in Naskah
               /\ q.muat = p.muat /\ q.dasar = p.dasar /\ q.kirim = p.kirim /\ q.tick = p.tick
               /\ q.serah = p.serah
<1>1. [p.draf EXCEPT ![u] = isi] \in Naskah /\ p.ke + 1 \in Nat
    BY DEF Naskah, Penulis
<1>2. Sunting(p, u, isi) = [p EXCEPT !.draf = [p.draf EXCEPT ![u] = isi], !.ke = p.ke + 1]
    BY DEF Sunting
<1> DEFINE d == [p.draf EXCEPT ![u] = isi]
           k == p.ke + 1
<1> HIDE DEF d, k
<1>3. d \in NaskahMungkin /\ k \in Nat
    BY <1>1 DEF d, k, NaskahMungkin
<1>4. LET q == [p EXCEPT !.draf = d, !.ke = k]
      IN  /\ q \in Penulis /\ q.draf = d /\ q.muat = p.muat /\ q.dasar = p.dasar
          /\ q.kirim = p.kirim /\ q.tick = p.tick /\ q.serah = p.serah
    BY <1>3 DEF Penulis
<1> QED
    BY <1>1, <1>2, <1>4 DEF d, k

\* What Ubah leaves of the page of c, for the section and the content typed.
LEMMA UbahPilih ==
    ASSUME IInv, NEW c \in Penyunting, Ubah(c)
    PROVE  \E u \in Ruas, isi \in Isi :
               /\ isi \in {<<c, pn[c].ke + 1>>, pn[c].dasar[u]}
               /\ pn' = [pn EXCEPT ![c] = Efek(Sunting(pn[c], u, isi), TRUE)]
<1>1. PICK u \in Ruas : \E isi \in {<<c, pn[c].ke + 1>>, pn[c].dasar[u]} :
          pn' = [pn EXCEPT ![c] = Efek(Sunting(pn[c], u, isi), TRUE)]
    BY DEF Ubah
<1>2. pn[c].dasar[u] \in Isi
    BY LamanAwal DEF Ubah, Aktif, AktifDi, LamanSah, Naskah
<1>3. <<c, pn[c].ke + 1>> \in Isi
    BY LamanAwal DEF Penulis, Isi
<1> QED
    BY <1>1, <1>2, <1>3

LEMMA UbahIInv == ASSUME IInv, NEW c \in Penyunting, Ubah(c) PROVE IInv'
<1> PICK u \in Ruas, isi \in Isi : pn' = [pn EXCEPT ![c] = Efek(Sunting(pn[c], u, isi), TRUE)]
    BY UbahPilih
<1> DEFINE o == Sunting(pn[c], u, isi)
           p == Efek(o, TRUE)
<1>1. pn[c] \in Penulis /\ pn[c].draf \in Naskah /\ pn[c].dasar \in Naskah
    BY LamanAwal DEF Ubah, Aktif, AktifDi, LamanSah
<1>2. /\ o \in Penulis /\ o.kirim = pn[c].kirim /\ o.tick = pn[c].tick /\ o.muat = pn[c].muat
      /\ o.draf \in Naskah /\ o.dasar = pn[c].dasar
    BY <1>1, SuntingSifat
<1>3. pn' = [pn EXCEPT ![c] = p]
    OBVIOUS
<1>t. UNCHANGED <<terbuka, prosedur, diagram, minta, wb, segar>> /\ terbuka \in BOOLEAN
    BY DEF Ubah, varsServer, IInv, TypeOKE
<1> HIDE DEF o
<1>4. /\ p \in Penulis /\ Tetap(p, o) /\ p.kirim = o.kirim
      /\ Kotor(o) => p.tick \/ p.kirim
      /\ (o.tick => ~o.kirim) => (p.tick => ~p.kirim)
    BY <1>2, EfekSifat
<1> HIDE DEF p
<1>5. LamanSah(p, wb[c])
    BY <1>1, <1>2, <1>4, LamanAwal DEF LamanSah, Tetap, Kotor
<1>6. p \in Penulis /\ p.kirim = pn[c].kirim /\ p.muat = pn[c].muat /\ p.dasar = pn[c].dasar
    BY <1>2, <1>4 DEF Tetap
<1> QED
    BY <1>3, <1>5, <1>6, <1>t, LamanAwal, LamanIInv

LEMMA SerahkanIInv == ASSUME IInv, NEW c \in Penyunting, Serahkan(c) PROVE IInv'
<1>1. PICK p \in Penulis, g \in {segar[c], Kosong} :
          /\ p = [pn[c] EXCEPT !.serah = "selesai", !.tick = FALSE]
             \/ p = [pn[c] EXCEPT !.serah = "tidak"]
          /\ pn' = [pn EXCEPT ![c] = p]
          /\ segar' = [segar EXCEPT ![c] = g]
    <2>1. [pn[c] EXCEPT !.serah = "selesai", !.tick = FALSE] \in Penulis
          /\ [pn[c] EXCEPT !.serah = "tidak"] \in Penulis
        BY LamanAwal DEF Penulis
    <2>2. \/ /\ pn' = [pn EXCEPT ![c] = [pn[c] EXCEPT !.serah = "selesai", !.tick = FALSE]]
             /\ segar' = [segar EXCEPT ![c] = Kosong]
          \/ /\ pn' = [pn EXCEPT ![c] = [pn[c] EXCEPT !.serah = "tidak"]]
             /\ segar' = segar
        BY DEF Serahkan, IInv, TypeOKE
    <2> QED
        BY <2>1, <2>2, LamanAwal
<1>2. /\ p.kirim = pn[c].kirim /\ LamanSah(p, wb[c])
      /\ p.muat = pn[c].muat /\ p.dasar = pn[c].dasar
    <2>1. pn[c] \in Penulis /\ LamanSah(pn[c], wb[c]) /\ pn[c].serah = "kirim"
        BY LamanAwal DEF Serahkan
    <2>2. CASE p = [pn[c] EXCEPT !.serah = "selesai", !.tick = FALSE]
        BY <2>1, <2>2 DEF Penulis, LamanSah, AktifDi, Kotor
    <2>3. CASE p = [pn[c] EXCEPT !.serah = "tidak"]
        BY <2>1, <2>3 DEF Penulis, LamanSah, AktifDi, Kotor
    <2> QED
        BY <1>1, <2>2, <2>3
<1>3. terbuka' \in BOOLEAN /\ UNCHANGED <<prosedur, diagram, minta, wb>>
    BY DEF Serahkan, IInv, TypeOKE
<1> QED
    BY <1>1, <1>2, <1>3, LamanAwal, LamanIInv

LEMMA BacaSegarIInv == ASSUME IInv, NEW c \in Penyunting, BacaSegar(c) PROVE IInv'
<1>1. Lihat \in Tampak /\ TampakSah(Lihat)
    BY LihatSah DEF IInv
<1> QED
    BY <1>1, LamanAwal, LamanIInv DEF BacaSegar, varsServer, IInv, TypeOKE

LEMMA SegarIInv == ASSUME IInv, NEW c \in Penyunting, Segar(c) PROVE IInv'
<1> DEFINE p == EfekBila(pn[c], wb[c], segar[c])
<1>1. segar[c] \in Tampak /\ TampakSah(segar[c])
    BY LamanAwal DEF Segar
<1>2. /\ p \in Penulis /\ p.kirim = pn[c].kirim /\ LamanSah(p, segar[c])
      /\ p.muat = pn[c].muat /\ p.dasar = pn[c].dasar
    BY <1>1, LamanAwal, EfekBilaSifat DEF Tetap
<1>3. pn' = [pn EXCEPT ![c] = p]
    BY DEF Segar, IInv, TypeOKE
<1> HIDE DEF p
<1> QED
    BY <1>1, <1>2, <1>3, LamanIInv DEF Segar, varsServer, IInv, TypeOKE
-----------------------------------------------------------------------------
(***************************************************************************)
(* Steps of a page that may send a write.                                  *)
(***************************************************************************)
\* A page that was not sending takes up what drain decides.
LEMMA KirimIInv ==
    ASSUME IInv, NEW c \in Penyunting, NEW p \in Penulis,
           ~pn[c].kirim, pn' = [pn EXCEPT ![c] = p],
           minta' = minta \cup Kirimkan(c, p, wb[c]),
           p.kirim => wb[c] # Kosong /\ p.muat # Kosong, LamanSah(p, wb[c]),
           UNCHANGED <<terbuka, prosedur, diagram, wb, segar>>
    PROVE  IInv'
<1> DEFINE s == PermintaanProsedur(c, p, wb[c])
<1>1. minta' = IF p.kirim THEN minta \cup {s} ELSE minta
    BY DEF Kirimkan
<1>2. p.kirim => /\ s \in Permintaan
                 /\ s.dari = c /\ MilikProsedur(s) /\ s.bagian = "PROSEDUR"
                 /\ s.fase = "periksa" /\ s.lihat = Kosong
                 /\ s.rev =< prosedur.rev /\ (s.rev = prosedur.rev => s.atas = prosedur.isi)
                 /\ s.isi \in Naskah /\ \A u \in Ruas \ s.ruas : s.isi[u] = p.dasar[u]
    <2>1. p.kirim => p.draf \in Naskah
        BY DEF LamanSah
    <2> QED
        BY <2>1, LamanAwal, PermintaanBaru DEF Berubah
<1> HIDE DEF s
<1>3. \A d \in Penyunting : pn'[d] = (IF d = c THEN p ELSE pn[d])
    BY DEF IInv, TypeOKE
<1>4. TypeOKE'
    BY <1>1, <1>2 DEF IInv, TypeOKE
<1>5. TampakSelaras'
    BY <1>1, <1>2 DEF IInv, TampakSelaras, TampakSah
<1>6. PermintaanSah'
    BY <1>1, <1>2 DEF IInv, PermintaanSah
<1>7. SemuaLaman'
    BY <1>3 DEF IInv, SemuaLaman
<1>8. Tunggal' /\ SisaSama'
    <2>1. Menunggu(c) = {}
        BY DEF IInv, Tunggal
    <2>2. Menunggu(c)' = (IF p.kirim THEN {s} ELSE {})
        BY <1>1, <1>2, <2>1 DEF Menunggu, MilikProsedur
    <2>3. \A d \in Penyunting \ {c} : Menunggu(d)' = Menunggu(d)
        BY <1>1, <1>2 DEF Menunggu, MilikProsedur
    <2>4. Tunggal'
        BY <1>3, <2>2, <2>3 DEF IInv, Tunggal
    <2>5. SisaSama'
        BY <1>2, <1>3, <2>2, <2>3 DEF IInv, SisaSama
    <2> QED
        BY <2>4, <2>5
<1> QED
    BY <1>4, <1>5, <1>6, <1>7, <1>8 DEF IInv

\* The run that starts from o, a page that is not sending.
LEMMA KurasIInv ==
    ASSUME IInv, NEW c \in Penyunting, NEW o \in Penulis,
           NEW akhir \in StatusSimpan,
           Tetap(o, pn[c]), ~o.tick, ~pn[c].kirim, AktifDi(o, wb[c]) => Aktif(c),
           pn' = [pn EXCEPT ![c] = Kuras(o, Aktif(c), akhir)],
           minta' = minta \cup Kirimkan(c, Kuras(o, Aktif(c), akhir), wb[c]),
           UNCHANGED <<terbuka, prosedur, diagram, wb, segar>>
    PROVE  IInv'
<1> DEFINE p == Kuras(o, Aktif(c), akhir)
<1>1. Aktif(c) \in BOOLEAN /\ (Aktif(c) => wb[c] # Kosong)
    BY LamanAwal DEF Aktif, AktifDi, Tampak
<1>2. /\ p \in Penulis /\ Tetap(p, o)
      /\ p.kirim <=> Aktif(c) /\ Kotor(o)
      /\ p.tick = o.tick
      /\ p.serah = o.serah \/ (p.serah = "kirim" /\ o.serah = "siram" /\ ~p.kirim)
    BY <1>1, KurasSifat
<1>3. pn' = [pn EXCEPT ![c] = p] /\ minta' = minta \cup Kirimkan(c, p, wb[c])
    OBVIOUS
<1> HIDE DEF p
<1>4. LamanSah(p, wb[c])
    BY <1>2, LamanAwal DEF LamanSah, AktifDi, Kotor, Tetap
<1>5. p.kirim => p.muat # Kosong
    BY <1>2 DEF Tetap, Aktif, AktifDi
<1> QED
    BY <1>1, <1>2, <1>3, <1>4, <1>5, KirimIInv

LEMMA TenggatIInv == ASSUME IInv, NEW c \in Penyunting, Tenggat(c) PROVE IInv'
<1> DEFINE o == [pn[c] EXCEPT !.tick = FALSE]
<1>1. o \in Penulis /\ Tetap(o, pn[c]) /\ ~o.tick /\ o.serah = pn[c].serah
    BY LamanAwal DEF Penulis, Tetap
<1>2. ~pn[c].kirim
    BY LamanAwal DEF Tenggat, LamanSah
<1>3. pn[c].status \in StatusSimpan
    BY LamanAwal DEF Penulis
<1>4. AktifDi(o, wb[c]) => Aktif(c)
    BY <1>1 DEF Aktif, AktifDi, Tetap
<1>5. /\ pn' = [pn EXCEPT ![c] = Kuras(o, Aktif(c), pn[c].status)]
      /\ minta' = minta \cup Kirimkan(c, Kuras(o, Aktif(c), pn[c].status), wb[c])
      /\ UNCHANGED <<terbuka, prosedur, diagram, wb, segar>>
    BY DEF Tenggat, varsServer
<1> HIDE DEF o
<1> QED
    BY <1>1, <1>2, <1>3, <1>4, <1>5, KurasIInv

LEMMA SiramIInv == ASSUME IInv, NEW c \in Penyunting, Siram(c) PROVE IInv'
<1> DEFINE o == [pn[c] EXCEPT !.tick = FALSE]
<1>1. o \in Penulis /\ Tetap(o, pn[c]) /\ ~o.tick
    BY LamanAwal DEF Penulis, Tetap
<1>2. ~pn[c].kirim /\ Aktif(c) /\ Aktif(c) = TRUE
    BY DEF Siram, Aktif, AktifDi
<1>3. pn[c].status \in StatusSimpan
    BY LamanAwal DEF Penulis
<1>4. /\ pn' = [pn EXCEPT ![c] = Kuras(o, TRUE, pn[c].status)]
      /\ minta' = minta \cup Kirimkan(c, Kuras(o, TRUE, pn[c].status), wb[c])
      /\ UNCHANGED <<terbuka, prosedur, diagram, wb, segar>>
    BY DEF Siram, varsServer
<1> HIDE DEF o
<1>5. Kuras(o, Aktif(c), pn[c].status) = Kuras(o, TRUE, pn[c].status)
    BY <1>2
<1> QED
    BY <1>1, <1>2, <1>3, <1>4, <1>5, KurasIInv

\* The flush joins the write under way, or starts one.
LEMMA SelesaikanIInv == ASSUME IInv, NEW c \in Penyunting, Selesaikan(c) PROVE IInv'
<1> DEFINE o == [pn[c] EXCEPT !.tick = FALSE, !.serah = "siram"]
<1>1. /\ o \in Penulis /\ Tetap(o, pn[c]) /\ ~o.tick
      /\ o.kirim = pn[c].kirim /\ o.status = pn[c].status
    BY LamanAwal DEF Penulis, Tetap
<1>2. wb[c] # Kosong /\ Aktif(c) /\ Aktif(c) = TRUE
    BY DEF Selesaikan, Aktif, AktifDi
<1>3. /\ pn' = [pn EXCEPT ![c] = Gabung(o)]
      /\ minta' = minta \cup (IF pn[c].kirim THEN {} ELSE Kirimkan(c, Gabung(o), wb[c]))
      /\ UNCHANGED <<terbuka, prosedur, diagram, wb, segar>>
    BY DEF Selesaikan, varsServer
<1> HIDE DEF o
<1>4. CASE pn[c].kirim
    <2>1. pn' = [pn EXCEPT ![c] = o] /\ UNCHANGED minta
        BY <1>1, <1>3, <1>4 DEF Gabung
    <2>2. LamanSah(o, wb[c])
        BY <1>1, <1>2, <1>4, LamanAwal DEF LamanSah, Tetap
    <2>3. terbuka' \in BOOLEAN
        BY <1>3 DEF IInv, TypeOKE
    <2>4. o.muat = pn[c].muat /\ o.dasar = pn[c].dasar
        BY <1>1 DEF Tetap
    <2> QED
        BY <1>1, <1>3, <2>1, <2>2, <2>3, <2>4, LamanAwal, LamanIInv
<1>5. CASE ~pn[c].kirim
    <2>1. Gabung(o) = Kuras(o, TRUE, o.status)
        BY <1>1, <1>5 DEF Gabung
    <2>2. o.status \in StatusSimpan
        BY <1>1 DEF Penulis
    <2>3. Gabung(o) = Kuras(o, Aktif(c), o.status)
        BY <1>2, <2>1
    <2> QED
        BY <1>1, <1>2, <1>3, <1>5, <2>2, <2>3, KurasIInv
<1> QED
    BY <1>4, <1>5

-----------------------------------------------------------------------------
(***************************************************************************)
(* Answers and failures.                                                   *)
(***************************************************************************)
\* Without the request r of c nobody waits for c.
LEMMA TanpaTunggu ==
    ASSUME IInv, NEW r \in minta, MilikProsedur(r)
    PROVE  /\ r \in Permintaan /\ r.dari \in Penyunting
           /\ pn[r.dari].kirim
           /\ \A s \in minta \ {r} : ~(s.dari = r.dari /\ MilikProsedur(s))
<1>1. r \in Permintaan /\ r.dari \in Penyunting
    BY DEF IInv, TypeOKE, Permintaan
<1> QED
    BY <1>1 DEF IInv, Tunggal, Menunggu

LEMMA TerimaIInv == ASSUME IInv, NEW r \in minta, Terima(r) PROVE IInv'
<1> DEFINE c == r.dari
           w == r.lihat
           o == Tersimpan(pn[c], r)
           q == Kuras(o, Aktif(c), "tenang")
           p == EfekBila(q, wb[c], w)
           s == PermintaanProsedur(c, q, w)
<1>1. /\ r \in Permintaan /\ c \in Penyunting /\ pn[c].kirim
      /\ \A x \in minta \ {r} : ~(x.dari = c /\ MilikProsedur(x))
    BY TanpaTunggu DEF Terima
<1>2. w \in Tampak /\ w # Kosong /\ TampakSah(w) /\ r.isi \in Naskah
    BY <1>1 DEF Terima, MilikProsedur, IInv, TypeOKE, TampakSelaras, PermintaanSah, Permintaan
<1>3. /\ o \in Penulis /\ o.muat = pn[c].muat /\ o.tick = pn[c].tick /\ o.serah = pn[c].serah
      /\ o.draf = pn[c].draf /\ o.dasar = r.isi
    BY <1>1, <1>2, LamanAwal DEF Tersimpan, Penulis, NaskahMungkin
<1>4. Aktif(c) \in BOOLEAN /\ (Aktif(c) <=> AktifDi(o, wb[c]))
    BY <1>1, <1>3, LamanAwal DEF Aktif, AktifDi, Tampak
<1>5. /\ pn' = [pn EXCEPT ![c] = p]
      /\ minta' = (minta \ {r}) \cup Kirimkan(c, q, w)
      /\ wb' = [wb EXCEPT ![c] = w]
      /\ UNCHANGED <<terbuka, prosedur, diagram, segar>>
    BY DEF Terima, varsServer, IInv, TypeOKE
<1> HIDE DEF c, w, o
<1>6. /\ q \in Penulis /\ Tetap(q, o)
      /\ q.kirim <=> Aktif(c) /\ Kotor(o)
      /\ q.tick = o.tick
      /\ q.serah = o.serah \/ (q.serah = "kirim" /\ o.serah = "siram" /\ ~q.kirim)
    <2>1. o \in Penulis /\ Aktif(c) \in BOOLEAN /\ "tenang" \in StatusSimpan
        BY <1>3, <1>4 DEF StatusSimpan
    <2> QED
        BY <2>1, KurasSifat
<1> HIDE DEF q
<1>7. LamanSah(q, wb[c])
    BY <1>1, <1>2, <1>3, <1>4, <1>6, LamanAwal DEF LamanSah, AktifDi, Kotor, Tetap
<1>8. p \in Penulis /\ p.kirim = q.kirim /\ LamanSah(p, w) /\ Tetap(p, q)
    BY <1>1, <1>2, <1>6, <1>7, LamanAwal, EfekBilaSifat
<1> HIDE DEF p
<1>9. minta' = (minta \ {r}) \cup (IF q.kirim THEN {s} ELSE {})
    BY <1>5 DEF Kirimkan
<1>10. /\ s \in Permintaan
       /\ s.dari = c /\ MilikProsedur(s) /\ s.bagian = "PROSEDUR"
       /\ s.fase = "periksa" /\ s.lihat = Kosong
       /\ s.rev =< prosedur.rev /\ (s.rev = prosedur.rev => s.atas = prosedur.isi)
       /\ s.isi \in Naskah /\ q.muat # Kosong
       /\ \A u \in Ruas \ s.ruas : s.isi[u] = q.dasar[u]
    <2>1. q.muat # Kosong /\ q.draf \in Naskah
        BY <1>1, <1>3, <1>6, <1>7 DEF IInv, SisaSama, Menunggu, Terima, Tetap, LamanSah, c
    <2> QED
        BY <1>1, <1>2, <1>6, <2>1, PermintaanBaru DEF Berubah
<1> HIDE DEF s
<1>11. \A d \in Penyunting : /\ pn'[d] = (IF d = c THEN p ELSE pn[d])
                             /\ wb'[d] = (IF d = c THEN w ELSE wb[d])
    BY <1>5 DEF IInv, TypeOKE
<1>12. TypeOKE'
    BY <1>1, <1>2, <1>5, <1>8, <1>9, <1>10 DEF IInv, TypeOKE
<1>13. TampakSelaras'
    BY <1>2, <1>5, <1>9, <1>10, <1>11 DEF IInv, TampakSelaras, TampakSah
<1>14. PermintaanSah'
    BY <1>5, <1>9, <1>10 DEF IInv, PermintaanSah
<1>15. SemuaLaman'
    BY <1>8, <1>11 DEF IInv, SemuaLaman
<1>16. Tunggal' /\ SisaSama'
    <2>1. Menunggu(c)' = (IF q.kirim THEN {s} ELSE {})
        BY <1>1, <1>9, <1>10 DEF Menunggu, MilikProsedur
    <2>2. \A d \in Penyunting \ {c} : Menunggu(d)' = Menunggu(d)
        BY <1>9, <1>10 DEF Menunggu, MilikProsedur, c
    <2>3. Tunggal'
        BY <1>8, <1>11, <2>1, <2>2 DEF IInv, Tunggal
    <2>4. SisaSama'
        BY <1>8, <1>10, <1>11, <2>1, <2>2 DEF IInv, SisaSama, Tetap
    <2> QED
        BY <2>3, <2>4
<1> QED
    BY <1>12, <1>13, <1>14, <1>15, <1>16 DEF IInv

\* A write of c fails; of its request at most one is left that nobody waits for.
LEMMA GagalIInv ==
    ASSUME IInv, NEW r \in minta, MilikProsedur(r), NEW sisa \in SUBSET {[r EXCEPT !.ditunggu = FALSE]},
           minta' = (minta \ {r}) \cup sisa,
           pn' = [pn EXCEPT ![r.dari] = Gagal(@)],
           UNCHANGED <<terbuka, prosedur, diagram, wb, segar>>
    PROVE  IInv'
<1> DEFINE c == r.dari
           s == [r EXCEPT !.ditunggu = FALSE]
           p == Gagal(pn[c])
<1>1. /\ r \in Permintaan /\ c \in Penyunting
      /\ \A x \in minta \ {r} : ~(x.dari = c /\ MilikProsedur(x))
    BY TanpaTunggu
<1>2. /\ s \in Permintaan /\ ~s.ditunggu /\ s.fase = r.fase /\ s.lihat = r.lihat
      /\ s.bagian = r.bagian /\ s.rev = r.rev /\ s.atas = r.atas /\ s.isi = r.isi
    BY <1>1 DEF Permintaan
<1>3. sisa \subseteq {s}
    OBVIOUS
<1> HIDE DEF c, s
<1>4. p \in Penulis /\ ~p.kirim /\ LamanSah(p, wb[c])
    <2>1. /\ p \in Penulis /\ Tetap(p, pn[c]) /\ ~p.kirim /\ p.status = "galat"
        BY <1>1, LamanAwal, GagalSifat
    <2> HIDE DEF p
    <2> QED
        BY <1>1, <2>1, LamanAwal DEF LamanSah, Tetap
<1>5. pn' = [pn EXCEPT ![c] = p]
    BY DEF c
<1> HIDE DEF p
<1>6. \A d \in Penyunting : pn'[d] = (IF d = c THEN p ELSE pn[d])
    BY <1>5 DEF IInv, TypeOKE
<1>7. TypeOKE'
    <2>1. minta' \subseteq Permintaan /\ \A x \in minta' : x.fase = "jawab" => x.lihat # Kosong
        BY <1>2, <1>3 DEF IInv, TypeOKE
    <2>2. pn' \in [Penyunting -> Penulis]
        BY <1>1, <1>4, <1>5 DEF IInv, TypeOKE
    <2> QED
        BY <2>1, <2>2 DEF IInv, TypeOKE
<1>8. TampakSelaras' /\ PermintaanSah'
    BY <1>2, <1>3 DEF IInv, TampakSelaras, TampakSah, PermintaanSah
<1>9. SemuaLaman'
    BY <1>4, <1>6 DEF IInv, SemuaLaman
<1>10. Tunggal' /\ SisaSama'
    <2>1. Menunggu(c)' = {}
        BY <1>1, <1>2, <1>3 DEF Menunggu, MilikProsedur
    <2>2. \A d \in Penyunting \ {c} : Menunggu(d)' = Menunggu(d)
        BY <1>2, <1>3 DEF Menunggu, MilikProsedur, c
    <2> QED
        BY <1>4, <1>6, <2>1, <2>2 DEF IInv, Tunggal, SisaSama
<1> QED
    BY <1>7, <1>8, <1>9, <1>10 DEF IInv

LEMMA TerimaTolakIInv == ASSUME IInv, NEW r \in minta, TerimaTolak(r) PROVE IInv'
<1>1. minta' = (minta \ {r}) \cup {}
    BY DEF TerimaTolak
<1> QED
    BY <1>1, GagalIInv DEF TerimaTolak, varsServer

LEMMA GangguanIInv == ASSUME IInv, NEW r \in minta, Gangguan(r) PROVE IInv'
BY GagalIInv DEF Gangguan, Terlantar, varsServer

-----------------------------------------------------------------------------
(***************************************************************************)
(* The server takes a request one step further.                            *)
(***************************************************************************)
\* What stays of a request on its way, whoever waits for it.
Serupa(s, r) ==
    /\ s.dari = r.dari /\ s.bagian = r.bagian /\ s.ditunggu = r.ditunggu
    /\ s.rev = r.rev /\ s.atas = r.atas /\ s.ruas = r.ruas /\ s.isi = r.isi

\* The request r becomes s, or is dropped when nobody waits; the procedure is as
\* before or has a revision of its own.
LEMMA ServerIInv ==
    ASSUME IInv, NEW r \in minta, NEW s \in Permintaan,
           Serupa(s, r), s.fase = "jawab" => s.lihat # Kosong,
           s.lihat # Kosong => TampakSah(s.lihat),
           \/ minta' = (minta \ {r}) \cup {s}
           \/ ~r.ditunggu /\ minta' = minta \ {r},
           UNCHANGED prosedur \/ prosedur'.rev = prosedur.rev + 1,
           prosedur' \in ProsedurMungkin,
           diagram' \in [rev : Nat, isi : [Jenis -> [isi : Isi, gen : Nat]]],
           UNCHANGED <<terbuka, wb, segar, pn>>
    PROVE  IInv'
<1>1. \A x \in minta' : x = s \/ (x \in minta /\ x # r)
    OBVIOUS
<1>2. r \in Permintaan /\ prosedur.rev \in Nat
    BY DEF IInv, TypeOKE
<1>3. TypeOKE'
    <2>1. minta' \subseteq Permintaan /\ \A x \in minta' : x.fase = "jawab" => x.lihat # Kosong
        BY <1>1 DEF IInv, TypeOKE
    <2> QED
        BY <2>1 DEF IInv, TypeOKE, ProsedurMungkin
<1>4. TampakSelaras' /\ PermintaanSah'
    <2>1. \A w \in Tampak : TampakSah(w) => TampakSah(w)'
        BY <1>2 DEF TampakSah, Tampak
    <2>2. \A x \in Permintaan : x.bagian = "PROSEDUR"
              /\ x.rev =< prosedur.rev /\ (x.rev = prosedur.rev => x.atas = prosedur.isi)
              => x.rev =< prosedur'.rev /\ (x.rev = prosedur'.rev => x.atas = prosedur'.isi)
        BY <1>2 DEF Permintaan
    <2>3. \A x \in minta : x \in Permintaan /\ x.lihat \in Tampak \cup {Kosong}
        BY DEF IInv, TypeOKE, Permintaan
    <2>4. s.lihat \in Tampak \cup {Kosong}
        BY DEF Permintaan
    <2>5. \A c \in Penyunting : wb[c] \in Tampak \cup {Kosong} /\ segar[c] \in Tampak \cup {Kosong}
        BY DEF IInv, TypeOKE
    <2>6. TampakSelaras'
        BY <1>1, <2>1, <2>3, <2>4, <2>5 DEF IInv, TampakSelaras
    <2>7. PermintaanSah'
        BY <1>1, <2>2, <2>3 DEF IInv, PermintaanSah, Serupa
    <2> QED
        BY <2>6, <2>7
<1>5. SemuaLaman'
    BY DEF IInv, SemuaLaman
<1>6. Tunggal' /\ SisaSama'
    <2> SUFFICES ASSUME NEW c \in Penyunting
                 PROVE  /\ pn[c].kirim <=> Menunggu(c)' # {}
                        /\ \A x, y \in Menunggu(c)' : x = y
                        /\ \A x \in Menunggu(c)' :
                               /\ pn[c].muat # Kosong
                               /\ \A u \in Ruas \ x.ruas : x.isi[u] = pn[c].dasar[u]
        BY DEF Tunggal, SisaSama
    <2>1. CASE r \in Menunggu(c)
        <3>1. Menunggu(c) = {r}
            BY <2>1 DEF IInv, Tunggal
        <3>2. Menunggu(c)' = {s}
            BY <3>1 DEF Menunggu, MilikProsedur, Serupa
        <3> QED
            BY <3>1, <3>2 DEF IInv, Tunggal, SisaSama, Serupa
    <2>2. CASE r \notin Menunggu(c)
        <3>1. Menunggu(c)' = Menunggu(c)
            BY <2>2 DEF Menunggu, MilikProsedur, Serupa
        <3> QED
            BY <3>1 DEF IInv, Tunggal, SisaSama
    <2> QED
        BY <2>1, <2>2
<1> QED
    BY <1>3, <1>4, <1>5, <1>6 DEF IInv

\* A request at another phase is still the same request.
LEMMA FaseBaru ==
    ASSUME NEW r \in Permintaan, NEW f \in FaseMinta
    PROVE  LET s == [r EXCEPT !.fase = f]
           IN  s \in Permintaan /\ Serupa(s, r) /\ s.fase = f /\ s.lihat = r.lihat
BY DEF Permintaan, Serupa

LEMMA PeriksaIInv == ASSUME IInv, NEW r \in minta, Periksa(r) PROVE IInv'
<1>1. PICK f \in FaseMinta :
          /\ f # "jawab"
          /\ \/ minta' = (minta \ {r}) \cup {[r EXCEPT !.fase = f]}
             \/ ~r.ditunggu /\ minta' = minta \ {r}
    BY DEF Periksa, Maju, Tolak, Jika, FaseMinta
<1> DEFINE s == [r EXCEPT !.fase = f]
<1>2. /\ s \in Permintaan /\ Serupa(s, r) /\ s.fase # "jawab"
      /\ s.lihat # Kosong => TampakSah(s.lihat)
    BY <1>1, FaseBaru DEF IInv, TypeOKE, TampakSelaras
<1>3. UNCHANGED <<terbuka, prosedur, diagram, wb, segar, pn>>
    BY DEF Periksa, varsServer
<1> HIDE DEF s
<1>4. /\ prosedur' \in ProsedurMungkin
      /\ diagram' \in [rev : Nat, isi : [Jenis -> [isi : Isi, gen : Nat]]]
    BY <1>3 DEF IInv, TypeOKE, ProsedurMungkin
<1>5. minta' = (minta \ {r}) \cup {s} \/ (~r.ditunggu /\ minta' = minta \ {r})
    BY <1>1 DEF s
<1> QED
    BY <1>2, <1>3, <1>4, <1>5, ServerIInv

\* What a save of r that passes the claim leaves of the procedure.
ProsedurBaru(r) ==
    [isi |-> [u \in Ruas |-> IF u \in r.ruas THEN r.isi[u] ELSE prosedur.isi[u]],
     rev |-> prosedur.rev + 1,
     gen |-> IF "langkah" \in r.ruas THEN prosedur.gen + 1 ELSE prosedur.gen,
     oleh |-> [u \in Ruas |-> IF u \in r.ruas THEN r.dari ELSE prosedur.oleh[u]]]

LEMMA TulisProsedurIInv == ASSUME IInv, NEW r \in minta, TulisProsedur(r) PROVE IInv'
<1>1. PICK f \in FaseMinta :
          /\ f # "jawab"
          /\ \/ minta' = (minta \ {r}) \cup {[r EXCEPT !.fase = f]}
             \/ ~r.ditunggu /\ minta' = minta \ {r}
    BY DEF TulisProsedur, Selesai, Tolak, Jika, FaseMinta
<1> DEFINE s == [r EXCEPT !.fase = f]
<1>2. /\ s \in Permintaan /\ Serupa(s, r) /\ s.fase # "jawab"
      /\ s.lihat # Kosong => TampakSah(s.lihat)
    BY <1>1, FaseBaru DEF IInv, TypeOKE, TampakSelaras
<1>3. UNCHANGED <<terbuka, wb, segar, pn>>
    BY DEF TulisProsedur
<1>4. /\ r.isi \in Naskah /\ r.dari \in Penyunting
      /\ prosedur \in ProsedurMungkin /\ diagram \in [rev : Nat, isi : [Jenis -> [isi : Isi, gen : Nat]]]
    BY DEF TulisProsedur, IInv, TypeOKE, PermintaanSah, Permintaan, ProsedurMungkin
<1>5. \/ UNCHANGED <<prosedur, diagram>>
      \/ /\ prosedur' = ProsedurBaru(r)
         /\ diagram' \in {diagram, [diagram EXCEPT !.isi = [j \in Jenis |-> TanpaOverride]]}
    BY DEF TulisProsedur, ProsedurBaru
<1>6. /\ prosedur' \in ProsedurMungkin
      /\ diagram' \in [rev : Nat, isi : [Jenis -> [isi : Isi, gen : Nat]]]
    <2>1. ProsedurBaru(r) \in ProsedurMungkin
        BY <1>4 DEF ProsedurBaru, ProsedurMungkin, Naskah
    <2>2. [diagram EXCEPT !.isi = [j \in Jenis |-> TanpaOverride]]
              \in [rev : Nat, isi : [Jenis -> [isi : Isi, gen : Nat]]]
        BY <1>4 DEF TanpaOverride, Isi
    <2> QED
        BY <1>4, <1>5, <2>1, <2>2
<1>7. UNCHANGED prosedur \/ prosedur'.rev = prosedur.rev + 1
    BY <1>5 DEF ProsedurBaru
<1> HIDE DEF s
<1>8. minta' = (minta \ {r}) \cup {s} \/ (~r.ditunggu /\ minta' = minta \ {r})
    BY <1>1 DEF s
<1> QED
    BY <1>2, <1>3, <1>6, <1>7, <1>8, ServerIInv

LEMMA BacaUlangIInv == ASSUME IInv, NEW r \in minta, BacaUlang(r) PROVE IInv'
<1> DEFINE s == [r EXCEPT !.fase = "jawab", !.lihat = Lihat]
<1>1. Lihat \in Tampak /\ TampakSah(Lihat) /\ Lihat # Kosong
    BY LihatSah, KosongAssumption DEF IInv
<1>2. r \in Permintaan
    BY DEF IInv, TypeOKE
<1>3. s \in Permintaan /\ Serupa(s, r) /\ s.lihat = Lihat
    BY <1>1, <1>2 DEF Permintaan, FaseMinta, Serupa
<1>4. /\ minta' = (minta \ {r}) \cup {s}
      /\ UNCHANGED <<terbuka, prosedur, diagram, wb, segar, pn>>
    BY DEF BacaUlang, Maju, varsServer
<1> HIDE DEF s
<1>5. /\ prosedur' \in ProsedurMungkin
      /\ diagram' \in [rev : Nat, isi : [Jenis -> [isi : Isi, gen : Nat]]]
    BY <1>4 DEF IInv, TypeOKE, ProsedurMungkin
<1> QED
    BY <1>1, <1>3, <1>4, <1>5, ServerIInv

-----------------------------------------------------------------------------
(***************************************************************************)
(* The theorems.                                                           *)
(***************************************************************************)
LEMMA TetapIInv ==
    ASSUME IInv, UNCHANGED <<terbuka, prosedur, diagram, minta, wb, segar, pn>>
    PROVE  IInv'
BY DEF IInv, TypeOKE, TampakSelaras, TampakSah, PermintaanSah, SemuaLaman, Tunggal, SisaSama,
       Menunggu, MilikProsedur

LEMMA NextIInv == ASSUME IInv, [NextE]_varsE PROVE IInv'
<1>1. ASSUME NEW c \in Penyunting, LangkahLaman(c) PROVE IInv'
    BY <1>1, BukaIInv, MuatIInv, UbahIInv, TenggatIInv, SiramIInv, SelesaikanIInv, SerahkanIInv,
       BacaSegarIInv, SegarIInv DEF LangkahLaman
<1>2. ASSUME NEW r \in minta, LangkahPermintaan(r) PROVE IInv'
    BY <1>2, PeriksaIInv, TulisProsedurIInv, BacaUlangIInv, TerimaIInv, TerimaTolakIInv,
       GangguanIInv DEF LangkahPermintaan
<1>3. CASE UNCHANGED varsE
    BY <1>3, TetapIInv DEF varsE
<1> QED
    BY <1>1, <1>2, <1>3 DEF NextE

\* IInv holds throughout.
THEOREM Induktif == SpecE => []IInv
<1>1. InitE => IInv
    BY InitIInv
<1>2. IInv /\ [NextE]_varsE => IInv'
    BY NextIInv
<1> QED
    BY <1>1, <1>2, PTL DEF SpecE

\* useSingleWriterAutosave forgets no edit (TiadaUbahanTerlantar).
THEOREM UbahanTerjaga == SpecE => []TiadaUbahanTerlantar
<1>1. IInv => TiadaUbahanTerlantar
    BY DEF IInv, SemuaLaman, LamanSah, TiadaUbahanTerlantar, Aktif
<1> QED
    BY <1>1, Induktif, PTL

\* drain is the single writer of its page (SatuTulisan).
THEOREM PenulisTunggal == SpecE => []SatuTulisan
<1>1. ASSUME IInv PROVE SatuTulisan
    <2> SUFFICES ASSUME NEW c \in Penyunting
                 PROVE  Cardinality(Menunggu(c)) = (IF pn[c].kirim THEN 1 ELSE 0)
        BY DEF SatuTulisan, Menunggu
    <2>1. CASE Menunggu(c) = {}
        BY <1>1, <2>1, FS_EmptySet DEF IInv, Tunggal
    <2>2. CASE Menunggu(c) # {}
        <3>1. PICK r : Menunggu(c) = {r}
            <4>1. \A r, s \in Menunggu(c) : r = s
                BY <1>1 DEF IInv, Tunggal
            <4> QED
                BY <2>2, <4>1
        <3> QED
            BY <1>1, <2>2, <3>1, FS_Singleton DEF IInv, Tunggal
    <2> QED
        BY <2>1, <2>2
<1>2. IInv => SatuTulisan
    BY <1>1
<1> QED
    BY <1>2, Induktif, PTL

\* updateProsedurTransaction replaces only what the browser had been sent.
THEOREM TimpaTerkirim == SpecE => TimpaYangTerkirim
<1>1. IInv => \A r \in minta : TulisProsedur(r) /\ prosedur' # prosedur => prosedur.isi = r.atas
    BY DEF IInv, PermintaanSah, TulisProsedur, Cocok
<1> QED
    BY <1>1, Induktif, PTL DEF TimpaYangTerkirim

-----------------------------------------------------------------------------
(***************************************************************************)
(* The hand-over.                                                          *)
(***************************************************************************)
\* The flush of c returns in this step, and only as it should.
Jujur(c) ==
    pn[c].serah # "kirim" /\ pn'[c].serah = "kirim" =>
        /\ ~pn'[c].kirim
        /\ ~Kotor(pn'[c]) \/ pn'[c].status = "galat" \/ ~Aktif(c)

\* drain returns from a run only with nothing more to send.
LEMMA KurasJujur ==
    ASSUME IInv, NEW c \in Penyunting, NEW o \in Penulis, NEW akhir \in StatusSimpan,
           NEW p, p = Kuras(o, Aktif(c), akhir)
    PROVE  /\ o.serah # "kirim" /\ p.serah = "kirim" =>
                  ~p.kirim /\ (~Kotor(p) \/ ~Aktif(c))
           /\ p.muat = o.muat
<1>1. Aktif(c) \in BOOLEAN
    BY LamanAwal DEF Aktif, AktifDi, Tampak
<1>2. /\ Tetap(p, o) /\ (p.kirim <=> Aktif(c) /\ Kotor(o))
      /\ p.serah = o.serah \/ (p.serah = "kirim" /\ o.serah = "siram" /\ ~p.kirim)
    BY <1>1, KurasSifat
<1> QED
    BY <1>2 DEF Tetap, Kotor

\* The steps of a page but Muat, which loads its rows.
LangkahBiasa(c) ==
    \/ Buka(c) \/ Ubah(c) \/ Tenggat(c) \/ Siram(c) \/ Selesaikan(c) \/ Serahkan(c)
    \/ BacaSegar(c) \/ Segar(c)

LEMMA BiasaJujur ==
    ASSUME IInv, NEW c \in Penyunting, LangkahBiasa(c)
    PROVE  Jujur(c) /\ pn'[c].muat = pn[c].muat
<1> DEFINE o == [pn[c] EXCEPT !.tick = FALSE]
<1>1. /\ o \in Penulis /\ o.serah = pn[c].serah /\ o.muat = pn[c].muat /\ pn[c] \in Penulis
      /\ pn[c].status \in StatusSimpan
    BY LamanAwal DEF Penulis
<1>2. CASE Buka(c) \/ BacaSegar(c)
    BY <1>2 DEF Buka, BacaSegar, Jujur
<1>3. CASE Ubah(c)
    <2>1. PICK u \in Ruas, isi \in Isi : pn' = [pn EXCEPT ![c] = Efek(Sunting(pn[c], u, isi), TRUE)]
        BY <1>3, UbahPilih
    <2> DEFINE q == Sunting(pn[c], u, isi)
    <2>2. pn[c].draf \in Naskah
        BY <1>3, LamanAwal DEF Ubah, Aktif, AktifDi, LamanSah
    <2>3. q \in Penulis /\ q.serah = pn[c].serah /\ q.muat = pn[c].muat
        BY <1>1, <2>2, SuntingSifat
    <2>4. pn'[c] = Efek(q, TRUE)
        BY <2>1 DEF IInv, TypeOKE
    <2> HIDE DEF q
    <2>5. pn'[c].serah = pn[c].serah /\ pn'[c].muat = pn[c].muat
        <3>1. Tetap(Efek(q, TRUE), q) /\ Efek(q, TRUE).serah = q.serah
            BY <2>3, EfekSifat
        <3> QED
            BY <2>3, <2>4, <3>1 DEF Tetap
    <2> QED
        BY <2>5 DEF Jujur
<1>4. CASE Tenggat(c) \/ Siram(c)
    <2>1. pn' = [pn EXCEPT ![c] = Kuras(o, Aktif(c), pn[c].status)]
        <3>1. CASE Tenggat(c)
            BY <3>1 DEF Tenggat
        <3>2. CASE Siram(c)
            <4>1. Aktif(c) = TRUE
                BY <3>2 DEF Siram, Aktif, AktifDi
            <4>2. pn' = [pn EXCEPT ![c] = Kuras(o, TRUE, pn[c].status)]
                BY <3>2 DEF Siram
            <4> QED
                BY <4>1, <4>2
        <3> QED
            BY <1>4, <3>1, <3>2
    <2>2. pn'[c] = Kuras(o, Aktif(c), pn[c].status)
        BY <2>1 DEF IInv, TypeOKE
    <2> HIDE DEF o
    <2>3. /\ o.serah # "kirim" /\ pn'[c].serah = "kirim" =>
                 ~pn'[c].kirim /\ (~Kotor(pn'[c]) \/ ~Aktif(c))
          /\ pn'[c].muat = o.muat
        BY <1>1, <2>2, KurasJujur
    <2> QED
        BY <1>1, <2>3 DEF Jujur
<1>5. CASE Selesaikan(c)
    <2> DEFINE u == [pn[c] EXCEPT !.tick = FALSE, !.serah = "siram"]
    <2>1. u \in Penulis /\ u.serah = "siram" /\ u.muat = pn[c].muat /\ u.status \in StatusSimpan
        BY <1>1 DEF Penulis
    <2>2. pn'[c] = Gabung(u) /\ Aktif(c) = TRUE
        BY <1>5 DEF Selesaikan, Aktif, AktifDi, IInv, TypeOKE
    <2> HIDE DEF u
    <2>3. pn'[c] = u \/ pn'[c] = Kuras(u, Aktif(c), u.status)
        BY <2>2 DEF Gabung
    <2> QED
        BY <2>1, <2>3, KurasJujur DEF Jujur
<1>6. CASE Serahkan(c)
    <2>1. \/ pn'[c] = [pn[c] EXCEPT !.serah = "selesai", !.tick = FALSE]
          \/ pn'[c] = [pn[c] EXCEPT !.serah = "tidak"]
        BY <1>6 DEF Serahkan, IInv, TypeOKE
    <2>2. pn'[c].serah # "kirim" /\ pn'[c].muat = pn[c].muat
        BY <1>1, <2>1 DEF Penulis
    <2> QED
        BY <2>2 DEF Jujur
<1>7. CASE Segar(c)
    <2>1. pn'[c] = EfekBila(pn[c], wb[c], segar[c]) /\ segar[c] \in Tampak
        BY <1>7, LamanAwal DEF Segar, IInv, TypeOKE
    <2>2. pn'[c].serah = pn[c].serah /\ pn'[c].muat = pn[c].muat
        BY <2>1, LamanAwal, EfekBilaSifat DEF Tetap
    <2> QED
        BY <2>2 DEF Jujur
<1> QED
    BY <1>2, <1>3, <1>4, <1>5, <1>6, <1>7 DEF LangkahBiasa

LEMMA MuatJujur == ASSUME IInv, NEW c \in Penyunting, Muat(c) PROVE Jujur(c)
<1>1. pn[c] \in Penulis
    BY LamanAwal
<1> QED
    BY <1>1 DEF Muat, Penulis, Jujur, IInv, TypeOKE

\* A step of one page leaves the others as they are.
LEMMA LamanLain ==
    ASSUME IInv, NEW c \in Penyunting, LangkahLaman(c), NEW d \in Penyunting \ {c}
    PROVE  pn'[d] = pn[d]
BY DEF LangkahLaman, Buka, Muat, Ubah, Tenggat, Siram, Selesaikan, Serahkan, BacaSegar, Segar,
       IInv, TypeOKE

LEMMA PermintaanJujur ==
    ASSUME IInv, NEW r \in minta, LangkahPermintaan(r), NEW c \in Penyunting
    PROVE  Jujur(c) /\ pn'[c].muat = pn[c].muat
<1>1. CASE Periksa(r) \/ TulisProsedur(r) \/ BacaUlang(r)
    BY <1>1 DEF Periksa, TulisProsedur, BacaUlang, Jujur
<1>2. CASE TerimaTolak(r) \/ Gangguan(r)
    <2>1. pn' = [pn EXCEPT ![r.dari] = Gagal(@)]
        BY <1>2 DEF TerimaTolak, Gangguan
    <2>2. CASE c = r.dari
        <3>1. pn'[c] = Gagal(pn[c])
            BY <2>1, <2>2 DEF IInv, TypeOKE
        <3> QED
            BY <3>1, LamanAwal, GagalSifat DEF Jujur, Tetap
    <2>3. CASE c # r.dari
        BY <2>1, <2>3 DEF Jujur, IInv, TypeOKE
    <2> QED
        BY <2>2, <2>3
<1>3. CASE Terima(r) /\ c # r.dari
    BY <1>3 DEF Terima, Jujur, IInv, TypeOKE
<1>4. CASE Terima(r) /\ c = r.dari
    <2> DEFINE o == Tersimpan(pn[c], r)
               q == Kuras(o, Aktif(c), "tenang")
    <2>1. r \in Permintaan /\ r.lihat \in Tampak /\ r.isi \in Naskah /\ pn[c].kirim
        BY <1>4, TanpaTunggu DEF Terima, MilikProsedur, IInv, TypeOKE, PermintaanSah, Permintaan
    <2>2. /\ o \in Penulis /\ o.muat = pn[c].muat /\ o.tick = pn[c].tick /\ o.serah = pn[c].serah
          /\ o.draf = pn[c].draf /\ o.dasar = r.isi
        BY <2>1, LamanAwal DEF Tersimpan, Penulis, NaskahMungkin
    <2>3. pn'[c] = EfekBila(q, wb[c], r.lihat)
        BY <1>4 DEF Terima, IInv, TypeOKE
    <2>4. Aktif(c) \in BOOLEAN /\ (Aktif(c) <=> AktifDi(o, wb[c]))
        BY <2>2, LamanAwal DEF Aktif, AktifDi, Tampak
    <2> HIDE DEF o
    <2>5. /\ q \in Penulis /\ Tetap(q, o) /\ q.tick = o.tick
          /\ q.kirim <=> Aktif(c) /\ Kotor(o)
          /\ q.serah = o.serah \/ (q.serah = "kirim" /\ o.serah = "siram" /\ ~q.kirim)
        <3>1. o \in Penulis /\ Aktif(c) \in BOOLEAN /\ "tenang" \in StatusSimpan
            BY <2>2, <2>4 DEF StatusSimpan
        <3> QED
            BY <3>1, KurasSifat
    <2> HIDE DEF q
    <2>6. LamanSah(q, wb[c])
        BY <2>1, <2>2, <2>4, <2>5, LamanAwal DEF LamanSah, AktifDi, Kotor, Tetap
    <2>7. /\ pn'[c].serah = q.serah /\ pn'[c].kirim = q.kirim /\ Tetap(pn'[c], q)
        BY <2>1, <2>3, <2>5, <2>6, LamanAwal, EfekBilaSifat
    <2> QED
        BY <2>2, <2>5, <2>7 DEF Jujur, Tetap, Kotor
<1> QED
    BY <1>1, <1>2, <1>3, <1>4 DEF LangkahPermintaan

\* handleComplete goes on after its flush with everything saved, or with the
\* failure on the screen.
THEOREM SerahTerimaJujur == SpecE => SerahJujur
<1>1. ASSUME IInv, [NextE]_varsE, NEW c \in Penyunting PROVE Jujur(c)
    <2>1. ASSUME NEW d \in Penyunting, LangkahLaman(d) PROVE Jujur(c)
        BY <1>1, <2>1, BiasaJujur, MuatJujur, LamanLain DEF Jujur, LangkahLaman, LangkahBiasa
    <2>2. ASSUME NEW r \in minta, LangkahPermintaan(r) PROVE Jujur(c)
        BY <1>1, <2>2, PermintaanJujur
    <2>3. CASE UNCHANGED varsE
        BY <2>3 DEF varsE, Jujur
    <2> QED
        BY <1>1, <2>1, <2>2, <2>3 DEF NextE
<1>2. IInv /\ [NextE]_varsE => \A c \in Penyunting : Jujur(c)
    BY <1>1
<1>3. IInv /\ [NextE]_varsE =>
          [\A c \in Penyunting : pn[c].serah # "kirim" /\ pn'[c].serah = "kirim" =>
               /\ ~pn'[c].kirim
               /\ ~Kotor(pn'[c]) \/ pn'[c].status = "galat" \/ ~Aktif(c)]_varsE
    BY <1>2 DEF Jujur
<1> QED
    BY <1>3, Induktif, PTL DEF SpecE, SerahJujur

-----------------------------------------------------------------------------
(***************************************************************************)
(* Absent failures every write is waited for to the end, so what an editor *)
(* calls saved is what the server last stored for it.                      *)
(***************************************************************************)
\* The write was committed; its answer is on the way.
Tertulis(r) == r.fase \in {"baca", "jawab"}

\* When c was the last to write section u: its answer under way is about the
\* section as it is, or its baseline is.
Tercatat(c, u) ==
    /\ \A r \in Menunggu(c) : Tertulis(r) => r.isi[u] = prosedur.isi[u]
    /\ (\A r \in Menunggu(c) : ~Tertulis(r)) /\ pn[c].muat # Kosong =>
           pn[c].dasar[u] = prosedur.isi[u]

SemuaDitunggu == \A r \in minta : r.bagian = "PROSEDUR" => r.ditunggu

SemuaTercatat == \A c \in Penyunting, u \in Ruas : prosedur.oleh[u] = c => Tercatat(c, u)

SInv == rusak = 0 => SemuaDitunggu /\ SemuaTercatat

\* A step of a page moves a baseline only to the procedure as it is.
LEMMA DasarLaman ==
    ASSUME IInv, NEW c \in Penyunting, LangkahLaman(c), NEW d \in Penyunting
    PROVE  \/ pn'[d].muat = pn[d].muat /\ pn'[d].dasar = pn[d].dasar
           \/ pn'[d].dasar = prosedur.isi
<1>1. CASE d # c
    BY <1>1, LamanLain
<1>2. CASE d = c
    <2> DEFINE o == [pn[c] EXCEPT !.tick = FALSE]
    <2>1. o \in Penulis /\ Tetap(o, pn[c]) /\ pn[c] \in Penulis /\ pn[c].status \in StatusSimpan
        BY LamanAwal DEF Penulis, Tetap
    <2>2. Aktif(c) \in BOOLEAN /\ (Aktif(c) => Aktif(c) = TRUE)
        BY LamanAwal DEF Aktif, AktifDi, Tampak
    <2>3. CASE Buka(c) \/ BacaSegar(c)
        BY <1>2, <2>3 DEF Buka, BacaSegar
    <2>4. CASE Muat(c)
        <3>1. pn'[c] = [pn[c] EXCEPT !.muat = prosedur.isi, !.gen = prosedur.gen,
                                     !.draf = prosedur.isi, !.dasar = prosedur.isi]
            BY <2>4 DEF Muat, IInv, TypeOKE
        <3>2. pn'[c].dasar = prosedur.isi
            BY <3>1, <2>1 DEF Penulis
        <3> QED
            BY <3>2, <1>2
    <2>5. CASE Ubah(c)
        <3>1. PICK u \in Ruas, isi \in Isi :
                  pn' = [pn EXCEPT ![c] = Efek(Sunting(pn[c], u, isi), TRUE)]
            BY <2>5, UbahPilih
        <3> DEFINE q == Sunting(pn[c], u, isi)
        <3>2. pn[c].draf \in Naskah
            BY <2>5, LamanAwal DEF Ubah, Aktif, AktifDi, LamanSah
        <3>3. q \in Penulis /\ q.muat = pn[c].muat /\ q.dasar = pn[c].dasar
            BY <2>1, <3>2, SuntingSifat
        <3>4. pn'[c] = Efek(q, TRUE)
            BY <3>1 DEF IInv, TypeOKE
        <3> HIDE DEF q
        <3>5. Tetap(Efek(q, TRUE), q)
            BY <3>3, EfekSifat
        <3> QED
            BY <3>3, <3>4, <3>5, <1>2 DEF Tetap
    <2>6. CASE Tenggat(c) \/ Siram(c)
        <3>1. pn'[c] = Kuras(o, Aktif(c), pn[c].status) \/ pn'[c] = Kuras(o, TRUE, pn[c].status)
            BY <2>6 DEF Tenggat, Siram, IInv, TypeOKE
        <3> HIDE DEF o
        <3>2. /\ Tetap(Kuras(o, Aktif(c), pn[c].status), o)
              /\ Tetap(Kuras(o, TRUE, pn[c].status), o)
            BY <2>1, <2>2, KurasSifat
        <3> QED
            BY <2>1, <3>1, <3>2, <1>2 DEF Tetap
    <2>7. CASE Selesaikan(c)
        <3> DEFINE u == [pn[c] EXCEPT !.tick = FALSE, !.serah = "siram"]
        <3>1. u \in Penulis /\ Tetap(u, pn[c]) /\ u.status \in StatusSimpan
            BY <2>1 DEF Penulis, Tetap
        <3>2. pn'[c] = Gabung(u)
            BY <2>7 DEF Selesaikan, IInv, TypeOKE
        <3> HIDE DEF u
        <3>3. Tetap(Kuras(u, TRUE, u.status), u)
            BY <3>1, KurasSifat
        <3> QED
            BY <3>1, <3>2, <3>3, <1>2 DEF Gabung, Tetap
    <2>8. CASE Serahkan(c)
        <3>1. \/ pn'[c] = [pn[c] EXCEPT !.serah = "selesai", !.tick = FALSE]
              \/ pn'[c] = [pn[c] EXCEPT !.serah = "tidak"]
            BY <2>8 DEF Serahkan, IInv, TypeOKE
        <3>2. pn'[c].muat = pn[c].muat /\ pn'[c].dasar = pn[c].dasar
            BY <2>1, <3>1 DEF Penulis
        <3> QED
            BY <3>2, <1>2
    <2>9. CASE Segar(c)
        <3>1. pn'[c] = EfekBila(pn[c], wb[c], segar[c]) /\ segar[c] \in Tampak
            BY <2>9, LamanAwal DEF Segar, IInv, TypeOKE
        <3>2. Tetap(pn'[c], pn[c])
            BY <3>1, LamanAwal, EfekBilaSifat
        <3> QED
            BY <3>2, <1>2 DEF Tetap
    <2> QED
        BY <2>3, <2>4, <2>5, <2>6, <2>7, <2>8, <2>9 DEF LangkahLaman
<1> QED
    BY <1>1, <1>2

\* A step of a page sends at most new requests, and writes nothing.
LEMMA KirimLaman ==
    ASSUME IInv, NEW c \in Penyunting, LangkahLaman(c)
    PROVE  /\ prosedur' = prosedur /\ minta \subseteq minta'
           /\ \A r \in minta' \ minta : /\ r.ditunggu /\ r.fase = "periksa"
                                        /\ r.bagian = "PROSEDUR" /\ r.lihat = Kosong
<1>1. \A p, w : \A r \in Kirimkan(c, p, w) : /\ r.ditunggu /\ r.fase = "periksa"
                                            /\ r.bagian = "PROSEDUR" /\ r.lihat = Kosong
    BY DEF Kirimkan, PermintaanProsedur
<1>2. CASE Tenggat(c) \/ Siram(c) \/ Selesaikan(c)
    <2>1. PICK p, w : minta' \in {minta, minta \cup Kirimkan(c, p, w)}
        BY <1>2 DEF Tenggat, Siram, Selesaikan
    <2>2. prosedur' = prosedur
        BY <1>2 DEF Tenggat, Siram, Selesaikan, varsServer
    <2>3. \A r \in Kirimkan(c, p, w) : /\ r.ditunggu /\ r.fase = "periksa"
                                     /\ r.bagian = "PROSEDUR" /\ r.lihat = Kosong
        BY <1>1
    <2> QED
        BY <2>1, <2>2, <2>3
<1>3. CASE Buka(c) \/ Muat(c) \/ Ubah(c) \/ Serahkan(c) \/ BacaSegar(c) \/ Segar(c)
    BY <1>3 DEF Buka, Muat, Ubah, Serahkan, BacaSegar, Segar, varsServer
<1> QED
    BY <1>2, <1>3 DEF LangkahLaman

LEMMA LamanTercatat ==
    ASSUME IInv, SemuaDitunggu, SemuaTercatat, NEW c \in Penyunting, LangkahLaman(c)
    PROVE  SemuaDitunggu' /\ SemuaTercatat'
<1>1. SemuaDitunggu'
    BY KirimLaman DEF SemuaDitunggu
<1>2. ASSUME NEW d \in Penyunting, NEW u \in Ruas, prosedur'.oleh[u] = d PROVE Tercatat(d, u)'
    <2>1. Tercatat(d, u) /\ prosedur' = prosedur
        BY <1>2, KirimLaman DEF SemuaTercatat
    <2>2. ASSUME NEW r \in Menunggu(d)', Tertulis(r) PROVE r \in Menunggu(d)
        <3>1. r \in minta
            BY <2>2, KirimLaman DEF Menunggu, Tertulis
        <3> QED
            BY <3>1 DEF Menunggu, MilikProsedur
    <2>3. Menunggu(d) \subseteq Menunggu(d)'
        BY KirimLaman DEF Menunggu, MilikProsedur
    <2>4. \A r \in Menunggu(d)' : Tertulis(r) => r.isi[u] = prosedur.isi[u]
        BY <2>1, <2>2 DEF Tercatat
    <2>5. (\A r \in Menunggu(d)' : ~Tertulis(r)) /\ pn'[d].muat # Kosong =>
              pn'[d].dasar[u] = prosedur.isi[u]
        BY <2>1, <2>3, DasarLaman DEF Tercatat
    <2> QED
        BY <2>1, <2>4, <2>5 DEF Tercatat, Tertulis
<1> QED
    BY <1>1, <1>2 DEF SemuaTercatat

\* A request goes on, with what it is about: s has the place of r.
Lanjutan(r, s) ==
    /\ minta' = (minta \ {r}) \cup {s}
    /\ s.dari = r.dari /\ s.bagian = r.bagian /\ s.ditunggu = r.ditunggu /\ s.isi = r.isi

LEMMA LanjutanTercatat ==
    ASSUME IInv, SemuaDitunggu, SemuaTercatat, NEW r \in minta, NEW s, Lanjutan(r, s),
           Tertulis(s) <=> Tertulis(r), UNCHANGED <<prosedur, pn>>
    PROVE  SemuaDitunggu' /\ SemuaTercatat'
<1>1. SemuaDitunggu'
    BY DEF SemuaDitunggu, Lanjutan
<1>2. ASSUME NEW d \in Penyunting, NEW u \in Ruas, prosedur'.oleh[u] = d PROVE Tercatat(d, u)'
    <2>1. Tercatat(d, u)
        BY <1>2 DEF SemuaTercatat
    <2>2. ASSUME NEW x \in Menunggu(d)', Tertulis(x) PROVE x.isi[u] = prosedur.isi[u]
        <3>1. CASE x = s
            <4>1. r \in Menunggu(d) /\ Tertulis(r)
                BY <2>2, <3>1 DEF Menunggu, MilikProsedur, Lanjutan
            <4> QED
                BY <4>1, <3>1, <2>1 DEF Tercatat, Lanjutan
        <3>2. CASE x # s
            <4>1. x \in Menunggu(d)
                BY <3>2 DEF Menunggu, MilikProsedur, Lanjutan
            <4> QED
                BY <4>1, <2>1, <2>2 DEF Tercatat
        <3> QED
            BY <3>1, <3>2
    <2>3. ASSUME NEW x \in Menunggu(d), \A y \in Menunggu(d)' : ~Tertulis(y) PROVE ~Tertulis(x)
        <3>1. CASE x = r
            <4>1. s \in Menunggu(d)'
                BY <3>1 DEF Menunggu, MilikProsedur, Lanjutan
            <4> QED
                BY <4>1, <2>3, <3>1
        <3>2. CASE x # r
            <4>1. x \in Menunggu(d)'
                BY <3>2 DEF Menunggu, MilikProsedur, Lanjutan
            <4> QED
                BY <4>1, <2>3
        <3> QED
            BY <3>1, <3>2
    <2>4. prosedur' = prosedur /\ pn' = pn
        OBVIOUS
    <2> QED
        BY <2>1, <2>2, <2>3, <2>4 DEF Tercatat, Tertulis
<1> QED
    BY <1>1, <1>2 DEF SemuaTercatat

LEMMA TulisTercatat ==
    ASSUME IInv, SemuaDitunggu, SemuaTercatat, NEW r \in minta, TulisProsedur(r)
    PROVE  SemuaDitunggu' /\ SemuaTercatat'
<1>a. r \in Permintaan /\ r.ditunggu /\ r.fase = "tulis" /\ r.bagian = "PROSEDUR" /\ pn' = pn
    BY DEF IInv, TypeOKE, SemuaDitunggu, TulisProsedur
<1>1. CASE Cocok(r, prosedur.rev)
    <2> DEFINE s == [r EXCEPT !.fase = "baca"]
               c == r.dari
    <2>1. minta' = (minta \ {r}) \cup {s} /\ prosedur' = ProsedurBaru(r)
        BY <1>a, <1>1 DEF TulisProsedur, Selesai, Jika, ProsedurBaru
    <2>2. s.dari = c /\ s.bagian = "PROSEDUR" /\ s.ditunggu /\ s.isi = r.isi /\ s.fase = "baca"
        BY <1>a DEF Permintaan
    <2>3. /\ \A x \in minta \ {r} : ~(x.dari = c /\ MilikProsedur(x))
          /\ c \in Penyunting /\ r \in Menunggu(c)
        BY <1>a, TanpaTunggu DEF MilikProsedur, Menunggu
    <2> HIDE DEF s, c
    <2>4. SemuaDitunggu'
        BY <2>1, <2>2 DEF SemuaDitunggu
    <2>5. Menunggu(c)' = {s}
        BY <2>1, <2>2, <2>3 DEF Menunggu, MilikProsedur
    <2>6. Tertulis(s)
        BY <2>2 DEF Tertulis
    <2>7. ASSUME NEW u \in Ruas
          PROVE  /\ prosedur'.isi[u] = IF u \in r.ruas THEN r.isi[u] ELSE prosedur.isi[u]
                 /\ prosedur'.oleh[u] = IF u \in r.ruas THEN c ELSE prosedur.oleh[u]
        BY <2>1, <2>7 DEF ProsedurBaru, c
    <2>8. ASSUME NEW u \in Ruas, prosedur'.oleh[u] = c PROVE Tercatat(c, u)'
        <3>1. r.isi[u] = prosedur'.isi[u]
            <4>1. CASE u \in r.ruas
                BY <2>7, <4>1
            <4>2. CASE u \notin r.ruas
                <5>1. Tercatat(c, u) /\ prosedur'.isi[u] = prosedur.isi[u]
                    BY <2>3, <2>7, <2>8, <4>2 DEF SemuaTercatat
                <5>2. \A x \in Menunggu(c) : ~Tertulis(x)
                    BY <1>a, <2>3 DEF Menunggu, Tertulis
                <5>3. pn[c].muat # Kosong /\ r.isi[u] = pn[c].dasar[u]
                    BY <2>3, <4>2 DEF IInv, SisaSama
                <5> QED
                    BY <5>1, <5>2, <5>3 DEF Tercatat
            <4> QED
                BY <4>1, <4>2
        <3> QED
            BY <2>2, <2>5, <2>6, <3>1 DEF Tercatat, Tertulis
    <2>9. ASSUME NEW d \in Penyunting \ {c}, NEW u \in Ruas, prosedur'.oleh[u] = d
          PROVE  Tercatat(d, u)'
        <3>1. u \notin r.ruas /\ prosedur.oleh[u] = d /\ prosedur'.isi[u] = prosedur.isi[u]
            BY <2>7, <2>9
        <3>2. Menunggu(d)' = Menunggu(d)
            BY <2>1, <2>2, <2>3 DEF Menunggu, MilikProsedur
        <3> QED
            BY <1>a, <3>1, <3>2 DEF SemuaTercatat, Tercatat, Tertulis
    <2> QED
        BY <2>4, <2>8, <2>9 DEF SemuaTercatat
<1>2. CASE ~Cocok(r, prosedur.rev)
    <2> DEFINE s == [r EXCEPT !.fase = "tolak"]
    <2>1. minta' = (minta \ {r}) \cup {s} /\ prosedur' = prosedur
        BY <1>a, <1>2 DEF TulisProsedur, Tolak, Jika
    <2>2. Lanjutan(r, s) /\ s.fase = "tolak"
        BY <1>a, <2>1 DEF Permintaan, Lanjutan
    <2> HIDE DEF s
    <2> QED
        BY <1>a, <2>1, <2>2, LanjutanTercatat DEF Tertulis
<1> QED
    BY <1>1, <1>2

\* The check before the write, and the read after it.
LEMMA ServerTercatat ==
    ASSUME IInv, SemuaDitunggu, SemuaTercatat, NEW r \in minta, Periksa(r) \/ BacaUlang(r)
    PROVE  SemuaDitunggu' /\ SemuaTercatat'
<1>a. r \in Permintaan /\ UNCHANGED <<prosedur, pn>>
    BY DEF IInv, TypeOKE, Periksa, BacaUlang, varsServer
<1>1. ASSUME NEW f \in FaseMinta, NEW s, s = [r EXCEPT !.fase = f], minta' = (minta \ {r}) \cup {s},
             f \in {"baca", "jawab"} <=> r.fase \in {"baca", "jawab"}
      PROVE  SemuaDitunggu' /\ SemuaTercatat'
    <2>1. Lanjutan(r, s) /\ s.fase = f
        BY <1>1, <1>a DEF Lanjutan, Permintaan
    <2> QED
        BY <1>1, <1>a, <2>1, LanjutanTercatat DEF Tertulis
<1>2. CASE BacaUlang(r)
    <2> DEFINE s == [r EXCEPT !.fase = "jawab", !.lihat = Lihat]
    <2>1. minta' = (minta \ {r}) \cup {s} /\ r.fase = "baca"
        BY <1>2 DEF BacaUlang, Maju
    <2>2. Lanjutan(r, s) /\ s.fase = "jawab"
        BY <1>a, <2>1 DEF Lanjutan, Permintaan
    <2> HIDE DEF s
    <2> QED
        BY <1>a, <2>1, <2>2, LanjutanTercatat DEF Tertulis
<1>3. CASE Periksa(r) /\ Maju(r, [r EXCEPT !.fase = "tulis"])
    BY <1>1, <1>3 DEF Periksa, Maju, FaseMinta
<1>4. CASE Periksa(r) /\ Tolak(r)
    <2> DEFINE s == [r EXCEPT !.fase = "tolak"]
    <2>1. r.fase = "periksa" /\ minta' = (minta \ {r}) \cup (IF r.ditunggu THEN {s} ELSE {})
        BY <1>4 DEF Periksa, Tolak, Jika
    <2>2. CASE r.ditunggu
        BY <1>1, <2>1, <2>2 DEF FaseMinta
    <2>3. CASE ~r.ditunggu
        <3>1. minta' = minta \ {r} /\ r.bagian # "PROSEDUR"
            BY <2>1, <2>3 DEF SemuaDitunggu
        <3>2. \A d \in Penyunting : Menunggu(d)' = Menunggu(d)
            BY <3>1 DEF Menunggu, MilikProsedur
        <3>3. prosedur' = prosedur /\ pn' = pn
            BY <1>a
        <3> QED
            BY <3>1, <3>2, <3>3 DEF SemuaDitunggu, SemuaTercatat, Tercatat, Tertulis
    <2> QED
        BY <2>2, <2>3
<1> QED
    BY <1>2, <1>3, <1>4 DEF Periksa

\* An answer moves the baseline to what was sent.
LEMMA TerimaLaman ==
    ASSUME IInv, NEW r \in minta, Terima(r), NEW c, c = r.dari
    PROVE  /\ pn'[c].muat = pn[c].muat /\ pn'[c].draf = pn[c].draf /\ pn'[c].dasar = r.isi
           /\ \A x \in minta' : x \in minta \/ (x.bagian = "PROSEDUR" /\ x.lihat = Kosong)
<1> DEFINE o == Tersimpan(pn[c], r)
           q == Kuras(o, Aktif(c), "tenang")
<1>1. /\ r \in Permintaan /\ c \in Penyunting /\ pn[c].kirim
      /\ r.lihat \in Tampak /\ r.isi \in Naskah
    BY TanpaTunggu DEF Terima, MilikProsedur, IInv, TypeOKE, PermintaanSah, Permintaan
<1>2. /\ o \in Penulis /\ o.muat = pn[c].muat /\ o.tick = pn[c].tick
      /\ o.serah = pn[c].serah /\ o.dasar = r.isi /\ o.draf = pn[c].draf
    BY <1>1, LamanAwal DEF Tersimpan, Penulis, NaskahMungkin
<1>3. pn'[c] = EfekBila(q, wb[c], r.lihat) /\ minta' = (minta \ {r}) \cup Kirimkan(c, q, r.lihat)
    BY <1>1 DEF Terima, IInv, TypeOKE
<1>4. /\ Aktif(c) \in BOOLEAN /\ (Aktif(c) <=> AktifDi(o, wb[c]))
      /\ Aktif(c) => pn[c].muat # Kosong
    BY <1>1, <1>2, LamanAwal DEF Aktif, AktifDi, Tampak
<1> HIDE DEF o
<1>5. /\ q \in Penulis /\ Tetap(q, o) /\ q.tick = o.tick
      /\ q.kirim <=> Aktif(c) /\ Kotor(o)
      /\ q.serah = o.serah \/ (q.serah = "kirim" /\ o.serah = "siram" /\ ~q.kirim)
    <2>1. "tenang" \in StatusSimpan
        BY DEF StatusSimpan
    <2> QED
        BY <1>2, <1>4, <2>1, KurasSifat
<1> HIDE DEF q
<1>6. LamanSah(q, wb[c])
    BY <1>1, <1>2, <1>4, <1>5, LamanAwal DEF LamanSah, AktifDi, Kotor, Tetap
<1>7. Tetap(pn'[c], q)
    BY <1>1, <1>3, <1>5, <1>6, LamanAwal, EfekBilaSifat
<1>8. \A x \in Kirimkan(c, q, r.lihat) : x.bagian = "PROSEDUR" /\ x.lihat = Kosong
    BY DEF Kirimkan, PermintaanProsedur
<1> QED
    BY <1>2, <1>3, <1>4, <1>5, <1>7, <1>8 DEF Tetap

\* An answer moves the baseline to what was sent, which is the procedure if
\* nobody wrote since; a refusal leaves both.
LEMMA JawabTercatat ==
    ASSUME IInv, SemuaDitunggu, SemuaTercatat, NEW r \in minta, Terima(r) \/ TerimaTolak(r)
    PROVE  SemuaDitunggu' /\ SemuaTercatat'
<1> DEFINE c == r.dari
<1>a. /\ r \in Permintaan /\ c \in Penyunting /\ MilikProsedur(r) /\ prosedur' = prosedur
      /\ \A x \in minta \ {r} : ~(x.dari = c /\ MilikProsedur(x))
    BY TanpaTunggu DEF Terima, TerimaTolak, varsServer
<1>b. /\ \A x \in minta' : x \in minta \ {r} \/ (x.dari = c /\ x.ditunggu /\ x.fase = "periksa")
      /\ minta \ {r} \subseteq minta'
    BY DEF Terima, TerimaTolak, Kirimkan, PermintaanProsedur
<1>c. \A d \in Penyunting \ {c} : pn'[d] = pn[d]
    BY DEF Terima, TerimaTolak, IInv, TypeOKE
<1> HIDE DEF c
<1>1. SemuaDitunggu'
    BY <1>b DEF SemuaDitunggu
<1>2. ASSUME NEW d \in Penyunting \ {c}, NEW u \in Ruas, prosedur'.oleh[u] = d
      PROVE  Tercatat(d, u)'
    <2>1. Menunggu(d)' = Menunggu(d)
        BY <1>a, <1>b DEF Menunggu, MilikProsedur, c
    <2> QED
        BY <1>2, <1>a, <1>c, <2>1 DEF SemuaTercatat, Tercatat, Tertulis
<1>3. ASSUME NEW u \in Ruas, prosedur'.oleh[u] = c PROVE Tercatat(c, u)'
    <2>1. Tercatat(c, u) /\ r \in Menunggu(c) /\ \A x \in Menunggu(c) : x = r
        BY <1>3, <1>a DEF SemuaTercatat, Menunggu, c
    <2>2. \A x \in Menunggu(c)' : ~Tertulis(x)
        BY <1>a, <1>b DEF Menunggu, Tertulis
    <2>3. pn'[c].muat # Kosong => pn'[c].dasar[u] = prosedur.isi[u]
        <3>1. CASE TerimaTolak(r)
            <4>1. pn'[c] = Gagal(pn[c])
                BY <3>1, <1>a DEF TerimaTolak, c, IInv, TypeOKE
            <4>2. pn'[c].muat = pn[c].muat /\ pn'[c].dasar = pn[c].dasar
                BY <4>1, <1>a, LamanAwal, GagalSifat DEF Tetap
            <4>3. ~Tertulis(r)
                BY <3>1 DEF TerimaTolak, Tertulis
            <4> QED
                BY <2>1, <4>2, <4>3 DEF Tercatat
        <3>2. CASE Terima(r)
            <4>1. pn'[c].muat = pn[c].muat /\ pn'[c].dasar = r.isi
                BY <3>2, TerimaLaman DEF c
            <4>2. Tertulis(r)
                BY <3>2 DEF Terima, Tertulis
            <4> QED
                BY <2>1, <4>1, <4>2 DEF Tercatat
        <3> QED
            BY <3>1, <3>2
    <2> QED
        BY <2>2, <2>3, <1>a DEF Tercatat, Tertulis
<1> QED
    BY <1>1, <1>2, <1>3 DEF SemuaTercatat

\* Failures are counted and never forgotten.
LEMMA RusakTambah == NextE => rusak' = rusak \/ rusak' = rusak + 1
<1>1. ASSUME NEW c \in Penyunting, LangkahLaman(c) PROVE rusak' = rusak \/ rusak' = rusak + 1
    BY <1>1 DEF LangkahLaman, Buka, Muat, Ubah, Tenggat, Siram, Selesaikan, Serahkan, BacaSegar,
                Segar, Rusak
<1>2. ASSUME NEW r \in minta, LangkahPermintaan(r) PROVE rusak' = rusak \/ rusak' = rusak + 1
    BY <1>2 DEF LangkahPermintaan, Periksa, TulisProsedur, BacaUlang, Terima, TerimaTolak, Gangguan,
                Rusak
<1> QED
    BY <1>1, <1>2 DEF NextE

LEMMA RusakMundur ==
    ASSUME NextE, rusak \in Nat, rusak' = 0
    PROVE  rusak = 0 /\ \A r \in minta : ~Gangguan(r)
BY RusakTambah DEF Gangguan, Rusak

LEMMA NextSInv == ASSUME IInv, rusak \in Nat, SInv, [NextE]_varsE PROVE SInv' /\ rusak' \in Nat
<1>1. CASE UNCHANGED varsE
    BY <1>1 DEF varsE, SInv, SemuaDitunggu, SemuaTercatat, Tercatat, Tertulis, Menunggu, MilikProsedur
<1>2. CASE NextE
    <2>1. rusak' \in Nat
        BY <1>2, RusakTambah
    <2>2. ASSUME rusak' = 0 PROVE SemuaDitunggu' /\ SemuaTercatat'
        <3>1. SemuaDitunggu /\ SemuaTercatat /\ \A r \in minta : ~Gangguan(r)
            BY <1>2, <2>2, RusakMundur DEF SInv
        <3>2. ASSUME NEW c \in Penyunting, LangkahLaman(c) PROVE SemuaDitunggu' /\ SemuaTercatat'
            BY <3>1, <3>2, LamanTercatat
        <3>3. ASSUME NEW r \in minta, LangkahPermintaan(r) PROVE SemuaDitunggu' /\ SemuaTercatat'
            BY <3>1, <3>3, TulisTercatat, ServerTercatat, JawabTercatat DEF LangkahPermintaan
        <3> QED
            BY <1>2, <3>2, <3>3 DEF NextE
    <2> QED
        BY <2>1, <2>2 DEF SInv
<1> QED
    BY <1>1, <1>2

\* Absent failures, a page that says all is saved shows what the server holds of each
\* section, unless another user has written that section since (TersimpanDiServer).
THEOREM TersimpanSungguh == SpecE => []TersimpanDiServer
<1>1. InitE => SInv /\ rusak \in Nat
    BY KosongAssumption DEF InitE, SInv, SemuaDitunggu, SemuaTercatat
<1>2. IInv /\ (SInv /\ rusak \in Nat) /\ [NextE]_varsE => (SInv /\ rusak \in Nat)'
    BY NextSInv
<1>3. IInv /\ SInv => TersimpanDiServer
    <2> SUFFICES ASSUME IInv, SemuaTercatat, NEW c \in Penyunting, NEW u \in Ruas,
                        pn[c].muat # Kosong, ~pn[c].kirim, ~Kotor(pn[c]), prosedur.oleh[u] = c
                 PROVE  prosedur.isi[u] = pn[c].draf[u]
        BY DEF TersimpanDiServer, SInv
    <2>1. Menunggu(c) = {}
        BY DEF IInv, Tunggal
    <2>2. pn[c].dasar[u] = prosedur.isi[u]
        BY <2>1 DEF SemuaTercatat, Tercatat
    <2> QED
        BY <2>2 DEF Kotor
<1> QED
    BY <1>1, <1>2, <1>3, Induktif, PTL DEF SpecE

-----------------------------------------------------------------------------
(***************************************************************************)
(* The composition with the diagrams.                                      *)
(***************************************************************************)

Gambar == [tab : Jenis \cup {Kosong}, konfig : [Jenis -> Isi], dasar : Isi, ke : Nat,
           tick : BOOLEAN, status : StatusSimpan]

TypeOKD == dg \in [Penyunting -> Gambar]

\* A page with rows, or with a diagram timer, has a tab.
GambarSah(d, p) ==
    /\ p.muat # Kosong => Terhidrasi(d)
    /\ d.tick => Terhidrasi(d)

SemuaGambar == \A c \in Penyunting : GambarSah(dg[c], pn[c])

IInvD == IInv /\ TypeOKD /\ SemuaGambar /\ OverrideSesuaiLangkah

-----------------------------------------------------------------------------
LEMMA InitIInvD == InitD => IInvD
<1> SUFFICES ASSUME InitD PROVE IInvD
    OBVIOUS
<1>1. IInv
    BY InitIInv DEF InitD
<1>2. TypeOKD
    BY DEF InitD, TypeOKD, Gambar, DiagramBaru, Isi, StatusSimpan
<1>3. SemuaGambar
    BY DEF InitD, InitE, SemuaGambar, GambarSah, DiagramBaru, PenulisBaru
<1>4. OverrideSesuaiLangkah
    BY DEF InitD, InitE, OverrideSesuaiLangkah, TanpaOverride
<1> QED
    BY <1>1, <1>2, <1>3, <1>4 DEF IInvD

\* The effect on the slice of a page with a tab.
LEMMA EfekDiagramSifat ==
    ASSUME NEW d \in Gambar, NEW aktif \in BOOLEAN
    PROVE  LET e == EfekDiagram(d, aktif)
           IN  /\ e \in Gambar /\ e.tab = d.tab
               /\ e.tick => aktif
<1>1. CASE ~aktif
    BY <1>1 DEF EfekDiagram, Gambar, StatusSimpan
<1>2. CASE aktif /\ Slice(d) = d.dasar
    BY <1>2 DEF EfekDiagram, Gambar, StatusSimpan
<1>3. CASE aktif /\ Slice(d) # d.dasar
    BY <1>3 DEF EfekDiagram, Gambar, StatusSimpan
<1> QED
    BY <1>1, <1>2, <1>3

-----------------------------------------------------------------------------
(***************************************************************************)
(* Steps of the procedure's editor, with what the diagram makes of them.   *)
(***************************************************************************)
\* A step that keeps IInv and the rows of the server keeps the overrides.
LEMMA TetapOverride ==
    ASSUME IInvD, IInv', TypeOKD', SemuaGambar', UNCHANGED <<prosedur, diagram>>
    PROVE  IInvD'
BY DEF IInvD, OverrideSesuaiLangkah

\* A step of a page or of an answer that leaves the diagram alone, and loads no rows.
LEMMA DiamIInvD ==
    ASSUME IInvD, IInv', UNCHANGED <<prosedur, diagram, dg>>,
           \A c \in Penyunting : pn'[c].muat = pn[c].muat
    PROVE  IInvD'
<1>1. TypeOKD' /\ SemuaGambar'
    BY DEF IInvD, TypeOKD, SemuaGambar, GambarSah
<1> QED
    BY <1>1, TetapOverride

\* Likewise when the effect of the diagram runs.
LEMMA IkutIInvD ==
    ASSUME IInvD, IInv', NEW c \in Penyunting, IkutEfek(c), UNCHANGED <<prosedur, diagram>>,
           \A x \in Penyunting : pn'[x].muat = pn[x].muat
    PROVE  IInvD'
<1> DEFINE aktif == AktifDi(pn'[c], wb'[c])
           d == IF aktif = Aktif(c) THEN dg[c] ELSE EfekDiagram(dg[c], aktif)
<1>1. aktif \in BOOLEAN /\ (aktif => pn[c].muat # Kosong)
    BY DEF AktifDi, IInv, TypeOKE, Tampak
<1>2. dg[c] \in Gambar /\ GambarSah(dg[c], pn[c])
    BY DEF IInvD, TypeOKD, SemuaGambar
<1>3. dg' = [dg EXCEPT ![c] = d]
    BY DEF IkutEfek, IInvD, TypeOKD
<1> HIDE DEF aktif
<1>4. d \in Gambar /\ GambarSah(d, pn[c])
    <2>1. CASE aktif = Aktif(c)
        BY <1>2, <2>1
    <2>2. CASE aktif # Aktif(c)
        <3> DEFINE e == EfekDiagram(dg[c], aktif)
        <3>1. e \in Gambar /\ e.tab = dg[c].tab /\ (e.tick => aktif)
            BY <1>1, <1>2, EfekDiagramSifat
        <3>2. d = e
            BY <2>2
        <3> HIDE DEF e, d
        <3> QED
            BY <1>1, <1>2, <3>1, <3>2 DEF GambarSah, Terhidrasi
    <2> QED
        BY <2>1, <2>2
<1> HIDE DEF d
<1>5. TypeOKD' /\ SemuaGambar'
    BY <1>3, <1>4 DEF IInvD, TypeOKD, SemuaGambar, GambarSah
<1> QED
    BY <1>5, TetapOverride

\* Only Muat changes the rows a page was loaded with.
LEMMA MuatTetap ==
    ASSUME IInv, NEW c \in Penyunting, LangkahBiasa(c)
    PROVE  \A x \in Penyunting : pn'[x].muat = pn[x].muat
BY BiasaJujur, LamanLain DEF LangkahBiasa, LangkahLaman

LEMMA BiasaIInvD ==
    ASSUME IInvD, NEW c \in Penyunting,
           \/ /\ Buka(c) \/ Ubah(c) \/ Tenggat(c) \/ Siram(c) \/ Selesaikan(c) \/ BacaSegar(c)
              /\ UNCHANGED dg
           \/ (Segar(c) \/ Serahkan(c)) /\ IkutEfek(c)
    PROVE  IInvD'
<1>1. IInv /\ IInv'
    BY NextIInv DEF IInvD, NextE, LangkahLaman
<1>2. LangkahBiasa(c)
    BY DEF LangkahBiasa
<1>3. \A x \in Penyunting : pn'[x].muat = pn[x].muat
    BY <1>1, <1>2, MuatTetap
<1>4. UNCHANGED <<prosedur, diagram>>
    BY DEF Buka, Ubah, Tenggat, Siram, Selesaikan, BacaSegar, Segar, Serahkan, varsServer
<1> QED
    BY <1>1, <1>3, <1>4, DiamIInvD, IkutIInvD

\* The slices of a page come from the server, with its rows.
LEMMA HidrasiIInvD == ASSUME IInvD, NEW c \in Penyunting, Hidrasi(c) PROVE IInvD'
<1>1. PICK j \in Jenis :
          dg' = [dg EXCEPT ![c].tab = j, ![c].konfig = [k \in Jenis |-> diagram.isi[k].isi],
                           ![c].dasar = diagram.isi[j].isi]
    BY DEF Hidrasi
<1> DEFINE d == [dg[c] EXCEPT !.tab = j, !.konfig = [k \in Jenis |-> diagram.isi[k].isi],
                              !.dasar = diagram.isi[j].isi]
<1>2. IInv' /\ UNCHANGED <<prosedur, diagram>>
    BY MuatIInv DEF IInvD, Hidrasi, Muat, varsServer
<1>3. d \in Gambar /\ d.tab = j
    <2>1. /\ dg[c] \in Gambar /\ diagram.isi[j].isi \in Isi
          /\ [k \in Jenis |-> diagram.isi[k].isi] \in [Jenis -> Isi]
        BY DEF IInvD, TypeOKD, IInv, TypeOKE
    <2> QED
        BY <2>1 DEF Gambar
<1>4. dg' = [dg EXCEPT ![c] = d]
    BY <1>1 DEF IInvD, TypeOKD
<1> HIDE DEF d
<1>5. TypeOKD'
    BY <1>3, <1>4 DEF IInvD, TypeOKD
<1>6. SemuaGambar'
    <2>1. Terhidrasi(d)
        BY <1>3, JenisAssumption DEF Terhidrasi
    <2>2. \A x \in Penyunting \ {c} : pn'[x] = pn[x]
        BY DEF Hidrasi, Muat, IInvD, IInv, TypeOKE
    <2> QED
        BY <2>1, <2>2, <1>4 DEF IInvD, TypeOKD, SemuaGambar, GambarSah
<1> QED
    BY <1>2, <1>5, <1>6, TetapOverride

-----------------------------------------------------------------------------
(***************************************************************************)
(* Steps of the diagram's editor.                                          *)
(***************************************************************************)
\* A step that changes only the diagram of one page.
LEMMA GambarIInvD ==
    ASSUME IInvD, NEW c \in Penyunting, NEW d \in Gambar, Terhidrasi(d),
           dg' = [dg EXCEPT ![c] = d], IInv',
           UNCHANGED <<prosedur, diagram>>, \A x \in Penyunting : pn'[x].muat = pn[x].muat
    PROVE  IInvD'
<1>1. TypeOKD' /\ SemuaGambar'
    BY DEF IInvD, TypeOKD, SemuaGambar, GambarSah
<1> QED
    BY <1>1, TetapOverride

LEMMA UbahDiagramIInvD == ASSUME IInvD, NEW c \in Penyunting, UbahDiagram(c) PROVE IInvD'
<1> DEFINE o == Gambari(c, dg[c])
           d == EfekDiagram(o, TRUE)
<1>1. dg[c] \in Gambar /\ dg[c].tab \in Jenis
    BY DEF IInvD, TypeOKD, UbahDiagram, Terhidrasi, Gambar
<1>2. o \in Gambar /\ o.tab = dg[c].tab
    <2> DEFINE x == dg[c]
               isi == <<c, x.ke + 1>>
    <2>1. x \in Gambar /\ x.tab \in Jenis /\ x.ke + 1 \in Nat /\ isi \in Isi
        BY <1>1 DEF Gambar, Isi
    <2>2. o = [x EXCEPT !.konfig = [x.konfig EXCEPT ![x.tab] = isi], !.ke = x.ke + 1]
        BY DEF Gambari
    <2> HIDE DEF x, isi
    <2>3. [x.konfig EXCEPT ![x.tab] = isi] \in [Jenis -> Isi]
        BY <2>1 DEF Gambar
    <2>4. o \in Gambar /\ o.tab = x.tab
        BY <2>1, <2>2, <2>3 DEF Gambar
    <2> QED
        BY <2>4 DEF x
<1>3. dg' = [dg EXCEPT ![c] = d]
    BY DEF UbahDiagram
<1> HIDE DEF o
<1>4. d \in Gambar /\ d.tab = o.tab
    BY <1>2, EfekDiagramSifat
<1> HIDE DEF d
<1>5. Terhidrasi(d)
    BY <1>1, <1>2, <1>4, JenisAssumption DEF Terhidrasi
<1>6. UNCHANGED varsE /\ IInv'
    BY TetapIInv DEF IInvD, UbahDiagram, varsE
<1> QED
    BY <1>3, <1>4, <1>5, <1>6, GambarIInvD DEF varsE

LEMMA PindahTabIInvD == ASSUME IInvD, NEW c \in Penyunting, PindahTab(c) PROVE IInvD'
<1> PICK j \in Jenis :
        dg' = [dg EXCEPT ![c].tab = j, ![c].dasar = dg[c].konfig[j], ![c].tick = FALSE,
                         ![c].status = "tenang"]
    BY DEF PindahTab
<1> DEFINE d == [dg[c] EXCEPT !.tab = j, !.dasar = dg[c].konfig[j], !.tick = FALSE,
                              !.status = "tenang"]
<1>1. d \in Gambar /\ d.tab = j
    <2>1. dg[c] \in Gambar /\ dg[c].konfig[j] \in Isi
        BY DEF IInvD, TypeOKD, Gambar
    <2> QED
        BY <2>1 DEF Gambar, StatusSimpan
<1>2. dg' = [dg EXCEPT ![c] = d]
    BY DEF IInvD, TypeOKD
<1> HIDE DEF d
<1>3. Terhidrasi(d)
    BY <1>1, JenisAssumption DEF Terhidrasi
<1>4. UNCHANGED varsE /\ IInv'
    BY TetapIInv DEF IInvD, PindahTab, varsE
<1> QED
    BY <1>1, <1>2, <1>3, <1>4, GambarIInvD DEF varsE
\* What requests of the diagram and their answers do to the procedure's side.
LEMMA MintaIInv ==
    ASSUME IInv, NEW c \in Penyunting, NEW p \in Penulis, NEW w \in Tampak \cup {Kosong},
           pn' = [pn EXCEPT ![c] = p], p.kirim = pn[c].kirim, LamanSah(p, w),
           pn[c].kirim => p.muat = pn[c].muat /\ p.dasar = pn[c].dasar,
           wb' = [wb EXCEPT ![c] = w], w # Kosong => TampakSah(w),
           \A x \in minta' :
               \/ x \in minta
               \/ /\ x \in Permintaan /\ x.bagian = "DIAGRAM"
                  /\ x.fase = "jawab" => x.lihat # Kosong
                  /\ x.lihat # Kosong => TampakSah(x.lihat),
           \A x \in minta : MilikProsedur(x) => x \in minta',
           diagram' \in [rev : Nat, isi : [Jenis -> [isi : Isi, gen : Nat]]],
           UNCHANGED <<terbuka, prosedur, segar>>
    PROVE  IInv'
<1>1. TypeOKE'
    BY DEF IInv, TypeOKE
<1>2. \A d \in Penyunting : /\ wb'[d] = (IF d = c THEN w ELSE wb[d])
                            /\ pn'[d] = (IF d = c THEN p ELSE pn[d])
    BY DEF IInv, TypeOKE
<1>3. TampakSelaras'
    BY <1>2 DEF IInv, TampakSelaras, TampakSah
<1>4. PermintaanSah'
    BY DEF IInv, PermintaanSah
<1>5. SemuaLaman'
    BY <1>2 DEF IInv, SemuaLaman
<1>6. Tunggal' /\ SisaSama'
    <2>1. \A d \in Penyunting : Menunggu(d)' = Menunggu(d)
        BY DEF Menunggu, MilikProsedur
    <2> QED
        BY <1>2, <2>1 DEF IInv, Tunggal, SisaSama
<1> QED
    BY <1>1, <1>3, <1>4, <1>5, <1>6 DEF IInv

\* The same when no page and no workbench changes.
LEMMA MintaSajaIInv ==
    ASSUME IInv, NEW c \in Penyunting,
           \A x \in minta' :
               \/ x \in minta
               \/ /\ x \in Permintaan /\ x.bagian = "DIAGRAM"
                  /\ x.fase = "jawab" => x.lihat # Kosong
                  /\ x.lihat # Kosong => TampakSah(x.lihat),
           \A x \in minta : MilikProsedur(x) => x \in minta',
           diagram' \in [rev : Nat, isi : [Jenis -> [isi : Isi, gen : Nat]]],
           UNCHANGED <<terbuka, prosedur, segar, pn, wb>>
    PROVE  IInv'
<1>1. pn' = [pn EXCEPT ![c] = pn[c]] /\ wb' = [wb EXCEPT ![c] = wb[c]]
    BY LamanAwal
<1> QED
    BY <1>1, LamanAwal, MintaIInv

LEMMA TenggatDiagramIInvD == ASSUME IInvD, NEW c \in Penyunting, TenggatDiagram(c) PROVE IInvD'
<1> DEFINE s == PermintaanDiagram(c)
<1>1. dg[c] \in Gambar /\ Terhidrasi(dg[c])
    BY DEF IInvD, TypeOKD, SemuaGambar, GambarSah, TenggatDiagram
<1>2. PICK d : /\ dg' = [dg EXCEPT ![c] = d]
               /\ \/ d = [dg[c] EXCEPT !.tick = FALSE, !.status = "simpan"]
                  \/ d = [dg[c] EXCEPT !.tick = FALSE]
    BY DEF TenggatDiagram, IInvD, TypeOKD
<1>3. d \in Gambar /\ Terhidrasi(d)
    BY <1>1, <1>2 DEF Gambar, StatusSimpan, Terhidrasi
<1>4. UNCHANGED <<terbuka, prosedur, diagram, wb, segar, pn>>
    BY DEF TenggatDiagram, varsServer
<1>5. IInv'
    <2>1. minta' = minta \/ (minta' = minta \cup {s} /\ Aktif(c))
        BY DEF TenggatDiagram
    <2>2. Aktif(c) => wb[c] \in Tampak
        BY LamanAwal DEF IInvD, Aktif, AktifDi
    <2>3. Slice(dg[c]) \in Isi /\ dg[c].tab \in Jenis
        BY <1>1 DEF Gambar, Slice, Terhidrasi
    <2>4. pn[c] \in Penulis
        BY LamanAwal DEF IInvD
    <2>5. Aktif(c) => /\ s \in Permintaan /\ s.bagian = "DIAGRAM" /\ s.fase = "periksa"
                      /\ s.lihat = Kosong
        BY <2>2, <2>3, <2>4
           DEF PermintaanDiagram, Permintaan, FaseMinta, Tampak, Penulis, NaskahMungkin
    <2> HIDE DEF s
    <2>6. diagram' \in [rev : Nat, isi : [Jenis -> [isi : Isi, gen : Nat]]]
        BY <1>4 DEF IInvD, IInv, TypeOKE
    <2>7. \A x \in minta' :
              \/ x \in minta
              \/ /\ x \in Permintaan /\ x.bagian = "DIAGRAM"
                 /\ x.fase = "jawab" => x.lihat # Kosong
                 /\ x.lihat # Kosong => TampakSah(x.lihat)
        BY <2>1, <2>5
    <2>8. \A x \in minta : MilikProsedur(x) => x \in minta'
        BY <2>1
    <2> QED
        BY <1>4, <2>6, <2>7, <2>8, MintaSajaIInv DEF IInvD
<1> QED
    BY <1>2, <1>3, <1>4, <1>5, GambarIInvD

\* upsertConfig drops what names langkah that are gone.
LEMMA TulisDiagramIInvD == ASSUME IInvD, NEW r \in minta, TulisDiagram(r) PROVE IInvD'
<1>1. /\ r \in Permintaan /\ r.dari \in Penyunting /\ r.bagian = "DIAGRAM"
      /\ Saring(r) \in Isi /\ r.gen \in Nat
    BY DEF TulisDiagram, IInvD, IInv, TypeOKE, Permintaan, Saring, Isi
<1>2. UNCHANGED <<terbuka, prosedur, wb, segar, pn, dg>>
    BY DEF TulisDiagram
<1>3. \/ UNCHANGED diagram
      \/ diagram' = [rev |-> diagram.rev + 1,
                     isi |-> [diagram.isi EXCEPT ![r.jenis] = [isi |-> Saring(r), gen |-> r.gen]]]
    BY DEF TulisDiagram
<1>4. diagram' \in [rev : Nat, isi : [Jenis -> [isi : Isi, gen : Nat]]]
    BY <1>1, <1>3 DEF IInvD, IInv, TypeOKE
<1>f. PICK f \in FaseMinta :
           /\ f # "jawab"
           /\ minta' = (minta \ {r}) \cup {[r EXCEPT !.fase = f]} \/ minta' = minta \ {r}
    BY DEF TulisDiagram, Selesai, Tolak, Jika, FaseMinta
<1> DEFINE s == [r EXCEPT !.fase = f]
<1>5. /\ s \in Permintaan /\ s.bagian = "DIAGRAM" /\ s.fase # "jawab" /\ s.lihat = r.lihat
      /\ minta' = (minta \ {r}) \cup {s} \/ minta' = minta \ {r}
    BY <1>1, <1>f, FaseBaru DEF Serupa
<1> HIDE DEF s
<1>6. IInv'
    <2>1. \A x \in minta' :
              \/ x \in minta
              \/ /\ x \in Permintaan /\ x.bagian = "DIAGRAM"
                 /\ x.fase = "jawab" => x.lihat # Kosong
                 /\ x.lihat # Kosong => TampakSah(x.lihat)
        BY <1>5 DEF IInvD, IInv, TampakSelaras
    <2>2. \A x \in minta : MilikProsedur(x) => x \in minta'
        BY <1>1, <1>5 DEF MilikProsedur
    <2> QED
        BY <1>1, <1>2, <1>4, <2>1, <2>2, MintaSajaIInv DEF IInvD
<1>7. OverrideSesuaiLangkah'
    <2> SUFFICES ASSUME NEW j \in Jenis, diagram'.isi[j].isi # Kosong
                 PROVE  diagram'.isi[j].gen = prosedur.gen
        BY <1>2 DEF OverrideSesuaiLangkah
    <2>1. CASE diagram'.isi[j] = diagram.isi[j]
        BY <2>1 DEF IInvD, OverrideSesuaiLangkah
    <2>2. CASE diagram'.isi[j] = [isi |-> Saring(r), gen |-> r.gen]
        BY <2>2 DEF Saring
    <2>3. diagram.isi \in [Jenis -> [isi : Isi, gen : Nat]]
        BY DEF IInvD, IInv, TypeOKE
    <2> QED
        BY <1>3, <2>1, <2>2, <2>3
<1>8. TypeOKD' /\ SemuaGambar'
    BY <1>2 DEF IInvD, TypeOKD, SemuaGambar
<1> QED
    BY <1>6, <1>7, <1>8 DEF IInvD

\* A failed save of the diagram.
LEMMA GagalDiagramIInvD ==
    ASSUME IInvD, NEW r \in minta, MilikDiagram(r),
           NEW sisa \in SUBSET {[r EXCEPT !.ditunggu = FALSE]}, minta' = (minta \ {r}) \cup sisa,
           dg' = [dg EXCEPT ![r.dari] = GagalDiagram(@)],
           UNCHANGED <<terbuka, prosedur, diagram, wb, segar, pn>>
    PROVE  IInvD'
<1> DEFINE c == r.dari
           s == [r EXCEPT !.ditunggu = FALSE]
           d == GagalDiagram(dg[c])
<1>1. r \in Permintaan /\ c \in Penyunting /\ r.gambar \in Isi /\ r.bagian = "DIAGRAM"
    BY DEF IInvD, IInv, TypeOKE, Permintaan, MilikDiagram
<1>2. /\ s \in Permintaan /\ s.bagian = "DIAGRAM" /\ s.fase = r.fase /\ s.lihat = r.lihat
    BY <1>1 DEF Permintaan
<1>3. d \in Gambar /\ d.tab = dg[c].tab /\ d.tick = dg[c].tick
    <2> DEFINE x == dg[c]
    <2>1. x \in Gambar
        BY <1>1 DEF IInvD, TypeOKD
    <2> HIDE DEF x
    <2>2. /\ GagalDiagram(x) \in Gambar
          /\ GagalDiagram(x).tab = x.tab /\ GagalDiagram(x).tick = x.tick
        BY <1>1, <2>1 DEF Gambar, GagalDiagram, StatusSimpan
    <2> QED
        BY <2>2 DEF x
<1>4. dg' = [dg EXCEPT ![c] = d] /\ sisa \subseteq {s}
    OBVIOUS
<1> HIDE DEF c, s, d
<1>5. TypeOKD' /\ SemuaGambar'
    BY <1>1, <1>3, <1>4 DEF IInvD, TypeOKD, SemuaGambar, GambarSah, Terhidrasi
<1>6. IInv'
    <2>1. \A x \in minta' :
              \/ x \in minta
              \/ /\ x \in Permintaan /\ x.bagian = "DIAGRAM"
                 /\ x.fase = "jawab" => x.lihat # Kosong
                 /\ x.lihat # Kosong => TampakSah(x.lihat)
        BY <1>2, <1>4 DEF IInvD, IInv, TypeOKE, TampakSelaras
    <2>2. \A x \in minta : MilikProsedur(x) => x \in minta'
        BY <1>1 DEF MilikProsedur
    <2>3. diagram' \in [rev : Nat, isi : [Jenis -> [isi : Isi, gen : Nat]]]
        BY DEF IInvD, IInv, TypeOKE
    <2> QED
        BY <1>1, <2>1, <2>2, <2>3, MintaSajaIInv DEF IInvD
<1> QED
    BY <1>5, <1>6, TetapOverride

LEMMA TerimaDiagramIInvD == ASSUME IInvD, NEW r \in minta, TerimaDiagram(r) PROVE IInvD'
<1> DEFINE c == r.dari
           w == r.lihat
           p == EfekBila(pn[c], wb[c], w)
           d == [dg[c] EXCEPT !.dasar = r.gambar, !.status = "tenang"]
           aktif == AktifDi(pn[c], w)
           e == IF aktif = Aktif(c) THEN d ELSE EfekDiagram(d, aktif)
<1>1. /\ r \in Permintaan /\ c \in Penyunting /\ r.gambar \in Isi /\ r.bagian = "DIAGRAM"
      /\ w \in Tampak /\ w # Kosong /\ TampakSah(w)
    BY DEF TerimaDiagram, MilikDiagram, IInvD, IInv, TypeOKE, TampakSelaras, Permintaan
<1>2. /\ pn' = [pn EXCEPT ![c] = p] /\ wb' = [wb EXCEPT ![c] = w]
      /\ dg' = [dg EXCEPT ![c] = e] /\ minta' = minta \ {r}
      /\ UNCHANGED <<terbuka, prosedur, diagram, segar>>
    BY DEF TerimaDiagram, varsServer, IInvD, IInv, TypeOKE, TypeOKD
<1>3. d \in Gambar /\ d.tab = dg[c].tab /\ d.tick = dg[c].tick /\ GambarSah(dg[c], pn[c])
    <2>1. dg[c] \in Gambar /\ GambarSah(dg[c], pn[c])
        BY <1>1 DEF IInvD, TypeOKD, SemuaGambar
    <2> QED
        BY <1>1, <2>1 DEF Gambar, StatusSimpan
<1>4. aktif \in BOOLEAN /\ (aktif => pn[c].muat # Kosong)
    BY <1>1 DEF AktifDi, Tampak
<1> HIDE DEF c, w, aktif, d
<1>5. p \in Penulis /\ Tetap(p, pn[c]) /\ p.kirim = pn[c].kirim /\ LamanSah(p, w)
    BY <1>1, LamanAwal, EfekBilaSifat DEF IInvD
<1> HIDE DEF p
<1>6. e \in Gambar /\ GambarSah(e, pn[c])
    <2>1. CASE aktif = Aktif(c)
        BY <1>3, <2>1 DEF GambarSah, Terhidrasi
    <2>2. CASE aktif # Aktif(c)
        <3> DEFINE f == EfekDiagram(d, aktif)
        <3>1. f \in Gambar /\ f.tab = d.tab /\ (f.tick => aktif)
            BY <1>3, <1>4, EfekDiagramSifat
        <3>2. e = f
            BY <2>2
        <3> HIDE DEF f, e
        <3> QED
            BY <1>3, <1>4, <3>1, <3>2 DEF GambarSah, Terhidrasi
    <2> QED
        BY <2>1, <2>2
<1> HIDE DEF e
<1>7. \A x \in Penyunting : pn'[x].muat = pn[x].muat
    BY <1>1, <1>2, <1>5 DEF Tetap, IInvD, IInv, TypeOKE
<1>8. TypeOKD' /\ SemuaGambar'
    BY <1>1, <1>2, <1>6, <1>7 DEF IInvD, TypeOKD, SemuaGambar, GambarSah
<1>9. IInv'
    <2>1. \A x \in minta : MilikProsedur(x) => x \in minta'
        BY <1>1, <1>2 DEF MilikProsedur
    <2>2. diagram' \in [rev : Nat, isi : [Jenis -> [isi : Isi, gen : Nat]]]
        BY <1>2 DEF IInvD, IInv, TypeOKE
    <2>3. \A x \in minta' : x \in minta
        BY <1>2
    <2> QED
        BY <1>1, <1>2, <1>5, <2>1, <2>2, <2>3, MintaIInv DEF IInvD, Tetap
<1> QED
    BY <1>2, <1>8, <1>9, TetapOverride

\* A commit of the procedure takes every override along with the langkah, or leaves
\* both; the rest of the way of a request touches neither.
LEMMA ProsedurIInvD ==
    ASSUME IInvD, NEW r \in minta,
           \/ /\ Periksa(r) \/ TulisProsedur(r) \/ BacaUlang(r) \/ TerimaTolak(r) \/ Gangguan(r)
              /\ UNCHANGED dg
           \/ Terima(r) /\ IkutEfek(r.dari)
    PROVE  IInvD'
<1>1. IInv /\ LangkahPermintaan(r)
    BY DEF IInvD, LangkahPermintaan
<1>2. IInv'
    BY <1>1, NextIInv DEF NextE
<1>3. \A x \in Penyunting : pn'[x].muat = pn[x].muat
    BY <1>1, PermintaanJujur
<1>4. CASE TulisProsedur(r) /\ UNCHANGED dg
    <2>1. TypeOKD' /\ SemuaGambar'
        BY <1>3, <1>4 DEF IInvD, TypeOKD, SemuaGambar, GambarSah
    <2>2. OverrideSesuaiLangkah'
        <3>1. \/ UNCHANGED diagram /\ prosedur'.gen = prosedur.gen
              \/ \A j \in Jenis : diagram'.isi[j].isi = Kosong
            BY <1>4 DEF TulisProsedur, TanpaOverride, IInvD, IInv, TypeOKE
        <3> QED
            BY <3>1 DEF IInvD, OverrideSesuaiLangkah
    <2> QED
        BY <1>2, <2>1, <2>2 DEF IInvD
<1>5. CASE (Periksa(r) \/ BacaUlang(r) \/ TerimaTolak(r) \/ Gangguan(r)) /\ UNCHANGED dg
    <2>1. UNCHANGED <<prosedur, diagram>>
        BY <1>5 DEF Periksa, BacaUlang, TerimaTolak, Gangguan, varsServer
    <2> QED
        BY <1>2, <1>3, <1>5, <2>1, DiamIInvD
<1>6. CASE Terima(r) /\ IkutEfek(r.dari)
    <2>1. UNCHANGED <<prosedur, diagram>> /\ r.dari \in Penyunting
        BY <1>1, <1>6, TanpaTunggu DEF Terima, varsServer
    <2> QED
        BY <1>2, <1>3, <1>6, <2>1, IkutIInvD
<1> QED
    BY <1>4, <1>5, <1>6

-----------------------------------------------------------------------------
LEMMA NextIInvD == ASSUME IInvD, [NextD]_varsD PROVE IInvD'
<1>1. ASSUME NEW c \in Penyunting, LangkahLamanD(c) PROVE IInvD'
    BY <1>1, BiasaIInvD, HidrasiIInvD, UbahDiagramIInvD, PindahTabIInvD, TenggatDiagramIInvD
       DEF LangkahLamanD
<1>2. ASSUME NEW r \in minta, LangkahPermintaanD(r) PROVE IInvD'
    <2>1. CASE TolakDiagram(r)
        <3>1. minta' = (minta \ {r}) \cup {}
            BY <2>1 DEF TolakDiagram
        <3> QED
            BY <2>1, <3>1, GagalDiagramIInvD DEF TolakDiagram, varsServer
    <2>2. CASE GangguanDiagram(r)
        BY <2>2, GagalDiagramIInvD DEF GangguanDiagram, Terlantar, varsServer
    <2> QED
        BY <1>2, <2>1, <2>2, ProsedurIInvD, TulisDiagramIInvD, TerimaDiagramIInvD
           DEF LangkahPermintaanD
<1>3. CASE UNCHANGED varsD
    <2>1. IInv' /\ UNCHANGED <<prosedur, diagram, dg, pn>>
        BY <1>3, TetapIInv DEF varsD, varsE, IInvD
    <2> QED
        BY <2>1, DiamIInvD
<1> QED
    BY <1>1, <1>2, <1>3 DEF NextD

THEOREM InduktifD == SpecD => []IInvD
<1>1. InitD => IInvD
    BY InitIInvD
<1>2. IInvD /\ [NextD]_varsD => IInvD'
    BY NextIInvD
<1> QED
    BY <1>1, <1>2, PTL DEF SpecD

\* filterFlattenedDiagramRowsByLangkahIds and the cascade of deleted langkah:
\* a stored override names langkah of the procedure as it is.
THEOREM OverrideSelaras == SpecD => []OverrideSesuaiLangkah
<1>1. IInvD => OverrideSesuaiLangkah
    BY DEF IInvD
<1> QED
    BY <1>1, InduktifD, PTL

\* With the diagram beside it the procedure's editor still forgets no edit.
THEOREM UbahanTerjagaD == SpecD => []TiadaUbahanTerlantar
<1>1. IInvD => TiadaUbahanTerlantar
    BY DEF IInvD, IInv, SemuaLaman, LamanSah, TiadaUbahanTerlantar, Aktif
<1> QED
    BY <1>1, InduktifD, PTL

-----------------------------------------------------------------------------
(***************************************************************************)
(* One editor: two saves of a slice under way at once never leave the      *)
(* older one stored (DiagramTakMundur).  The first to be committed moves   *)
(* diagramRevision past every save sent before its answer, and what is     *)
(* sent with the revision as it is holds at least what is stored.          *)
(***************************************************************************)
\* Which edit of its editor a slice is, 0 when nothing is drawn.
Umur(x) == IF x = Kosong THEN 0 ELSE x[2]

\* A workbench is never ahead of the diagram.
TakDahulu(w) == w # Kosong => w.revD =< diagram.rev

\* A save of the diagram holds no more than the page has by now and, when it
\* would be committed, no less than what is stored.
SimpananUrut(c, r) ==
    /\ pn[c].muat # Kosong /\ r.jenis \in Jenis /\ r.rev =< diagram.rev
    /\ Umur(r.gambar) =< Umur(dg[c].konfig[r.jenis])
    /\ r.rev = diagram.rev => Umur(diagram.isi[r.jenis].isi) =< Umur(r.gambar)

MintaUrut(c, r) ==
    /\ TakDahulu(r.lihat)
    /\ r.bagian = "DIAGRAM" => SimpananUrut(c, r)

\* The slices of the page are at least as late as what is stored; nothing is
\* stored before the page took them over.
SliceUrut(c) ==
    /\ \A j \in Jenis : /\ Umur(diagram.isi[j].isi) =< Umur(dg[c].konfig[j])
                        /\ Umur(dg[c].konfig[j]) =< dg[c].ke
    /\ pn[c].muat = Kosong => \A j \in Jenis : diagram.isi[j].isi = Kosong

UInv(c) ==
    /\ TakDahulu(wb[c]) /\ TakDahulu(segar[c])
    /\ \A r \in minta : MintaUrut(c, r)
    /\ SliceUrut(c)

LEMMA UmurNat == ASSUME NEW x \in Isi PROVE Umur(x) \in Nat
<1>1. CASE x = Kosong
    BY <1>1 DEF Umur
<1>2. CASE x # Kosong
    <2>1. x \in (Penyunting \cup {Kosong}) \X Nat
        BY <1>2 DEF Isi
    <2> QED
        BY <1>2, <2>1 DEF Umur
<1> QED
    BY <1>1, <1>2

LEMMA UmurGambar ==
    ASSUME NEW c \in Penyunting, NEW k \in Nat PROVE Umur(<<c, k>>) = k /\ <<c, k>> # Kosong
<1>1. <<c, k>> # Kosong
    BY IsiAssumption
<1> QED
    BY <1>1 DEF Umur

\* What is stored, sent and drawn has an age.
LEMMA UmurSemua ==
    ASSUME IInvD, NEW c \in Penyunting, NEW j \in Jenis
    PROVE  /\ Umur(diagram.isi[j].isi) \in Nat /\ Umur(dg[c].konfig[j]) \in Nat
           /\ dg[c].ke \in Nat /\ diagram.rev \in Nat
           /\ \A r \in minta : Umur(r.gambar) \in Nat
<1>1. diagram.isi[j].isi \in Isi /\ dg[c].konfig[j] \in Isi /\ \A r \in minta : r.gambar \in Isi
    BY DEF IInvD, IInv, TypeOKE, TypeOKD, Gambar, Permintaan
<1>2. dg[c].ke \in Nat /\ diagram.rev \in Nat
    BY DEF IInvD, IInv, TypeOKE, TypeOKD, Gambar
<1> QED
    BY <1>1, <1>2, UmurNat

\* A request goes on as it was, at most with a new view of the workbench.
Sejalan(s, r) ==
    /\ s.bagian = r.bagian /\ s.jenis = r.jenis /\ s.gambar = r.gambar /\ s.rev = r.rev
    /\ s.lihat = r.lihat \/ s.lihat = Lihat

LEMMA SejalanUrut ==
    ASSUME IInvD, NEW c \in Penyunting, NEW r, NEW s, MintaUrut(c, r), Sejalan(s, r)
    PROVE  MintaUrut(c, s)
<1>1. TakDahulu(Lihat)
    BY DEF IInvD, IInv, TypeOKE, TakDahulu, Lihat
<1>2. TakDahulu(s.lihat)
    BY <1>1 DEF Sejalan, MintaUrut
<1> QED
    BY <1>2 DEF Sejalan, MintaUrut, SimpananUrut

\* A step that leaves what is stored and drawn as it is.
LEMMA TetapUInv ==
    ASSUME NEW c \in Penyunting, UInv(c), UNCHANGED diagram,
           dg'[c].konfig = dg[c].konfig, dg'[c].ke = dg[c].ke,
           pn[c].muat # Kosong => pn'[c].muat # Kosong,
           TakDahulu(wb'[c]), TakDahulu(segar'[c]),
           \A x \in minta' : x \in minta \/ MintaUrut(c, x)
    PROVE  UInv(c)'
<1>1. TakDahulu(wb[c])' /\ TakDahulu(segar[c])'
    BY DEF TakDahulu
<1>2. \A x \in minta' : MintaUrut(c, x)
    BY DEF UInv
<1>3. (\A x \in minta : MintaUrut(c, x))'
    BY <1>2 DEF MintaUrut, SimpananUrut, TakDahulu
<1>4. SliceUrut(c)'
    BY DEF UInv, SliceUrut
<1> QED
    BY <1>1, <1>3, <1>4 DEF UInv

LEMMA InitUInv == ASSUME InitD, NEW c \in Penyunting PROVE UInv(c)
<1>2. /\ wb[c] = Kosong /\ segar[c] = Kosong /\ minta = {}
      /\ \A j \in Jenis : diagram.isi[j].isi = Kosong /\ dg[c].konfig[j] = Kosong
      /\ dg[c].ke = 0
    BY DEF InitD, InitE, TanpaOverride, DiagramBaru
<1> QED
    BY <1>2 DEF UInv, TakDahulu, SliceUrut, Umur

-----------------------------------------------------------------------------
\* The effect touches neither the slices nor the count of edits.
LEMMA EfekSlice ==
    ASSUME NEW d \in Gambar, NEW aktif
    PROVE  EfekDiagram(d, aktif).konfig = d.konfig /\ EfekDiagram(d, aktif).ke = d.ke
<1>1. CASE ~aktif
    BY <1>1 DEF EfekDiagram, Gambar
<1>2. CASE aktif /\ Slice(d) = d.dasar
    BY <1>2 DEF EfekDiagram, Gambar
<1>3. CASE aktif /\ Slice(d) # d.dasar
    BY <1>3 DEF EfekDiagram, Gambar
<1> QED
    BY <1>1, <1>2, <1>3

LEMMA IkutSlice ==
    ASSUME IInvD, NEW c \in Penyunting, UNCHANGED dg \/ IkutEfek(c)
    PROVE  dg'[c].konfig = dg[c].konfig /\ dg'[c].ke = dg[c].ke
<1> DEFINE aktif == AktifDi(pn'[c], wb'[c])
<1>1. dg[c] \in Gambar
    BY DEF IInvD, TypeOKD
<1>2. dg'[c] = dg[c] \/ dg'[c] = EfekDiagram(dg[c], aktif)
    BY DEF IkutEfek, IInvD, TypeOKD
<1> HIDE DEF aktif
<1> QED
    BY <1>1, <1>2, EfekSlice

\* A page keeps its rows, and what it sends is no save of the diagram.
LEMMA MintaLaman ==
    ASSUME IInvD, NEW c \in Penyunting, LangkahLaman(c)
    PROVE  /\ pn[c].muat # Kosong => pn'[c].muat # Kosong
           /\ \A x \in minta' : x \in minta \/ MintaUrut(c, x)
<1>1. IInv
    BY DEF IInvD
<1>2. pn[c].muat # Kosong => pn'[c].muat # Kosong
    <2>1. CASE Muat(c)
        BY <2>1 DEF Muat
    <2>2. CASE LangkahBiasa(c)
        BY <1>1, <2>2, BiasaJujur
    <2> QED
        BY <2>1, <2>2 DEF LangkahLaman, LangkahBiasa
<1>3. ASSUME NEW x \in minta' \ minta PROVE MintaUrut(c, x)
    BY <1>1, KirimLaman DEF MintaUrut, TakDahulu
<1> QED
    BY <1>2, <1>3

\* Steps of the procedure's editor.
LEMMA BiasaUInv ==
    ASSUME IInvD, NEW c \in Penyunting, UInv(c),
           \/ /\ Buka(c) \/ Ubah(c) \/ Tenggat(c) \/ Siram(c) \/ Selesaikan(c) \/ BacaSegar(c)
              /\ UNCHANGED dg
           \/ (Segar(c) \/ Serahkan(c)) /\ IkutEfek(c)
    PROVE  UInv(c)'
<1>1. LangkahLaman(c)
    BY DEF LangkahLaman
<1>2. UNCHANGED diagram
    BY DEF Buka, Ubah, Tenggat, Siram, Selesaikan, BacaSegar, Segar, Serahkan, varsServer
<1>3. dg'[c].konfig = dg[c].konfig /\ dg'[c].ke = dg[c].ke
    BY IkutSlice
<1>4. TakDahulu(Lihat) /\ TakDahulu(Kosong)
    BY DEF IInvD, IInv, TypeOKE, TakDahulu, Lihat
<1>5. /\ wb'[c] = wb[c] \/ wb'[c] = Lihat \/ wb'[c] = segar[c]
      /\ segar'[c] = segar[c] \/ segar'[c] = Lihat \/ segar'[c] = Kosong
    BY DEF Buka, Ubah, Tenggat, Siram, Selesaikan, BacaSegar, Segar, Serahkan, IInvD, IInv, TypeOKE
<1>6. TakDahulu(wb'[c]) /\ TakDahulu(segar'[c])
    BY <1>4, <1>5 DEF UInv
<1> QED
    BY <1>1, <1>2, <1>3, <1>6, MintaLaman, TetapUInv

\* Before the page takes the slices over nothing is stored.
LEMMA HidrasiUInv ==
    ASSUME IInvD, NEW c \in Penyunting, UInv(c), Hidrasi(c) PROVE UInv(c)'
<1>1. Muat(c) /\ LangkahLaman(c) /\ pn[c].muat = Kosong
    BY DEF Hidrasi, LangkahLaman, Muat
<1>2. UNCHANGED <<diagram, wb, segar, minta>>
    BY <1>1 DEF Muat, varsServer
<1>3. \A j \in Jenis : dg'[c].konfig[j] = Kosong
    <2>1. \A j \in Jenis : diagram.isi[j].isi = Kosong
        BY <1>1 DEF UInv, SliceUrut
    <2>2. dg[c] \in Gambar
        BY DEF IInvD, TypeOKD
    <2>3. dg'[c].konfig = [k \in Jenis |-> diagram.isi[k].isi]
        BY <2>2 DEF Hidrasi, IInvD, TypeOKD, Gambar
    <2> QED
        BY <2>1, <2>3
<1>4. dg'[c].ke = dg[c].ke /\ dg[c].ke \in Nat
    <2>1. dg[c] \in Gambar
        BY DEF IInvD, TypeOKD
    <2> QED
        BY <2>1 DEF Hidrasi, IInvD, TypeOKD, Gambar
<1>5. ASSUME NEW x \in minta PROVE MintaUrut(c, x)'
    <2>1. x.bagian # "DIAGRAM"
        BY <1>1 DEF UInv, MintaUrut, SimpananUrut
    <2> QED
        BY <1>2, <2>1 DEF UInv, MintaUrut, TakDahulu
<1>6. SliceUrut(c)'
    BY <1>1, <1>2, <1>3, <1>4 DEF UInv, SliceUrut, Umur
<1>8. TakDahulu(wb[c])' /\ TakDahulu(segar[c])'
    BY <1>2 DEF UInv, TakDahulu
<1> QED
    BY <1>2, <1>5, <1>6, <1>8 DEF UInv

\* An edit of a slice comes after all before it.
LEMMA UbahDiagramUInv ==
    ASSUME IInvD, NEW c \in Penyunting, UInv(c), UbahDiagram(c) PROVE UInv(c)'
<1> DEFINE x == dg[c]
<1>1. x \in Gambar /\ x.tab \in Jenis /\ UNCHANGED <<diagram, wb, segar, minta, pn, prosedur>>
    BY DEF IInvD, TypeOKD, UbahDiagram, Terhidrasi, Gambar, varsE
<1>2. /\ dg'[c].konfig = [x.konfig EXCEPT ![x.tab] = <<c, x.ke + 1>>]
      /\ dg'[c].ke = x.ke + 1
    <2> DEFINE o == Gambari(c, x)
    <2>1. dg'[c] = EfekDiagram(o, TRUE)
        BY DEF UbahDiagram, IInvD, TypeOKD
    <2>2. x.ke + 1 \in Nat /\ <<c, x.ke + 1>> \in Isi
        BY <1>1 DEF Gambar, Isi
    <2>3. o = [x EXCEPT !.konfig = [x.konfig EXCEPT ![x.tab] = <<c, x.ke + 1>>], !.ke = x.ke + 1]
        BY DEF Gambari
    <2> HIDE DEF x
    <2>4. [x.konfig EXCEPT ![x.tab] = <<c, x.ke + 1>>] \in [Jenis -> Isi]
        BY <1>1, <2>2 DEF Gambar
    <2>5. /\ o \in Gambar /\ o.ke = x.ke + 1
          /\ o.konfig = [x.konfig EXCEPT ![x.tab] = <<c, x.ke + 1>>]
        BY <1>1, <2>2, <2>3, <2>4 DEF Gambar
    <2> HIDE DEF o
    <2>6. EfekDiagram(o, TRUE).konfig = o.konfig /\ EfekDiagram(o, TRUE).ke = o.ke
        BY <2>5, EfekSlice
    <2> QED
        BY <2>1, <2>5, <2>6
<1>3. x.ke \in Nat /\ Umur(<<c, x.ke + 1>>) = x.ke + 1 /\ x.konfig \in [Jenis -> Isi]
    BY <1>1, UmurGambar DEF Gambar
<1>4. ASSUME NEW j \in Jenis
      PROVE  Umur(x.konfig[j]) =< Umur(dg'[c].konfig[j]) /\ Umur(dg'[c].konfig[j]) =< dg'[c].ke
    <2>1. Umur(x.konfig[j]) =< x.ke /\ Umur(x.konfig[j]) \in Nat
        BY UmurSemua DEF UInv, SliceUrut
    <2>2. CASE j = x.tab
        BY <1>1, <1>2, <1>3, <2>1, <2>2
    <2>3. CASE j # x.tab
        BY <1>1, <1>2, <1>3, <2>1, <2>3
    <2> QED
        BY <2>2, <2>3
<1>5. \A j \in Jenis : Umur(dg'[c].konfig[j]) \in Nat
    <2>1. dg'[c].konfig \in [Jenis -> Isi]
        BY UbahDiagramIInvD DEF IInvD, TypeOKD, Gambar
    <2> QED
        BY <2>1, UmurNat
<1>6. SliceUrut(c)'
    <2>1. \A j \in Jenis : /\ Umur(diagram.isi[j].isi) \in Nat /\ Umur(x.konfig[j]) \in Nat
                           /\ Umur(diagram.isi[j].isi) =< Umur(x.konfig[j])
        BY UmurSemua DEF UInv, SliceUrut
    <2>2. pn[c].muat = Kosong => \A j \in Jenis : diagram.isi[j].isi = Kosong
        BY DEF UInv, SliceUrut
    <2> HIDE DEF x
    <2> QED
        BY <1>1, <1>4, <1>5, <2>1, <2>2 DEF SliceUrut
<1>7. ASSUME NEW r \in minta PROVE MintaUrut(c, r)'
    <2>1. MintaUrut(c, r) /\ Umur(r.gambar) \in Nat
        BY UmurSemua, JenisAssumption DEF UInv
    <2>2. r.bagian = "DIAGRAM" => Umur(r.gambar) =< Umur(dg'[c].konfig[r.jenis])
        <3>1. \A j \in Jenis : Umur(x.konfig[j]) \in Nat
            BY UmurSemua
        <3> QED
            BY <1>4, <1>5, <2>1, <3>1 DEF MintaUrut, SimpananUrut
    <2> QED
        BY <1>1, <2>1, <2>2 DEF MintaUrut, SimpananUrut, TakDahulu
<1>8. TakDahulu(wb[c])' /\ TakDahulu(segar[c])'
    BY <1>1 DEF UInv, TakDahulu
<1> QED
    BY <1>1, <1>6, <1>7, <1>8 DEF UInv

LEMMA PindahTabUInv ==
    ASSUME IInvD, NEW c \in Penyunting, UInv(c), PindahTab(c) PROVE UInv(c)'
<1>1. UNCHANGED <<diagram, wb, segar, minta, pn, prosedur>>
    BY DEF PindahTab, varsE
<1>2. dg'[c].konfig = dg[c].konfig /\ dg'[c].ke = dg[c].ke
    BY DEF PindahTab, IInvD, TypeOKD, Gambar
<1>3. TakDahulu(wb'[c]) /\ TakDahulu(segar'[c])
    BY <1>1 DEF UInv
<1> QED
    BY <1>1, <1>2, <1>3, TetapUInv

\* What is sent is the slice as it is, with a revision that is at most current.
LEMMA TenggatDiagramUInv ==
    ASSUME IInvD, NEW c \in Penyunting, UInv(c), TenggatDiagram(c) PROVE UInv(c)'
<1> DEFINE s == PermintaanDiagram(c)
<1>1. UNCHANGED <<diagram, wb, segar, pn, prosedur>>
    BY DEF TenggatDiagram, varsServer
<1>2. dg'[c].konfig = dg[c].konfig /\ dg'[c].ke = dg[c].ke
    BY DEF TenggatDiagram, IInvD, TypeOKD, Gambar
<1>3. minta' = minta \/ (minta' = minta \cup {s} /\ Aktif(c))
    BY DEF TenggatDiagram
<1>4. ASSUME Aktif(c) PROVE MintaUrut(c, s)
    <2>1. dg[c].tab \in Jenis
        BY DEF IInvD, TypeOKD, SemuaGambar, GambarSah, TenggatDiagram, Terhidrasi, Gambar
    <2>2. wb[c] # Kosong /\ pn[c].muat # Kosong
        BY <1>4 DEF Aktif, AktifDi
    <2>3. wb[c].revD =< diagram.rev
        BY <2>2 DEF UInv, TakDahulu
    <2>4. /\ s.bagian = "DIAGRAM" /\ s.lihat = Kosong /\ s.rev = wb[c].revD
          /\ s.jenis = dg[c].tab /\ s.gambar = dg[c].konfig[dg[c].tab]
        BY DEF PermintaanDiagram, Slice
    <2> HIDE DEF s
    <2>5. Umur(diagram.isi[s.jenis].isi) =< Umur(s.gambar) /\ Umur(s.gambar) =< Umur(dg[c].konfig[s.jenis])
        BY <2>1, <2>4, UmurSemua DEF UInv, SliceUrut
    <2> QED
        BY <2>1, <2>2, <2>3, <2>4, <2>5 DEF MintaUrut, SimpananUrut, TakDahulu
<1> HIDE DEF s
<1>5. TakDahulu(wb'[c]) /\ TakDahulu(segar'[c])
    BY <1>1 DEF UInv
<1> QED
    BY <1>1, <1>2, <1>3, <1>4, <1>5, TetapUInv

\* The server takes a request one step further: it is written with the revision
\* as it is or refused, and nothing stored gets older.
LEMMA TulisDiagramUInv ==
    ASSUME IInvD, NEW c \in Penyunting, UInv(c), NEW r \in minta, TulisDiagram(r)
    PROVE  /\ UInv(c)'
           /\ \A j \in Jenis : \/ diagram'.isi[j].isi = Kosong
                               \/ Umur(diagram.isi[j].isi) =< Umur(diagram'.isi[j].isi)
<1>1. /\ r \in Permintaan /\ r.bagian = "DIAGRAM" /\ MintaUrut(c, r)
      /\ UNCHANGED <<prosedur, wb, segar, pn, dg>>
    BY DEF TulisDiagram, IInvD, IInv, TypeOKE, UInv
<1>2. PICK f \in FaseMinta :
          minta' = (minta \ {r}) \cup {[r EXCEPT !.fase = f]} \/ minta' = minta \ {r}
    BY DEF TulisDiagram, Selesai, Tolak, Jika, FaseMinta
<1> DEFINE s == [r EXCEPT !.fase = f]
<1>3. Sejalan(s, r) /\ (\A x \in minta' : x \in minta \/ x = s)
    BY <1>1, <1>2 DEF Sejalan, Permintaan
<1> HIDE DEF s
<1>4. \A x \in minta' : MintaUrut(c, x)
    BY <1>1, <1>3, SejalanUrut DEF UInv
<1>5. TakDahulu(wb'[c]) /\ TakDahulu(segar'[c])
    BY <1>1 DEF UInv
<1>6. \A j \in Jenis : Umur(diagram.isi[j].isi) \in Nat /\ Umur(dg[c].konfig[j]) \in Nat
    BY UmurSemua
<1>7. CASE UNCHANGED diagram
    <2>1. UInv(c)'
        BY <1>1, <1>4, <1>5, <1>7, TetapUInv
    <2>2. \A j \in Jenis : Umur(diagram.isi[j].isi) =< Umur(diagram'.isi[j].isi)
        BY <1>6, <1>7
    <2> QED
        BY <2>1, <2>2
<1>8. CASE /\ r.rev = diagram.rev
           /\ diagram' = [rev |-> diagram.rev + 1,
                          isi |-> [diagram.isi EXCEPT ![r.jenis] =
                                       [isi |-> Saring(r), gen |-> r.gen]]]
    <2>1. /\ diagram.rev \in Nat /\ diagram.isi \in [Jenis -> [isi : Isi, gen : Nat]]
          /\ diagram'.rev = diagram.rev + 1 /\ r.jenis \in Jenis /\ Umur(r.gambar) \in Nat
          /\ pn[c].muat # Kosong
        BY <1>1, <1>8, UmurSemua DEF IInvD, IInv, TypeOKE, MintaUrut, SimpananUrut
    <2>2. /\ diagram'.isi[r.jenis].isi \in {r.gambar, Kosong}
          /\ \A j \in Jenis \ {r.jenis} : diagram'.isi[j].isi = diagram.isi[j].isi
        BY <1>8, <2>1 DEF Saring
    <2>3. /\ Umur(diagram.isi[r.jenis].isi) =< Umur(r.gambar)
          /\ Umur(r.gambar) =< Umur(dg[c].konfig[r.jenis])
        BY <1>1, <1>8 DEF MintaUrut, SimpananUrut
    <2>4. Umur(Kosong) = 0
        BY DEF Umur
    <2>5. ASSUME NEW j \in Jenis
          PROVE  /\ Umur(diagram'.isi[j].isi) =< Umur(dg[c].konfig[j])
                 /\ \/ diagram'.isi[j].isi = Kosong
                    \/ Umur(diagram.isi[j].isi) =< Umur(diagram'.isi[j].isi)
        <3>1. CASE j = r.jenis
            BY <3>1, <1>6, <2>2, <2>3, <2>4
        <3>2. CASE j # r.jenis
            BY <3>2, <1>6, <2>2 DEF UInv, SliceUrut
        <3> QED
            BY <3>1, <3>2
    <2>6. SliceUrut(c)'
        BY <1>1, <2>1, <2>5 DEF UInv, SliceUrut
    <2>7. ASSUME NEW w, TakDahulu(w), w # Kosong => w.revD \in Nat PROVE TakDahulu(w)'
        BY <2>1, <2>7 DEF TakDahulu
    <2>8. /\ wb[c] # Kosong => wb[c].revD \in Nat
          /\ segar[c] # Kosong => segar[c].revD \in Nat
          /\ \A x \in minta' : x.lihat # Kosong => x.lihat.revD \in Nat
          /\ \A x \in minta' : x.rev \in Nat
        BY TulisDiagramIInvD DEF IInvD, IInv, TypeOKE, Permintaan, Tampak
    <2>9. TakDahulu(wb[c])' /\ TakDahulu(segar[c])'
        BY <1>1, <1>5, <2>7, <2>8 DEF TakDahulu
    <2>10. ASSUME NEW x \in minta' PROVE MintaUrut(c, x)'
        <3>1. TakDahulu(x.lihat)'
            BY <1>4, <2>7, <2>8 DEF MintaUrut
        <3>2. x.bagian = "DIAGRAM" => SimpananUrut(c, x)'
            BY <1>1, <1>4, <2>1, <2>8 DEF MintaUrut, SimpananUrut
        <3> QED
            BY <1>4, <3>1, <3>2 DEF MintaUrut
    <2> QED
        BY <1>5, <2>5, <2>6, <2>9, <2>10 DEF UInv
<1> QED
    BY <1>7, <1>8 DEF TulisDiagram, Cocok

\* A commit of the procedure takes every override along with the langkah.
LEMMA TulisProsedurUInv ==
    ASSUME IInvD, NEW c \in Penyunting, UInv(c), NEW r \in minta, TulisProsedur(r), UNCHANGED dg
    PROVE  /\ UInv(c)'
           /\ \/ UNCHANGED diagram
              \/ \A j \in Jenis : diagram'.isi[j].isi = Kosong
<1>1. /\ r \in Permintaan /\ r.bagian = "PROSEDUR" /\ MintaUrut(c, r)
      /\ UNCHANGED <<wb, segar, pn, dg>>
    BY DEF TulisProsedur, IInvD, IInv, TypeOKE, UInv
<1>2. PICK f \in FaseMinta :
          minta' = (minta \ {r}) \cup {[r EXCEPT !.fase = f]} \/ minta' = minta \ {r}
    BY DEF TulisProsedur, Selesai, Tolak, Jika, FaseMinta
<1> DEFINE s == [r EXCEPT !.fase = f]
<1>3. Sejalan(s, r) /\ (\A x \in minta' : x \in minta \/ x = s)
    BY <1>1, <1>2 DEF Sejalan, Permintaan
<1> HIDE DEF s
<1>4. \A x \in minta' : MintaUrut(c, x)
    BY <1>1, <1>3, SejalanUrut DEF UInv
<1>6. TakDahulu(wb'[c]) /\ TakDahulu(segar'[c])
    BY <1>1 DEF UInv
<1>7. CASE UNCHANGED diagram
    BY <1>1, <1>4, <1>6, <1>7, TetapUInv
<1>8. CASE diagram' = [diagram EXCEPT !.isi = [j \in Jenis |-> TanpaOverride]]
    <2>1. diagram'.rev = diagram.rev /\ \A j \in Jenis : diagram'.isi[j].isi = Kosong
        BY <1>8 DEF IInvD, IInv, TypeOKE, TanpaOverride
    <2>2. Umur(Kosong) = 0
        BY DEF Umur
    <2>3. \A j \in Jenis : Umur(dg[c].konfig[j]) \in Nat
        BY UmurSemua
    <2>4. SliceUrut(c)'
        BY <1>1, <2>1, <2>2, <2>3 DEF UInv, SliceUrut
    <2>5. \A x \in minta' : Umur(x.gambar) \in Nat
        <3>1. \A x \in minta' : x.gambar \in Isi
            BY ProsedurIInvD DEF IInvD, IInv, TypeOKE, Permintaan
        <3> QED
            BY <3>1, UmurNat
    <2>6. ASSUME NEW x \in minta' PROVE MintaUrut(c, x)'
        BY <1>1, <1>4, <2>1, <2>2, <2>5 DEF MintaUrut, SimpananUrut, TakDahulu
    <2>7. TakDahulu(wb[c])' /\ TakDahulu(segar[c])'
        BY <1>6, <2>1 DEF TakDahulu
    <2> QED
        BY <2>1, <2>4, <2>6, <2>7 DEF UInv
<1> QED
    BY <1>7, <1>8 DEF TulisProsedur

\* The rest of the way of a request of the procedure.
LEMMA ProsedurUInv ==
    ASSUME IInvD, NEW c \in Penyunting, UInv(c), NEW r \in minta, Penyunting = {c},
           \/ (Periksa(r) \/ BacaUlang(r) \/ TerimaTolak(r) \/ Gangguan(r)) /\ UNCHANGED dg
           \/ Terima(r) /\ IkutEfek(r.dari)
    PROVE  UInv(c)'
<1>1. /\ r \in Permintaan /\ r.dari = c /\ MintaUrut(c, r) /\ pn[c] \in Penulis
      /\ UNCHANGED <<diagram, prosedur, segar>>
    BY DEF IInvD, IInv, TypeOKE, Permintaan, UInv, Periksa, BacaUlang, TerimaTolak, Gangguan, Terima,
           varsServer
<1>2. dg'[c].konfig = dg[c].konfig /\ dg'[c].ke = dg[c].ke
    BY <1>1, IkutSlice
<1>3. IInv
    BY DEF IInvD
<1>4. CASE Terima(r)
    <2>1. wb'[c] = r.lihat
        BY <1>1, <1>4 DEF Terima, IInvD, IInv, TypeOKE
    <2>2. pn[c].muat # Kosong => pn'[c].muat # Kosong
        BY <1>1, <1>3, <1>4, TerimaLaman
    <2>3. \A x \in minta' : x \in minta \/ MintaUrut(c, x)
        BY <1>1, <1>3, <1>4, TerimaLaman DEF MintaUrut, TakDahulu
    <2>4. TakDahulu(wb'[c]) /\ TakDahulu(segar'[c])
        BY <1>1, <2>1 DEF UInv, MintaUrut
    <2> QED
        BY <1>1, <1>2, <2>2, <2>3, <2>4, TetapUInv
<1>5. CASE Periksa(r) \/ BacaUlang(r) \/ TerimaTolak(r) \/ Gangguan(r)
    <2>1. UNCHANGED wb
        BY <1>5 DEF Periksa, BacaUlang, TerimaTolak, Gangguan
    <2>2. pn'[c].muat = pn[c].muat /\ pn'[c].draf = pn[c].draf /\ pn'[c].dasar = pn[c].dasar
        <3>1. pn'[c] = pn[c] \/ pn'[c] = Gagal(pn[c])
            BY <1>1, <1>5 DEF Periksa, BacaUlang, TerimaTolak, Gangguan, IInvD, IInv, TypeOKE
        <3> QED
            BY <1>1, <3>1, GagalSifat DEF Tetap
    <2>3. \A x \in minta' : x \in minta \/ Sejalan(x, r)
        <3>1. \A f : Sejalan([r EXCEPT !.fase = f], r)
            BY <1>1 DEF Permintaan, Sejalan
        <3>2. Sejalan([r EXCEPT !.ditunggu = FALSE], r)
            BY <1>1 DEF Permintaan, Sejalan
        <3>3. Sejalan([r EXCEPT !.fase = "jawab", !.lihat = Lihat], r)
            BY <1>1 DEF Permintaan, Sejalan
        <3>4. CASE Periksa(r)
            BY <3>1, <3>4 DEF Periksa, Maju, Tolak, Jika
        <3>5. CASE BacaUlang(r)
            BY <3>3, <3>5 DEF BacaUlang, Maju
        <3>6. CASE TerimaTolak(r) \/ Gangguan(r)
            BY <3>2, <3>6 DEF TerimaTolak, Gangguan, Terlantar
        <3> QED
            BY <1>5, <3>4, <3>5, <3>6
    <2>4. TakDahulu(wb'[c]) /\ TakDahulu(segar'[c])
        BY <1>1, <2>1, <2>2 DEF UInv
    <2>5. \A x \in minta' : x \in minta \/ MintaUrut(c, x)
        BY <1>1, <2>3, SejalanUrut
    <2> QED
        BY <1>1, <1>2, <2>2, <2>4, <2>5, TetapUInv
<1> QED
    BY <1>4, <1>5

\* What an answer, a refusal or a failure of a save of the diagram does.
LEMMA JawabDiagramUInv ==
    ASSUME IInvD, NEW c \in Penyunting, UInv(c), NEW r \in minta, Penyunting = {c},
           TerimaDiagram(r) \/ TolakDiagram(r) \/ GangguanDiagram(r)
    PROVE  UInv(c)'
<1>1. /\ r \in Permintaan /\ r.dari = c /\ MintaUrut(c, r) /\ pn[c] \in Penulis /\ dg[c] \in Gambar
      /\ r.gambar \in Isi /\ UNCHANGED <<diagram, prosedur, segar>>
    BY DEF IInvD, IInv, TypeOKE, TypeOKD, Permintaan, UInv, TerimaDiagram, TolakDiagram,
           GangguanDiagram, varsServer
<1>2. \A x \in minta' : x \in minta \/ Sejalan(x, r)
    <2>1. Sejalan([r EXCEPT !.ditunggu = FALSE], r)
        BY <1>1 DEF Permintaan, Sejalan
    <2> QED
        BY <2>1 DEF TerimaDiagram, TolakDiagram, GangguanDiagram, Terlantar
<1>3. \A x \in minta' : x \in minta \/ MintaUrut(c, x)
    BY <1>1, <1>2, SejalanUrut
<1>4. CASE TerimaDiagram(r)
    <2> DEFINE d == [dg[c] EXCEPT !.dasar = r.gambar, !.status = "tenang"]
               aktif == AktifDi(pn[c], r.lihat)
    <2>1. d \in Gambar /\ d.konfig = dg[c].konfig /\ d.ke = dg[c].ke
        BY <1>1 DEF Gambar, StatusSimpan
    <2>2. dg'[c] = d \/ dg'[c] = EfekDiagram(d, aktif)
        BY <1>1, <1>4 DEF TerimaDiagram, IInvD, TypeOKD
    <2> HIDE DEF d, aktif
    <2>3. dg'[c].konfig = dg[c].konfig /\ dg'[c].ke = dg[c].ke
        BY <2>1, <2>2, EfekSlice
    <2>4. /\ r.lihat \in Tampak /\ wb'[c] = r.lihat
          /\ pn'[c] = EfekBila(pn[c], wb[c], r.lihat)
        BY <1>1, <1>4 DEF TerimaDiagram, IInvD, IInv, TypeOKE, Permintaan
    <2>5. Tetap(pn'[c], pn[c])
        BY <1>1, <2>4, LamanAwal, EfekBilaSifat DEF IInvD
    <2>6. TakDahulu(wb'[c]) /\ TakDahulu(segar'[c])
        BY <1>1, <2>4, <2>5 DEF UInv, MintaUrut, Tetap
    <2> QED
        BY <1>1, <1>3, <2>3, <2>5, <2>6, TetapUInv DEF Tetap
<1>5. CASE TolakDiagram(r) \/ GangguanDiagram(r)
    <2>1. dg'[c].konfig = dg[c].konfig /\ dg'[c].ke = dg[c].ke
        <3> DEFINE x == dg[c]
        <3>1. dg'[c] = GagalDiagram(x)
            BY <1>1, <1>5 DEF TolakDiagram, GangguanDiagram, IInvD, TypeOKD
        <3> HIDE DEF x
        <3>2. x \in Gambar
            BY <1>1 DEF x
        <3>3. GagalDiagram(x).konfig = x.konfig /\ GagalDiagram(x).ke = x.ke
            BY <3>2 DEF GagalDiagram, Gambar
        <3> QED
            BY <3>1, <3>3 DEF x
    <2>2. UNCHANGED <<pn, wb>>
        BY <1>5 DEF TolakDiagram, GangguanDiagram
    <2>3. TakDahulu(wb'[c]) /\ TakDahulu(segar'[c])
        BY <1>1, <2>2 DEF UInv
    <2> QED
        BY <1>1, <1>3, <2>1, <2>2, <2>3, TetapUInv
<1> QED
    BY <1>4, <1>5

-----------------------------------------------------------------------------
\* A step keeps the order, and no slice that stays stored gets older.
LEMMA LangkahUInv ==
    ASSUME IInvD, NEW c \in Penyunting, UInv(c), Penyunting = {c}, [NextD]_varsD
    PROVE  /\ UInv(c)'
           /\ \A j \in Jenis : \/ diagram'.isi[j].isi = Kosong
                               \/ Umur(diagram.isi[j].isi) =< Umur(diagram'.isi[j].isi)
<1>1. ASSUME UNCHANGED diagram
      PROVE  \A j \in Jenis : Umur(diagram.isi[j].isi) =< Umur(diagram'.isi[j].isi)
    BY <1>1, UmurSemua
<1>2. CASE UNCHANGED varsD
    <2>1. UNCHANGED <<diagram, prosedur, wb, segar, minta, pn, dg>>
        BY <1>2 DEF varsD, varsE
    <2>2. TakDahulu(wb'[c]) /\ TakDahulu(segar'[c])
        BY <2>1 DEF UInv
    <2> QED
        BY <1>1, <2>1, <2>2, TetapUInv
<1>3. CASE LangkahLamanD(c)
    <2>1. UNCHANGED diagram
        BY <1>3 DEF LangkahLamanD, Buka, Ubah, Tenggat, Siram, Selesaikan, BacaSegar, Segar, Serahkan,
               Hidrasi, Muat, UbahDiagram, PindahTab, TenggatDiagram, varsServer, varsE
    <2> QED
        BY <1>1, <1>3, <2>1, BiasaUInv, HidrasiUInv, UbahDiagramUInv, PindahTabUInv,
           TenggatDiagramUInv DEF LangkahLamanD
<1>4. ASSUME NEW r \in minta, LangkahPermintaanD(r)
      PROVE  /\ UInv(c)'
             /\ \A j \in Jenis : \/ diagram'.isi[j].isi = Kosong
                                 \/ Umur(diagram.isi[j].isi) =< Umur(diagram'.isi[j].isi)
    <2>1. CASE TulisDiagram(r)
        BY <2>1, TulisDiagramUInv
    <2>2. CASE TulisProsedur(r) /\ UNCHANGED dg
        BY <1>1, <2>2, TulisProsedurUInv
    <2>3. CASE TerimaDiagram(r) \/ TolakDiagram(r) \/ GangguanDiagram(r)
        <3>1. UNCHANGED diagram
            BY <2>3 DEF TerimaDiagram, TolakDiagram, GangguanDiagram, varsServer
        <3> QED
            BY <1>1, <2>3, <3>1, JawabDiagramUInv
    <2>4. CASE \/ (Periksa(r) \/ BacaUlang(r) \/ TerimaTolak(r) \/ Gangguan(r)) /\ UNCHANGED dg
               \/ Terima(r) /\ IkutEfek(r.dari)
        <3>1. UNCHANGED diagram
            BY <2>4 DEF Periksa, BacaUlang, TerimaTolak, Gangguan, Terima, varsServer
        <3> QED
            BY <1>1, <2>4, <3>1, ProsedurUInv
    <2> QED
        BY <1>4, <2>1, <2>2, <2>3, <2>4 DEF LangkahPermintaanD
<1> QED
    BY <1>2, <1>3, <1>4 DEF NextD

\* For one editor, whatever saves of his are under way, lost or late: what is
\* stored of a kind is never replaced by an older slice (DiagramTakMundur).
THEOREM GambarTakMundur ==
    ASSUME NEW c, Penyunting = {c}
    PROVE  SpecD => DiagramTakMundur
<1>1. InitD => UInv(c)
    BY InitUInv
<1>2. IInvD /\ UInv(c) /\ [NextD]_varsD => UInv(c)'
    BY LangkahUInv
<1>3. ASSUME IInvD, UInv(c), [NextD]_varsD
      PROVE  \A j \in Jenis :
                 LET lama == diagram.isi[j].isi
                     baru == diagram'.isi[j].isi
                 IN  lama # Kosong /\ baru # Kosong /\ lama[1] = baru[1] => baru[2] >= lama[2]
    <2> TAKE j \in Jenis
    <2> DEFINE lama == diagram.isi[j].isi
               baru == diagram'.isi[j].isi
    <2> SUFFICES ASSUME lama # Kosong, baru # Kosong PROVE baru[2] >= lama[2]
        OBVIOUS
    <2>1. Umur(lama) =< Umur(baru)
        BY <1>3, LangkahUInv
    <2>2. Umur(lama) = lama[2] /\ Umur(baru) = baru[2]
        BY DEF Umur
    <2>3. Umur(lama) \in Nat /\ Umur(baru) \in Nat
        <3>1. IInvD'
            BY <1>3, NextIInvD
        <3>2. lama \in Isi /\ baru \in Isi
            BY <1>3, <3>1 DEF IInvD, IInv, TypeOKE
        <3> QED
            BY <3>2, UmurNat
    <2> HIDE DEF lama, baru
    <2> QED
        BY <2>1, <2>2, <2>3
<1>4. IInvD /\ UInv(c) /\ [NextD]_varsD =>
          [\A j \in Jenis :
               LET lama == diagram.isi[j].isi
                   baru == diagram'.isi[j].isi
               IN  lama # Kosong /\ baru # Kosong /\ lama[1] = baru[1] => baru[2] >= lama[2]]_varsD
    BY <1>3
<1> QED
    BY <1>1, <1>2, <1>4, InduktifD, PTL DEF SpecD, DiagramTakMundur

-----------------------------------------------------------------------------
(***************************************************************************)
(* Whoever waits has something to wait for: the flush of handleComplete a  *)
(* write of its own under way, a diagram that is saving a request, and a   *)
(* diagram about to be saved its timer.                                    *)
(***************************************************************************)
SiramSah(p) == p.serah = "siram" => p.kirim

\* What a step does to a page that waits, and to one that has handed in.
Lanjut(c) ==
    /\ SiramSah(pn[c]) => SiramSah(pn'[c])
    /\ pn[c].serah = "selesai" => pn'[c].serah = "selesai"

\* drain and a failure wake the flush when they end the run.
LEMMA KurasLanjut ==
    ASSUME NEW p \in Penulis, NEW aktif \in BOOLEAN, NEW akhir \in StatusSimpan
    PROVE  /\ SiramSah(Kuras(p, aktif, akhir)) /\ SiramSah(Gagal(p))
           /\ p.serah = "selesai" => /\ Kuras(p, aktif, akhir).serah = "selesai"
                                     /\ Gagal(p).serah = "selesai"
<1>1. SiramSah(Kuras(p, aktif, akhir)) /\ SiramSah(Gagal(p))
    BY DEF Kuras, Gagal, SiramSah, Penulis
<1>2. p.serah = "selesai" => /\ Kuras(p, aktif, akhir).serah = "selesai"
                             /\ Gagal(p).serah = "selesai"
    BY DEF Kuras, Gagal, Penulis
<1> QED
    BY <1>1, <1>2

LEMMA LamanLanjut ==
    ASSUME IInv, NEW c \in Penyunting, LangkahLaman(c)
    PROVE  Lanjut(c)
<1> DEFINE o == [pn[c] EXCEPT !.tick = FALSE]
<1>1. /\ o \in Penulis /\ o.serah = pn[c].serah /\ pn[c] \in Penulis
      /\ pn[c].status \in StatusSimpan /\ Aktif(c) \in BOOLEAN
    <2>1. pn[c] \in Penulis /\ wb[c] \in Tampak \cup {Kosong}
        BY LamanAwal
    <2>2. Aktif(c) \in BOOLEAN
        BY <2>1 DEF Aktif, AktifDi, Tampak
    <2> QED
        BY <2>1, <2>2 DEF Penulis
<1>2. CASE Buka(c) \/ BacaSegar(c)
    BY <1>2 DEF Buka, BacaSegar, Lanjut
<1>3. CASE Ubah(c)
    <2>1. PICK u \in Ruas, isi \in Isi : pn' = [pn EXCEPT ![c] = Efek(Sunting(pn[c], u, isi), TRUE)]
        BY <1>3, UbahPilih
    <2> DEFINE q == Sunting(pn[c], u, isi)
    <2>2. pn[c].draf \in Naskah
        BY <1>3, LamanAwal DEF Ubah, Aktif, AktifDi, LamanSah
    <2>3. q \in Penulis /\ q.serah = pn[c].serah /\ q.kirim = pn[c].kirim
        <3>1. pn[c] \in Penulis
            BY <1>1
        <3> QED
            BY <2>2, <3>1, SuntingSifat
    <2>4. pn'[c] = Efek(q, TRUE)
        BY <2>1 DEF IInv, TypeOKE
    <2> HIDE DEF q
    <2>5. Efek(q, TRUE).serah = q.serah /\ Efek(q, TRUE).kirim = q.kirim
        BY <2>3, EfekSifat
    <2> QED
        BY <2>3, <2>4, <2>5 DEF Lanjut, SiramSah
<1>4. CASE Tenggat(c) \/ Siram(c)
    <2>1. \E aktif \in BOOLEAN : pn'[c] = Kuras(o, aktif, pn[c].status)
        <3>1. CASE Tenggat(c)
            <4>1. pn' = [pn EXCEPT ![c] = Kuras(o, Aktif(c), pn[c].status)]
                BY <3>1 DEF Tenggat
            <4> QED
                BY <1>1, <4>1 DEF IInv, TypeOKE
        <3>2. CASE Siram(c)
            <4>1. pn' = [pn EXCEPT ![c] = Kuras(o, TRUE, pn[c].status)]
                BY <3>2 DEF Siram
            <4> QED
                BY <4>1 DEF IInv, TypeOKE
        <3> QED
            BY <1>4, <3>1, <3>2
    <2> HIDE DEF o
    <2> QED
        BY <1>1, <2>1, KurasLanjut DEF Lanjut
<1>5. CASE Selesaikan(c)
    <2> DEFINE u == [pn[c] EXCEPT !.tick = FALSE, !.serah = "siram"]
    <2>1. u \in Penulis /\ u.kirim = pn[c].kirim /\ u.status \in StatusSimpan
        BY <1>1 DEF Penulis
    <2>2. pn'[c] = Gabung(u) /\ pn[c].serah # "selesai"
        BY <1>5 DEF Selesaikan, IInv, TypeOKE
    <2> HIDE DEF u
    <2>3. \/ pn'[c] = u /\ u.kirim
          \/ pn'[c] = Kuras(u, TRUE, u.status)
        BY <2>2 DEF Gabung
    <2> QED
        BY <2>1, <2>2, <2>3, KurasLanjut DEF Lanjut, SiramSah
<1>6. CASE Serahkan(c)
    <2>1. \/ pn'[c] = [pn[c] EXCEPT !.serah = "selesai", !.tick = FALSE]
          \/ pn'[c] = [pn[c] EXCEPT !.serah = "tidak"]
        BY <1>6 DEF Serahkan, IInv, TypeOKE
    <2>2. pn'[c].serah # "siram" /\ pn[c].serah # "selesai"
        BY <1>1, <1>6, <2>1 DEF Serahkan, Penulis
    <2> QED
        BY <2>2 DEF Lanjut, SiramSah
<1>7. CASE Segar(c)
    <2>1. pn'[c] = EfekBila(pn[c], wb[c], segar[c]) /\ segar[c] \in Tampak
        BY <1>7, LamanAwal DEF Segar, IInv, TypeOKE
    <2>2. pn'[c].serah = pn[c].serah /\ pn'[c].kirim = pn[c].kirim
        BY <2>1, LamanAwal, EfekBilaSifat
    <2> QED
        BY <2>2 DEF Lanjut, SiramSah
<1>8. CASE Muat(c)
    <2>1. pn'[c] = [pn[c] EXCEPT !.muat = prosedur.isi, !.gen = prosedur.gen,
                                 !.draf = prosedur.isi, !.dasar = prosedur.isi]
        BY <1>8 DEF Muat, IInv, TypeOKE
    <2>2. pn'[c].serah = pn[c].serah /\ pn'[c].kirim = pn[c].kirim
        BY <1>1, <2>1 DEF Penulis
    <2> QED
        BY <2>2 DEF Lanjut, SiramSah
<1> QED
    BY <1>2, <1>3, <1>4, <1>5, <1>6, <1>7, <1>8 DEF LangkahLaman

LEMMA JawabLanjut ==
    ASSUME IInv, NEW r \in minta, LangkahPermintaan(r) \/ TerimaDiagram(r), NEW c \in Penyunting
    PROVE  Lanjut(c)
<1>0. r \in Permintaan /\ pn[c] \in Penulis
    BY LamanAwal DEF IInv, TypeOKE
<1>1. CASE Periksa(r) \/ TulisProsedur(r) \/ BacaUlang(r)
    BY <1>1 DEF Periksa, TulisProsedur, BacaUlang, Lanjut
<1>2. CASE TerimaTolak(r) \/ Gangguan(r)
    <2>1. pn' = [pn EXCEPT ![r.dari] = Gagal(@)]
        BY <1>2 DEF TerimaTolak, Gangguan
    <2>2. pn'[c] = pn[c] \/ pn'[c] = Gagal(pn[c])
        BY <2>1 DEF IInv, TypeOKE
    <2>3. SiramSah(Gagal(pn[c])) /\ (pn[c].serah = "selesai" => Gagal(pn[c]).serah = "selesai")
        BY <1>0, KurasLanjut DEF StatusSimpan
    <2> QED
        BY <2>2, <2>3 DEF Lanjut
<1>3. CASE (Terima(r) \/ TerimaDiagram(r)) /\ c # r.dari
    BY <1>3 DEF Terima, TerimaDiagram, Lanjut, IInv, TypeOKE
<1>4. CASE Terima(r) /\ c = r.dari
    <2> DEFINE o == Tersimpan(pn[c], r)
               q == Kuras(o, Aktif(c), "tenang")
    <2>1. r.lihat \in Tampak /\ r.isi \in Naskah /\ pn[c].kirim
        BY <1>4, TanpaTunggu DEF Terima, MilikProsedur, IInv, TypeOKE, PermintaanSah, Permintaan
    <2>2. /\ o \in Penulis /\ o.muat = pn[c].muat /\ o.tick = pn[c].tick /\ o.serah = pn[c].serah
          /\ o.draf = pn[c].draf /\ o.dasar = r.isi
        BY <2>1, LamanAwal DEF Tersimpan, Penulis, NaskahMungkin
    <2>3. pn'[c] = EfekBila(q, wb[c], r.lihat)
        BY <1>4 DEF Terima, IInv, TypeOKE
    <2>4. Aktif(c) \in BOOLEAN /\ (Aktif(c) <=> AktifDi(o, wb[c]))
        BY <2>2, LamanAwal DEF Aktif, AktifDi, Tampak
    <2> HIDE DEF o
    <2>5. /\ q \in Penulis /\ Tetap(q, o) /\ q.tick = o.tick
          /\ q.kirim <=> Aktif(c) /\ Kotor(o)
          /\ q.serah = o.serah \/ (q.serah = "kirim" /\ o.serah = "siram" /\ ~q.kirim)
        <3>1. o \in Penulis /\ Aktif(c) \in BOOLEAN /\ "tenang" \in StatusSimpan
            BY <2>2, <2>4 DEF StatusSimpan
        <3> QED
            BY <3>1, KurasSifat
    <2>s. SiramSah(q)
        BY <2>2, <2>4, KurasLanjut DEF StatusSimpan
    <2> HIDE DEF q
    <2>6. LamanSah(q, wb[c])
        BY <2>1, <2>2, <2>4, <2>5, LamanAwal DEF LamanSah, AktifDi, Kotor, Tetap
    <2>7. pn'[c].serah = q.serah /\ pn'[c].kirim = q.kirim
        BY <2>1, <2>3, <2>5, <2>6, LamanAwal, EfekBilaSifat
    <2> QED
        BY <2>2, <2>5, <2>s, <2>7 DEF Lanjut, SiramSah
<1>5. CASE TerimaDiagram(r) /\ c = r.dari
    <2>1. r.lihat \in Tampak
        BY <1>0, <1>5 DEF TerimaDiagram, IInv, TypeOKE, Permintaan
    <2>2. pn'[c] = EfekBila(pn[c], wb[c], r.lihat)
        BY <1>5 DEF TerimaDiagram, IInv, TypeOKE
    <2>3. pn'[c].serah = pn[c].serah /\ pn'[c].kirim = pn[c].kirim
        BY <2>1, <2>2, LamanAwal, EfekBilaSifat
    <2> QED
        BY <2>3 DEF Lanjut, SiramSah
<1> QED
    BY <1>1, <1>2, <1>3, <1>4, <1>5 DEF LangkahPermintaan

\* Every step of the editor with its diagram.
LEMMA NextLanjut ==
    ASSUME IInvD, [NextD]_varsD, NEW c \in Penyunting
    PROVE  Lanjut(c)
<1>0. IInv
    BY DEF IInvD
<1>1. ASSUME UNCHANGED pn PROVE Lanjut(c)
    BY <1>1 DEF Lanjut
<1>2. ASSUME NEW d \in Penyunting, LangkahLamanD(d) PROVE Lanjut(c)
    <2>1. CASE LangkahLaman(d)
        <3>1. CASE c = d
            BY <1>0, <2>1, <3>1, LamanLanjut
        <3>2. CASE c # d
            <4>1. pn'[c] = pn[c]
                BY <1>0, <2>1, <3>2, LamanLain
            <4> QED
                BY <4>1 DEF Lanjut
        <3> QED
            BY <3>1, <3>2
    <2>2. CASE UbahDiagram(d) \/ PindahTab(d) \/ TenggatDiagram(d)
        BY <1>1, <2>2 DEF UbahDiagram, PindahTab, TenggatDiagram, varsE
    <2> QED
        BY <1>2, <2>1, <2>2 DEF LangkahLamanD, LangkahLaman, Hidrasi
<1>3. ASSUME NEW r \in minta, LangkahPermintaanD(r) PROVE Lanjut(c)
    <2>1. CASE LangkahPermintaan(r) \/ TerimaDiagram(r)
        BY <1>0, <2>1, JawabLanjut
    <2>2. CASE TulisDiagram(r) \/ TolakDiagram(r) \/ GangguanDiagram(r)
        BY <1>1, <2>2 DEF TulisDiagram, TolakDiagram, GangguanDiagram
    <2> QED
        BY <1>3, <2>1, <2>2 DEF LangkahPermintaanD, LangkahPermintaan
<1>4. CASE UNCHANGED varsD
    BY <1>1, <1>4 DEF varsD, varsE
<1> QED
    BY <1>2, <1>3, <1>4 DEF NextD

-----------------------------------------------------------------------------
\* Somebody waits for a save of the diagram of c.
Tersimpankan(c) == \E r \in minta : r.dari = c /\ MilikDiagram(r)

GambarTunggu(c) ==
    /\ pn[c].muat = Kosong => dg[c].status # "tunggu"
    /\ dg[c].status = "simpan" => Tersimpankan(c)
    /\ Aktif(c) /\ dg[c].status = "tunggu" => dg[c].tick /\ Slice(dg[c]) # dg[c].dasar

PInv == \A c \in Penyunting : SiramSah(pn[c]) /\ GambarTunggu(c)

\* The effect shows what it arms, and takes no save back.
LEMMA EfekDiagramTunggu ==
    ASSUME NEW d \in Gambar, NEW aktif \in BOOLEAN
    PROVE  LET e == EfekDiagram(d, aktif)
           IN  /\ e.status = "simpan" => d.status = "simpan"
               /\ aktif /\ e.status = "tunggu" => e.tick /\ Slice(e) # e.dasar
               /\ ~aktif => e.status = d.status
<1>1. CASE ~aktif
    BY <1>1 DEF EfekDiagram, Gambar
<1>2. CASE aktif /\ Slice(d) = d.dasar
    BY <1>2 DEF EfekDiagram, Gambar
<1>3. CASE aktif /\ Slice(d) # d.dasar
    <2> DEFINE e == EfekDiagram(d, aktif)
    <2>1. e = [d EXCEPT !.tick = TRUE, !.status = IF d.status = "simpan" THEN "simpan" ELSE "tunggu"]
        BY <1>3 DEF EfekDiagram
    <2>2. /\ e.tick /\ e.konfig = d.konfig /\ e.tab = d.tab /\ e.dasar = d.dasar
          /\ e.status = "simpan" => d.status = "simpan"
        BY <2>1 DEF Gambar
    <2> HIDE DEF e
    <2>3. Slice(e) # e.dasar
        BY <1>3, <2>2 DEF Slice
    <2> QED
        BY <1>3, <2>2, <2>3 DEF e
<1> QED
    BY <1>1, <1>2, <1>3

\* A step that leaves the diagram of c alone and does not make the page active.
LEMMA DiamTunggu ==
    ASSUME NEW c \in Penyunting, GambarTunggu(c), dg'[c] = dg[c],
           pn'[c].muat = pn[c].muat, Aktif(c)' => Aktif(c), Tersimpankan(c) => Tersimpankan(c)'
    PROVE  GambarTunggu(c)'
BY DEF GambarTunggu, Slice

\* A step after which the diagram of c is e, which the effect has seen.
LEMMA EfekTunggu ==
    ASSUME IInvD, NEW c \in Penyunting, NEW d \in Gambar,
           LET aktif == AktifDi(pn'[c], wb'[c])
           IN  dg'[c] = IF aktif = Aktif(c) THEN d ELSE EfekDiagram(d, aktif),
           wb'[c] \in Tampak \cup {Kosong},
           d.status = "simpan" => Tersimpankan(c)',
           pn'[c].muat = Kosong => d.status # "tunggu",
           Aktif(c) /\ d.status = "tunggu" => d.tick /\ Slice(d) # d.dasar
    PROVE  GambarTunggu(c)'
<1> DEFINE aktif == AktifDi(pn'[c], wb'[c])
<1>1. aktif \in BOOLEAN /\ (aktif => pn'[c].muat # Kosong) /\ (Aktif(c)' <=> aktif)
    BY DEF AktifDi, Aktif, Tampak
<1>2. CASE aktif = Aktif(c)
    <2>1. dg'[c] = d /\ (Aktif(c)' <=> Aktif(c))
        BY <1>1, <1>2
    <2> QED
        BY <2>1 DEF GambarTunggu, Slice
<1>3. CASE aktif # Aktif(c)
    <2> DEFINE e == EfekDiagram(d, aktif)
    <2>1. dg'[c] = e
        BY <1>3
    <2> HIDE DEF aktif
    <2>2. /\ e.status = "simpan" => d.status = "simpan"
          /\ aktif /\ e.status = "tunggu" => e.tick /\ Slice(e) # e.dasar
          /\ ~aktif => e.status = d.status
        BY <1>1, EfekDiagramTunggu
    <2> HIDE DEF e
    <2> QED
        BY <1>1, <2>1, <2>2 DEF GambarTunggu, Slice
<1> QED
    BY <1>2, <1>3

\* The steps of the procedure's editor on a page.
LEMMA BiasaTunggu ==
    ASSUME IInvD, NEW c \in Penyunting, NEW x \in Penyunting, GambarTunggu(x),
           \/ /\ Buka(c) \/ Ubah(c) \/ Tenggat(c) \/ Siram(c) \/ Selesaikan(c) \/ BacaSegar(c)
              /\ UNCHANGED dg
           \/ (Segar(c) \/ Serahkan(c)) /\ IkutEfek(c)
    PROVE  GambarTunggu(x)'
<1>1. IInv /\ IInv' /\ LangkahBiasa(c) /\ LangkahLaman(c)
    BY NextIInv DEF IInvD, NextE, LangkahLaman, LangkahBiasa
<1>2. pn'[x].muat = pn[x].muat
    BY <1>1, MuatTetap
<1>3. Tersimpankan(x) => Tersimpankan(x)'
    <2>1. minta \subseteq minta'
        BY DEF Buka, Ubah, Tenggat, Siram, Selesaikan, BacaSegar, Segar, Serahkan
    <2> QED
        BY <2>1 DEF Tersimpankan
<1>4. CASE x # c
    <2>1. pn'[x] = pn[x] /\ wb'[x] = wb[x] /\ dg'[x] = dg[x]
        <3>1. pn'[x] = pn[x]
            BY <1>1, <1>4, LamanLain
        <3>2. wb'[x] = wb[x]
            BY <1>4 DEF Buka, Ubah, Tenggat, Siram, Selesaikan, BacaSegar, Segar, Serahkan,
               IInvD, IInv, TypeOKE
        <3>3. dg'[x] = dg[x]
            BY <1>4 DEF IkutEfek, IInvD, TypeOKD
        <3> QED
            BY <3>1, <3>2, <3>3
    <2> QED
        BY <1>3, <2>1, DiamTunggu DEF Aktif
<1>5. CASE x = c /\ UNCHANGED dg
                /\ (Buka(c) \/ Ubah(c) \/ Tenggat(c) \/ Siram(c) \/ Selesaikan(c) \/ BacaSegar(c))
    <2>1. Aktif(c)' => Aktif(c)
        <3>1. CASE Buka(c)
            <4>1. pn[c].muat = Kosong /\ pn'[c] = pn[c]
                BY <1>1, <3>1, LamanAwal DEF Buka, LamanSah
            <4> QED
                BY <4>1 DEF Aktif, AktifDi
        <3>2. CASE ~Buka(c)
            <4>1. wb' = wb /\ pn'[c].muat = pn[c].muat /\ Lanjut(c)
                BY <1>1, <1>2, <1>5, <3>2, LamanLanjut
                   DEF Ubah, Tenggat, Siram, Selesaikan, BacaSegar
            <4> QED
                BY <4>1 DEF Lanjut, Aktif, AktifDi
        <3> QED
            BY <3>1, <3>2
    <2> QED
        BY <1>2, <1>3, <1>5, <2>1, DiamTunggu
<1>6. CASE x = c /\ IkutEfek(c)
    <2>1. dg[c] \in Gambar /\ wb'[c] \in Tampak \cup {Kosong}
        BY <1>1 DEF IInvD, TypeOKD, IInv, TypeOKE
    <2>2. LET aktif == AktifDi(pn'[c], wb'[c])
          IN  dg'[c] = IF aktif = Aktif(c) THEN dg[c] ELSE EfekDiagram(dg[c], aktif)
        BY <1>6 DEF IkutEfek, IInvD, TypeOKD
    <2> QED
        BY <1>2, <1>3, <1>6, <2>1, <2>2, EfekTunggu DEF GambarTunggu
<1> QED
    BY <1>4, <1>5, <1>6

\* The steps of the diagram on a page.
LEMMA DiagramTunggu ==
    ASSUME IInvD, NEW c \in Penyunting, NEW x \in Penyunting, GambarTunggu(x),
           Hidrasi(c) \/ UbahDiagram(c) \/ PindahTab(c) \/ TenggatDiagram(c)
    PROVE  GambarTunggu(x)'
<1>1. dg[c] \in Gambar
    BY DEF IInvD, TypeOKD
<1>2. Tersimpankan(x) => Tersimpankan(x)'
    <2>1. minta \subseteq minta'
        BY DEF Hidrasi, Muat, UbahDiagram, PindahTab, TenggatDiagram, varsE
    <2> QED
        BY <2>1 DEF Tersimpankan
<1>3. CASE x # c
    <2>1. dg'[x] = dg[x]
        BY <1>3 DEF Hidrasi, UbahDiagram, PindahTab, TenggatDiagram, IInvD, TypeOKD
    <2>2. pn'[x] = pn[x] /\ wb'[x] = wb[x]
        BY <1>3 DEF Hidrasi, Muat, UbahDiagram, PindahTab, TenggatDiagram, varsE, IInvD, IInv, TypeOKE
    <2> QED
        BY <1>2, <2>1, <2>2, DiamTunggu DEF Aktif
<1>4. CASE x = c /\ Hidrasi(c)
    <2>1. pn[c].muat = Kosong /\ dg'[c].status = dg[c].status
        <3>1. PICK j \in Jenis :
                  dg' = [dg EXCEPT ![c].tab = j, ![c].konfig = [k \in Jenis |-> diagram.isi[k].isi],
                                   ![c].dasar = diagram.isi[j].isi]
            BY <1>4 DEF Hidrasi
        <3>2. dg'[c] = [dg[c] EXCEPT !.tab = j, !.konfig = [k \in Jenis |-> diagram.isi[k].isi],
                                     !.dasar = diagram.isi[j].isi]
            BY <3>1 DEF IInvD, TypeOKD
        <3>3. dg'[c].status = dg[c].status
            BY <1>1, <3>2 DEF Gambar
        <3> QED
            BY <1>4, <3>3 DEF Hidrasi, Muat
    <2> QED
        BY <1>2, <1>4, <2>1 DEF GambarTunggu
<1>5. CASE x = c /\ UbahDiagram(c)
    <2> DEFINE o == Gambari(c, dg[c])
               e == EfekDiagram(o, TRUE)
    <2>1. o \in Gambar /\ o.status = dg[c].status
        <3> DEFINE y == dg[c]
                   isi == <<c, y.ke + 1>>
        <3>1. y \in Gambar /\ y.tab \in Jenis /\ y.ke + 1 \in Nat /\ isi \in Isi
            BY <1>1, <1>5 DEF UbahDiagram, Terhidrasi, Gambar, Isi
        <3>2. o = [y EXCEPT !.konfig = [y.konfig EXCEPT ![y.tab] = isi], !.ke = y.ke + 1]
            BY DEF Gambari
        <3> HIDE DEF y, isi
        <3>3. [y.konfig EXCEPT ![y.tab] = isi] \in [Jenis -> Isi]
            BY <3>1 DEF Gambar
        <3>4. o \in Gambar /\ o.status = y.status
            BY <3>1, <3>2, <3>3 DEF Gambar
        <3> QED
            BY <3>4 DEF y
    <2>2. dg'[c] = e
        BY <1>5 DEF UbahDiagram, IInvD, TypeOKD
    <2> HIDE DEF o
    <2>3. /\ e.status = "simpan" => o.status = "simpan"
          /\ e.status = "tunggu" => e.tick /\ Slice(e) # e.dasar
        BY <2>1, EfekDiagramTunggu
    <2> HIDE DEF e
    <2>4. pn' = pn /\ pn[c].muat # Kosong
        BY <1>5 DEF UbahDiagram, varsE, Aktif, AktifDi
    <2> QED
        BY <1>2, <1>5, <2>1, <2>2, <2>3, <2>4 DEF GambarTunggu, Slice
<1>6. CASE x = c /\ PindahTab(c)
    <2>1. PICK j \in Jenis :
              dg' = [dg EXCEPT ![c].tab = j, ![c].dasar = dg[c].konfig[j], ![c].tick = FALSE,
                               ![c].status = "tenang"]
        BY <1>6 DEF PindahTab
    <2>2. dg'[c] = [dg[c] EXCEPT !.tab = j, !.dasar = dg[c].konfig[j], !.tick = FALSE,
                                 !.status = "tenang"]
        BY <2>1 DEF IInvD, TypeOKD
    <2>3. dg'[c].status = "tenang"
        BY <1>1, <2>2 DEF Gambar
    <2> QED
        BY <1>6, <2>3 DEF GambarTunggu
<1>7. CASE x = c /\ TenggatDiagram(c)
    <2>0. pn' = pn /\ wb' = wb
        BY <1>7 DEF TenggatDiagram
    <2>1. CASE Aktif(c) /\ Slice(dg[c]) # dg[c].dasar
        <3>1. /\ dg'[c] = [dg[c] EXCEPT !.tick = FALSE, !.status = "simpan"]
              /\ minta' = minta \cup {PermintaanDiagram(c)}
            BY <1>7, <2>1 DEF TenggatDiagram, IInvD, TypeOKD
        <3>2. dg'[c].status = "simpan"
            BY <1>1, <3>1 DEF Gambar
        <3>3. Tersimpankan(c)'
            <4> DEFINE s == PermintaanDiagram(c)
            <4>1. s \in minta' /\ s.dari = c /\ s.bagian = "DIAGRAM" /\ s.ditunggu
                BY <3>1 DEF PermintaanDiagram
            <4> HIDE DEF s
            <4> QED
                BY <4>1 DEF Tersimpankan, MilikDiagram
        <3> QED
            BY <1>7, <3>2, <3>3 DEF GambarTunggu
    <2>2. CASE ~(Aktif(c) /\ Slice(dg[c]) # dg[c].dasar)
        <3>1. dg'[c] = [dg[c] EXCEPT !.tick = FALSE]
            BY <1>7, <2>2 DEF TenggatDiagram, IInvD, TypeOKD
        <3>2. dg'[c].status = dg[c].status
            BY <1>1, <3>1 DEF Gambar
        <3>3. Aktif(c)' <=> Aktif(c)
            BY <2>0 DEF Aktif
        <3> QED
            BY <1>2, <1>7, <2>0, <2>2, <3>2, <3>3 DEF GambarTunggu
    <2> QED
        BY <2>1, <2>2
<1> QED
    BY <1>3, <1>4, <1>5, <1>6, <1>7

\* The steps of requests up to their answer.
LEMMA ProsedurTunggu ==
    ASSUME IInvD, NEW r \in minta, NEW x \in Penyunting, GambarTunggu(x),
           \/ /\ Periksa(r) \/ TulisProsedur(r) \/ BacaUlang(r) \/ TerimaTolak(r) \/ Gangguan(r)
              /\ UNCHANGED dg
           \/ Terima(r) /\ IkutEfek(r.dari)
           \/ TulisDiagram(r)
    PROVE  GambarTunggu(x)'
<1>0. IInv /\ r \in Permintaan /\ r.dari \in Penyunting
    BY DEF IInvD, IInv, TypeOKE, Permintaan
<1>1. Tersimpankan(x) => Tersimpankan(x)'
    <2>1. minta \ {r} \subseteq minta'
        BY DEF Periksa, TulisProsedur, BacaUlang, TerimaTolak, Gangguan, Terima, TulisDiagram,
           Maju, Jika, Tolak, Selesai, Terlantar
    <2>2. ASSUME MilikDiagram(r) PROVE \E s \in minta' : s.dari = r.dari /\ MilikDiagram(s)
        <3>1. r.bagian = "DIAGRAM" /\ r.ditunggu
            BY <2>2 DEF MilikDiagram
        <3>2. Periksa(r) \/ BacaUlang(r) \/ TulisDiagram(r)
            BY <3>1 DEF TulisProsedur, TerimaTolak, Gangguan, Terima, MilikProsedur
        <3>3. \/ \E f \in FaseMinta : [r EXCEPT !.fase = f] \in minta'
              \/ [r EXCEPT !.fase = "jawab", !.lihat = Lihat] \in minta'
            BY <3>1, <3>2 DEF Periksa, BacaUlang, TulisDiagram, Maju, Jika, Tolak, Selesai, FaseMinta
        <3>4. \A f \in FaseMinta : LET s == [r EXCEPT !.fase = f]
                                   IN  s.dari = r.dari /\ s.bagian = r.bagian /\ s.ditunggu = r.ditunggu
            BY <1>0, FaseBaru DEF Serupa, Permintaan
        <3>5. LET s == [r EXCEPT !.fase = "jawab", !.lihat = Lihat]
              IN  s.dari = r.dari /\ s.bagian = r.bagian /\ s.ditunggu = r.ditunggu
            BY <1>0 DEF Permintaan
        <3> QED
            BY <3>1, <3>3, <3>4, <3>5 DEF MilikDiagram
    <2> QED
        BY <2>1, <2>2 DEF Tersimpankan
<1>2. pn'[x].muat = pn[x].muat
    <2>1. CASE LangkahPermintaan(r)
        BY <1>0, <2>1, PermintaanJujur
    <2>2. CASE TulisDiagram(r)
        BY <2>2 DEF TulisDiagram
    <2> QED
        BY <2>1, <2>2 DEF LangkahPermintaan
<1>3. CASE /\ Periksa(r) \/ TulisProsedur(r) \/ BacaUlang(r) \/ TerimaTolak(r) \/ Gangguan(r)
                 \/ TulisDiagram(r)
           /\ UNCHANGED dg
    <2>1. wb' = wb /\ Lanjut(x)
        <3>1. wb' = wb
            BY <1>3 DEF Periksa, TulisProsedur, BacaUlang, TerimaTolak, Gangguan, TulisDiagram
        <3>2. Lanjut(x)
            <4>1. CASE TulisDiagram(r)
                BY <4>1 DEF TulisDiagram, Lanjut
            <4>2. CASE LangkahPermintaan(r)
                BY <1>0, <4>2, JawabLanjut
            <4> QED
                BY <1>3, <4>1, <4>2 DEF LangkahPermintaan
        <3> QED
            BY <3>1, <3>2
    <2>2. Aktif(x)' => Aktif(x)
        BY <1>2, <2>1 DEF Lanjut, Aktif, AktifDi
    <2> QED
        BY <1>1, <1>2, <1>3, <2>2, DiamTunggu
<1>4. CASE Terima(r) /\ IkutEfek(r.dari) /\ x # r.dari
    <2>1. pn'[x] = pn[x] /\ wb'[x] = wb[x] /\ dg'[x] = dg[x]
        BY <1>4 DEF Terima, IkutEfek, IInvD, TypeOKD, IInv, TypeOKE
    <2> QED
        BY <1>1, <2>1, DiamTunggu DEF Aktif
<1>5. CASE Terima(r) /\ IkutEfek(r.dari) /\ x = r.dari
    <2>1. dg[x] \in Gambar /\ wb'[x] \in Tampak \cup {Kosong}
        <3>1. IInv'
            BY <1>0, <1>5, NextIInv DEF NextE, LangkahPermintaan
        <3> QED
            BY <3>1 DEF IInvD, TypeOKD, IInv, TypeOKE
    <2>2. LET aktif == AktifDi(pn'[x], wb'[x])
          IN  dg'[x] = IF aktif = Aktif(x) THEN dg[x] ELSE EfekDiagram(dg[x], aktif)
        BY <1>5 DEF IkutEfek, IInvD, TypeOKD
    <2> QED
        BY <1>1, <1>2, <2>1, <2>2, EfekTunggu DEF GambarTunggu
<1> QED
    BY <1>3, <1>4, <1>5 DEF TulisDiagram

\* The answer to a save of the diagram, or its failure.
LEMMA JawabTunggu ==
    ASSUME IInvD, NEW r \in minta, NEW x \in Penyunting, GambarTunggu(x),
           TerimaDiagram(r) \/ TolakDiagram(r) \/ GangguanDiagram(r)
    PROVE  GambarTunggu(x)'
<1>0. r \in Permintaan /\ r.dari \in Penyunting /\ dg[r.dari] \in Gambar /\ r.gambar \in Isi
    BY DEF IInvD, TypeOKD, IInv, TypeOKE, Permintaan
<1>1. CASE x # r.dari
    <2>1. pn'[x] = pn[x] /\ wb'[x] = wb[x] /\ dg'[x] = dg[x]
        BY <1>1 DEF TerimaDiagram, TolakDiagram, GangguanDiagram, IInvD, TypeOKD, IInv, TypeOKE
    <2>2. minta \ {r} \subseteq minta'
        BY DEF TerimaDiagram, TolakDiagram, GangguanDiagram, Terlantar
    <2>3. Tersimpankan(x) => Tersimpankan(x)'
        BY <1>1, <2>2 DEF Tersimpankan
    <2> QED
        BY <2>1, <2>3, DiamTunggu DEF Aktif
<1>2. CASE x = r.dari /\ (TolakDiagram(r) \/ GangguanDiagram(r))
    <2>1. dg'[x] = GagalDiagram(dg[x])
        BY <1>2 DEF TolakDiagram, GangguanDiagram, IInvD, TypeOKD
    <2>2. dg'[x].status = "galat"
        BY <1>0, <1>2, <2>1 DEF GagalDiagram, Gambar
    <2> QED
        BY <2>2 DEF GambarTunggu
<1>3. CASE x = r.dari /\ TerimaDiagram(r)
    <2> DEFINE d == [dg[x] EXCEPT !.dasar = r.gambar, !.status = "tenang"]
    <2>1. d \in Gambar /\ d.status = "tenang"
        BY <1>0, <1>3 DEF Gambar, StatusSimpan
    <2>2. wb'[x] = r.lihat /\ r.lihat \in Tampak /\ pn'[x] = EfekBila(pn[x], wb[x], r.lihat)
        BY <1>0, <1>3 DEF TerimaDiagram, IInvD, IInv, TypeOKE, Permintaan
    <2>3. pn'[x].muat = pn[x].muat /\ pn'[x].serah = pn[x].serah
        BY <2>2, LamanAwal, EfekBilaSifat DEF Tetap, IInvD
    <2>4. LET aktif == AktifDi(pn'[x], wb'[x])
          IN  dg'[x] = IF aktif = Aktif(x) THEN d ELSE EfekDiagram(d, aktif)
        <3>1. AktifDi(pn'[x], wb'[x]) = AktifDi(pn[x], r.lihat)
            BY <2>2, <2>3 DEF AktifDi
        <3> QED
            BY <1>3, <3>1 DEF TerimaDiagram, IInvD, TypeOKD
    <2> HIDE DEF d
    <2> QED
        BY <2>1, <2>2, <2>4, EfekTunggu
<1> QED
    BY <1>1, <1>2, <1>3

LEMMA NextPInv == ASSUME IInvD, PInv, [NextD]_varsD PROVE PInv'
<1> SUFFICES ASSUME NEW x \in Penyunting PROVE SiramSah(pn'[x]) /\ GambarTunggu(x)'
    BY DEF PInv, SiramSah
<1>0. SiramSah(pn[x]) /\ GambarTunggu(x)
    BY DEF PInv
<1>1. SiramSah(pn'[x])
    BY <1>0, NextLanjut DEF Lanjut
<1>2. ASSUME NEW c \in Penyunting, LangkahLamanD(c) PROVE GambarTunggu(x)'
    BY <1>0, <1>2, BiasaTunggu, DiagramTunggu DEF LangkahLamanD
<1>3. ASSUME NEW r \in minta, LangkahPermintaanD(r) PROVE GambarTunggu(x)'
    BY <1>0, <1>3, ProsedurTunggu, JawabTunggu DEF LangkahPermintaanD
<1>4. CASE UNCHANGED varsD
    BY <1>0, <1>4 DEF varsD, varsE, GambarTunggu, Tersimpankan, Aktif, Slice
<1> QED
    BY <1>1, <1>2, <1>3, <1>4 DEF NextD

\* What the screens of the editors promise.
PenantianSah ==
    \A c \in Penyunting :
        /\ pn[c].serah = "siram" => \E r \in minta : r.dari = c /\ MilikProsedur(r)
        /\ dg[c].status = "simpan" => \E r \in minta : r.dari = c /\ MilikDiagram(r)
        /\ Aktif(c) /\ dg[c].status = "tunggu" => dg[c].tick /\ Slice(dg[c]) # dg[c].dasar

\* Nobody waits for what is not coming: handleComplete waits for its flush only while a
\* write of its page is under way, a diagram shows that it is saving only while a save
\* is, and that it is about to only with its timer armed for edits not saved.
THEOREM PenantianBersebab == SpecD => []PenantianSah
<1>1. InitD => PInv
    BY DEF InitD, InitE, PInv, SiramSah, GambarTunggu, PenulisBaru, DiagramBaru
<1>2. IInvD /\ PInv /\ [NextD]_varsD => PInv'
    BY NextPInv
<1>3. IInvD /\ PInv => PenantianSah
    <2> SUFFICES ASSUME IInvD, PInv PROVE PenantianSah
        OBVIOUS
    <2>1. \A c \in Penyunting : pn[c].serah = "siram" => Menunggu(c) # {}
        BY DEF PInv, SiramSah, IInvD, IInv, Tunggal
    <2> QED
        BY <2>1 DEF PenantianSah, PInv, GambarTunggu, Tersimpankan, Menunggu
<1> QED
    BY <1>1, <1>2, <1>3, InduktifD, PTL DEF SpecD

=============================================================================
