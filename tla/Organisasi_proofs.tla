--------------------------- MODULE Organisasi_proofs ---------------------------
(***************************************************************************)
(* However many OPDs, accounts and requests there are: the history of an   *)
(* account agrees with its OPD, and, while requests do not overlap, an OPD *)
(* has one active Kepala and keeps no active account once it is deleted.   *)
(***************************************************************************)
EXTENDS Organisasi, TLAPS

-----------------------------------------------------------------------------
(***************************************************************************)
(* The inductive invariant.                                                *)
(***************************************************************************)
\* The active row is a row.
BarisAda == \A u \in Pengguna : riwayat[u].aktif \subseteq riwayat[u].baris

\* Without an overlap at most one request is being served.
Tunggal ==
    ~tumpang => \A p, q \in Permintaan : tx[p] # Kosong /\ tx[q] # Kosong => p = q

\* Inactive accounts count too: their history names the OPD.
AkunDiOpdHidup ==
    ~tumpang => \A u \in Pengguna : akun[u] # Kosong => opd[akun[u].opd] = "aktif"

\* What the check of a create, an update, a move or a deletion still guarantees
\* when it is written.
BuatSah(t) ==
    ~tumpang => /\ opd[t.opd] = "aktif"
                /\ t.peran = "KEPALA_OPD" => SlotKosong("KEPALA_OPD", t.opd, {})

UbahSah(t) ==
    /\ Terdaftar(t.u, Peran)
    /\ akun[t.u].peran = "KEPALA_OPD" => t.peran = Kosong /\ t.st = "NONAKTIF"

PindahSah(t) ==
    /\ Terdaftar(t.u, Peran)
    /\ akun[t.u].peran # "KEPALA_OPD" =>
           t.tujuan # Kosong /\ t.sinkron = Kosong /\ t.st = Kosong
    /\ ~tumpang =>
           /\ t.tujuan # Kosong => t.sinkron = Kosong /\ opd[t.tujuan] = "aktif"
           /\ t.sinkron \in {Kosong, akun[t.u].opd}
           /\ akun[t.u].peran = "KEPALA_OPD" =>
                  /\ t.tujuan # Kosong => SlotKosong("KEPALA_OPD", t.tujuan, {t.u})
                  /\ t.st = "AKTIF" /\ ~akun[t.u].aktif =>
                         t.tujuan = Kosong /\ SlotKosong("KEPALA_OPD", akun[t.u].opd, {t.u})

HapusSah(t) == ~tumpang => TanpaRelasi(t.opd)

Sah(t) ==
    /\ t.op = "buat" => BuatSah(t)
    /\ t.op = "ubah" => UbahSah(t)
    /\ t.op = "pindah" => PindahSah(t)
    /\ t.op = "hapusOpd" => HapusSah(t)

TxSah == \A p \in Permintaan : tx[p] # Kosong => Sah(tx[p])

IInv ==
    /\ TypeOK
    /\ BarisAda
    /\ RiwayatSelaras
    /\ Tunggal
    /\ AkunDiOpdHidup
    /\ SatuKepalaPerOpd
    /\ TxSah

-----------------------------------------------------------------------------
(***************************************************************************)
(* The checks: nothing is written, the request only remembers what it saw. *)
(***************************************************************************)
LEMMA InitIInv == Init => IInv
<1> SUFFICES ASSUME Init PROVE IInv
    OBVIOUS
<1>1. TypeOK
    BY DEF Init, TypeOK, TanpaRiwayat
<1>2. BarisAda /\ RiwayatSelaras /\ AkunDiOpdHidup
    BY DEF Init, BarisAda, RiwayatSelaras, AkunDiOpdHidup, Terdaftar, TanpaRiwayat
<1>3. SatuKepalaPerOpd
    BY DEF Init, SatuKepalaPerOpd, Pejabat, Terdaftar
<1>4. Tunggal /\ TxSah
    BY DEF Init, Tunggal, TxSah
<1> QED
    BY <1>1, <1>2, <1>3, <1>4 DEF IInv

\* A request that starts with a sound check keeps the invariant: an overlap only
\* takes promises back.
LEMMA MulaiIInv ==
    ASSUME IInv, NEW p \in Permintaan, NEW t \in Transaksi, Mulai(p, t), Sah(t)
    PROVE  IInv'
<1> USE DEF IInv
<1>0. /\ UNCHANGED <<opd, akun, riwayat>>
      /\ tx' = [tx EXCEPT ![p] = t]
      /\ tumpang => tumpang'
      /\ ~tumpang' => \A q \in Permintaan \ {p} : tx[q] = Kosong
    BY DEF Mulai, TypeOK
<1>1. TypeOK'
    <2>1. tumpang' \in BOOLEAN
        BY DEF TypeOK, Mulai
    <2> QED
        BY <2>1, <1>0 DEF TypeOK
<1>2. BarisAda' /\ RiwayatSelaras' /\ AkunDiOpdHidup' /\ SatuKepalaPerOpd'
    <2>1. BarisAda' /\ AkunDiOpdHidup'
        BY <1>0 DEF BarisAda, AkunDiOpdHidup
    <2>2. RiwayatSelaras'
        BY <1>0 DEF RiwayatSelaras, Terdaftar, Peran
    <2>3. SatuKepalaPerOpd'
        BY <1>0 DEF SatuKepalaPerOpd, Pejabat, Terdaftar
    <2> QED
        BY <2>1, <2>2, <2>3
<1>3. Tunggal'
    BY <1>0 DEF Tunggal, TypeOK
<1>4. TxSah'
    <2> SUFFICES ASSUME NEW q \in Permintaan, tx'[q] # Kosong
                 PROVE  Sah(tx[q])'
        BY DEF TxSah
    <2>1. tx'[q] = t \/ (tx'[q] = tx[q] /\ tx[q] # Kosong)
        BY <1>0 DEF TypeOK
    <2>2. Sah(tx'[q])
        BY <2>1 DEF TxSah
    <2>3. Sah(tx[q])'
        BY <2>2, <1>0 DEF Sah, BuatSah, UbahSah, PindahSah, HapusSah,
                          SlotKosong, Pejabat, Terdaftar, TanpaRelasi
    <2> QED
        BY <2>3
<1> QED
    BY <1>1, <1>2, <1>3, <1>4
\* create: the OPD is active and its slot was free.
LEMMA MulaiBuatIInv ==
    ASSUME IInv, NEW p \in Permintaan, NEW u \in Pengguna, NEW peran \in Peran,
           NEW o \in Opd, MulaiBuat(p, u, peran, o)
    PROVE  IInv'
<1> DEFINE t == [op |-> "buat", u |-> u, peran |-> peran, opd |-> o]
<1>1. t \in Transaksi
    BY DEF Transaksi
<1>2. Sah(t)
    BY DEF Sah, BuatSah, MulaiBuat, PeranPenyusun
<1>3. Mulai(p, t)
    BY DEF MulaiBuat
<1> QED
    BY <1>1, <1>2, <1>3, MulaiIInv

\* update, nonaktifkan, aktifkan, remove: only a penyusun is reactivated this way.
LEMMA MulaiUbahIInv ==
    ASSUME IInv, NEW p \in Permintaan, NEW u \in Pengguna,
           NEW peran \in PeranPenyusun \cup {Kosong}, NEW st \in Status \cup {Kosong},
           \/ MulaiUbahPenyusun(p, u, peran, st)
           \/ MulaiNonaktifkan(p, u)
           \/ MulaiAktifkan(p, u)
           \/ MulaiHapusKepala(p, u)
    PROVE  IInv'
<1>1. SUFFICES ASSUME NEW r \in PeranPenyusun \cup {Kosong}, NEW s \in Status \cup {Kosong},
                      Mulai(p, Ubahan(u, r, s)), Terdaftar(u, Peran),
                      akun[u].peran = "KEPALA_OPD" => r = Kosong /\ s = "NONAKTIF"
               PROVE  IInv'
    BY DEF MulaiUbahPenyusun, MulaiNonaktifkan, MulaiAktifkan, MulaiHapusKepala,
           Terdaftar, Peran, PeranPenyusun, Status
<1>2. Ubahan(u, r, s) \in Transaksi
    BY DEF Ubahan, Transaksi
<1>3. Sah(Ubahan(u, r, s))
    BY <1>1 DEF Sah, UbahSah, Ubahan
<1> QED
    BY <1>1, <1>2, <1>3, MulaiIInv

\* pindah: a penyusun moves to another, active OPD.
LEMMA MulaiPindahIInv ==
    ASSUME IInv, NEW p \in Permintaan, NEW u \in Pengguna, NEW o \in Opd,
           MulaiPindah(p, u, o)
    PROVE  IInv'
<1> DEFINE t == Pindahan(u, akun[u].opd, o, Kosong, Kosong)
<1>0. akun[u] \in Akun
    BY DEF IInv, TypeOK, MulaiPindah, Terdaftar
<1>1. t \in Transaksi
    BY <1>0 DEF Transaksi, Pindahan, Akun
<1>2. Sah(t)
    BY KosongAssumption DEF Sah, PindahSah, Pindahan, MulaiPindah, Terdaftar, PeranPenyusun, Peran
<1>3. Mulai(p, t)
    BY DEF MulaiPindah
<1> QED
    BY <1>1, <1>2, <1>3, MulaiIInv

\* update of a Kepala OPD: who moves is active, who comes back stays in the OPD.
LEMMA MulaiUbahKepalaIInv ==
    ASSUME IInv, NEW p \in Permintaan, NEW u \in Pengguna, NEW o \in Opd \cup {Kosong},
           NEW st \in Status \cup {Kosong}, MulaiUbahKepala(p, u, o, st)
    PROVE  IInv'
<1> DEFINE pindah == o \notin {Kosong, akun[u].opd}
           tujuan == IF pindah THEN o ELSE Kosong
           kembali == st = "AKTIF" /\ ~akun[u].aktif
           sinkron == IF kembali THEN akun[u].opd ELSE Kosong
           t == Pindahan(u, akun[u].opd, tujuan, st, sinkron)
<1>0. akun[u] \in Akun /\ akun[u].peran = "KEPALA_OPD"
    BY DEF IInv, TypeOK, MulaiUbahKepala, Terdaftar
<1>1. t \in Transaksi
    <2>1. /\ akun[u].opd \in Opd
          /\ tujuan \in Opd \cup {Kosong}
          /\ sinkron \in Opd \cup {Kosong}
        BY <1>0 DEF Akun
    <2> HIDE DEF tujuan, sinkron
    <2> QED
        BY <2>1 DEF Transaksi, Pindahan
<1>2. Sah(t)
    <2>1. Terdaftar(u, Peran)
        BY DEF MulaiUbahKepala, Terdaftar, Peran
    <2>2. tujuan # Kosong => /\ akun[u].aktif /\ opd[tujuan] = "aktif"
                             /\ SlotKosong("KEPALA_OPD", tujuan, {u})
        BY DEF MulaiUbahKepala
    <2>3. kembali => SlotKosong("KEPALA_OPD", akun[u].opd, {u})
        BY DEF MulaiUbahKepala, BolehKembali
    <2>4. sinkron \in {Kosong, akun[u].opd} /\ (akun[u].aktif => sinkron = Kosong)
        OBVIOUS
    <2> HIDE DEF tujuan, sinkron
    <2>5. PindahSah(t)
        BY <1>0, <2>1, <2>2, <2>3, <2>4 DEF PindahSah, Pindahan
    <2> QED
        BY <2>5 DEF Sah, Pindahan
<1>3. Mulai(p, t)
    BY DEF MulaiUbahKepala
<1> HIDE DEF t
<1> QED
    BY <1>1, <1>2, <1>3, MulaiIInv

\* softDelete of an OPD: nothing is related to it.
LEMMA MulaiHapusOpdIInv ==
    ASSUME IInv, NEW p \in Permintaan, NEW o \in Opd, MulaiHapusOpd(p, o)
    PROVE  IInv'
<1> DEFINE t == [op |-> "hapusOpd", opd |-> o]
<1>1. t \in Transaksi /\ Sah(t) /\ Mulai(p, t)
    BY DEF Transaksi, Sah, HapusSah, MulaiHapusOpd
<1> QED
    BY <1>1, MulaiIInv

-----------------------------------------------------------------------------
(***************************************************************************)
(* The writes.  Without an overlap the request that writes is the only one *)
(* in progress, so what it saw still holds, and nothing is left promised.  *)
(***************************************************************************)
\* What is left of the promises after p is done: only those that hold under any
\* interleaving, as long as no account changes sides.
LEMMA UsaiSah ==
    ASSUME IInv, NEW p \in Permintaan, tx[p] # Kosong, Usai(p),
           \A u \in Pengguna : Terdaftar(u, Peran) =>
               /\ Terdaftar(u, Peran)'
               /\ akun'[u].peran = "KEPALA_OPD" <=> akun[u].peran = "KEPALA_OPD"
    PROVE  TxSah' /\ Tunggal'
<1>1. tx' = [tx EXCEPT ![p] = Kosong] /\ tumpang' = tumpang
    BY DEF Usai
<1>2. \A q \in Permintaan : tx'[q] # Kosong => tx'[q] = tx[q] /\ q # p /\ tumpang
    BY <1>1 DEF IInv, Tunggal, TypeOK
<1>3. Tunggal'
    BY <1>1, <1>2 DEF Tunggal
<1>4. TxSah'
    <2> SUFFICES ASSUME NEW q \in Permintaan, tx'[q] # Kosong
                 PROVE  Sah(tx[q])'
        BY DEF TxSah
    <2>1. tumpang' /\ tx'[q] = tx[q] /\ Sah(tx[q]) /\ tx[q] \in Transaksi
        BY <1>1, <1>2 DEF IInv, TxSah, TypeOK
    <2>2. tx[q].op \in {"ubah", "pindah"} => tx[q].u \in Pengguna
        BY <2>1 DEF Transaksi
    <2>3. (tx[q].op = "buat" => BuatSah(tx[q]))' /\ (tx[q].op = "hapusOpd" => HapusSah(tx[q]))'
        BY <2>1 DEF BuatSah, HapusSah
    <2>4. (tx[q].op = "ubah" => UbahSah(tx[q]))'
        BY <2>1, <2>2 DEF Sah, UbahSah
    <2>5. (tx[q].op = "pindah" => PindahSah(tx[q]))'
        BY <2>1, <2>2 DEF Sah, PindahSah
    <2> QED
        BY <2>3, <2>4, <2>5 DEF Sah
<1> QED
    BY <1>3, <1>4

\* A new account is alone in its slot, in a living OPD, with one row of history.
LEMMA BuatIInv == ASSUME IInv, NEW p \in Permintaan, Buat(p) PROVE IInv'
<1> DEFINE t == tx[p]
           baru == [peran |-> t.peran, opd |-> t.opd, aktif |-> TRUE]
<1>1. /\ t.u \in Pengguna /\ t.opd \in Opd /\ t.peran \in Peran
      /\ akun[t.u] = Kosong
      /\ BuatSah(t)
    BY DEF IInv, TypeOK, TxSah, Sah, Buat, Transaksi
<1>2. /\ akun' = [akun EXCEPT ![t.u] = baru]
      /\ riwayat' = [riwayat EXCEPT ![t.u] = [baris |-> {t.opd}, aktif |-> {t.opd}]]
      /\ UNCHANGED <<opd, tumpang>>
      /\ tx' = [tx EXCEPT ![p] = Kosong]
    BY DEF Buat, Usai, Sinkron, TanpaRiwayat
<1> HIDE DEF t
<1>3. baru \in Akun /\ baru # Kosong
    <2>1. baru \in Akun
        BY <1>1 DEF Akun
    <2> QED
        BY <2>1, KosongAssumption
<1>4. \A u \in Pengguna :
          \/ u = t.u /\ akun'[u] = baru
          \/ u # t.u /\ akun'[u] = akun[u] /\ riwayat'[u] = riwayat[u]
    BY <1>2 DEF IInv, TypeOK
<1> HIDE DEF baru
<1>5. TypeOK'
    BY <1>1, <1>2, <1>3 DEF IInv, TypeOK
<1>6. BarisAda'
    BY <1>2 DEF IInv, TypeOK, BarisAda
<1>7. RiwayatSelaras'
    <2>1. riwayat'[t.u].aktif = {akun'[t.u].opd}
        BY <1>1, <1>2 DEF IInv, TypeOK, baru
    <2> QED
        BY <2>1, <1>2, <1>4 DEF IInv, RiwayatSelaras, Terdaftar
<1>8. AkunDiOpdHidup'
    BY <1>1, <1>2, <1>4 DEF IInv, AkunDiOpdHidup, BuatSah, baru
<1>9. SatuKepalaPerOpd'
    <2> SUFFICES ASSUME ~tumpang, NEW o \in Opd,
                        NEW u \in Pejabat("KEPALA_OPD", o)', NEW v \in Pejabat("KEPALA_OPD", o)'
                 PROVE  u = v
        BY <1>2 DEF SatuKepalaPerOpd
    <2>1. \A w \in Pejabat("KEPALA_OPD", o)' :
              \/ w = t.u /\ o = t.opd /\ t.peran = "KEPALA_OPD"
              \/ w # t.u /\ w \in Pejabat("KEPALA_OPD", o)
        BY <1>4 DEF Pejabat, Terdaftar, baru
    <2>2. t.peran = "KEPALA_OPD" => Pejabat("KEPALA_OPD", t.opd) = {}
        BY <1>1 DEF BuatSah, SlotKosong
    <2> QED
        BY <2>1, <2>2 DEF IInv, SatuKepalaPerOpd
<1>10. TxSah' /\ Tunggal'
    <2>1. \A u \in Pengguna : Terdaftar(u, Peran) =>
               /\ Terdaftar(u, Peran)'
               /\ akun'[u].peran = "KEPALA_OPD" <=> akun[u].peran = "KEPALA_OPD"
        BY <1>1, <1>4 DEF Terdaftar
    <2> QED
        BY <2>1, UsaiSah DEF Buat
<1> QED
    BY <1>5, <1>6, <1>7, <1>8, <1>9, <1>10 DEF IInv

\* An update by key moves nobody and brings no Kepala OPD back.
LEMMA UbahIInv == ASSUME IInv, NEW p \in Permintaan, Ubah(p) PROVE IInv'
<1> DEFINE t == tx[p]
           baru == Perbarui(akun[t.u], t.peran, t.st)
<1>1. /\ t.u \in Pengguna /\ t.peran \in PeranPenyusun \cup {Kosong} /\ UbahSah(t)
      /\ akun[t.u] \in Akun /\ akun[t.u] # Kosong
    BY DEF IInv, TypeOK, TxSah, Sah, Ubah, Transaksi, UbahSah, Terdaftar
<1>2. /\ akun' = [akun EXCEPT ![t.u] = baru]
      /\ UNCHANGED <<opd, riwayat, tumpang>>
      /\ tx' = [tx EXCEPT ![p] = Kosong]
    BY DEF Ubah, Usai
<1>3. /\ baru \in Akun /\ baru # Kosong /\ baru.opd = akun[t.u].opd
      /\ baru.peran = "KEPALA_OPD" <=> akun[t.u].peran = "KEPALA_OPD"
      /\ baru.peran = "KEPALA_OPD" /\ baru.aktif => akun[t.u].aktif
    BY <1>1, KosongAssumption
       DEF Akun, Perbarui, AktifSetelah, UbahSah, Peran, PeranPenyusun
<1>4. \A u \in Pengguna :
          \/ u = t.u /\ akun'[u] = baru
          \/ u # t.u /\ akun'[u] = akun[u]
    BY <1>2 DEF IInv, TypeOK
<1> HIDE DEF t, baru
<1>5. TypeOK'
    BY <1>1, <1>2, <1>3 DEF IInv, TypeOK
<1>6. BarisAda'
    BY <1>2 DEF IInv, BarisAda
<1>7. RiwayatSelaras'
    <2>1. \A u \in Pengguna : Terdaftar(u, PeranPenyusun)' => Terdaftar(u, PeranPenyusun)
        BY <1>1, <1>3, <1>4 DEF Terdaftar, PeranPenyusun, Akun, Peran
    <2>2. \A u \in Pengguna : Terdaftar(u, Peran)' => Terdaftar(u, Peran)
        BY <1>1, <1>3, <1>4 DEF Terdaftar, Akun
    <2>3. \A u \in Pengguna : Terdaftar(u, Peran)' => akun'[u].opd = akun[u].opd
        BY <1>3, <1>4 DEF Terdaftar
    <2> QED
        BY <2>1, <2>2, <2>3, <1>2 DEF IInv, RiwayatSelaras, Terdaftar, Peran
<1>8. AkunDiOpdHidup'
    BY <1>1, <1>2, <1>3, <1>4 DEF IInv, AkunDiOpdHidup
<1>9. SatuKepalaPerOpd'
    <2>1. \A o \in Opd : Pejabat("KEPALA_OPD", o)' \subseteq Pejabat("KEPALA_OPD", o)
        BY <1>1, <1>3, <1>4 DEF Pejabat, Terdaftar
    <2> QED
        BY <2>1, <1>2 DEF IInv, SatuKepalaPerOpd
<1>10. TxSah' /\ Tunggal'
    <2>1. \A u \in Pengguna : Terdaftar(u, Peran) =>
               /\ Terdaftar(u, Peran)'
               /\ akun'[u].peran = "KEPALA_OPD" <=> akun[u].peran = "KEPALA_OPD"
        BY <1>1, <1>3, <1>4 DEF Terdaftar, Akun
    <2> QED
        BY <2>1, UsaiSah DEF Ubah
<1> QED
    BY <1>5, <1>6, <1>7, <1>8, <1>9, <1>10 DEF IInv

\* The row of an account that moves, field by field.
LEMMA BarisPindahan ==
    ASSUME NEW a \in Akun, NEW o \in Opd \cup {Kosong}, NEW st
    PROVE  LET b == Pindahkan(a, o, st)
           IN  /\ b \in Akun
               /\ b.peran = a.peran
               /\ b.opd = IF o = Kosong THEN a.opd ELSE o
               /\ b.aktif = AktifSetelah(a.aktif, st)
BY DEF Akun, Pindahkan, AktifSetelah

\* A move or a return: the account lands in a living OPD whose slot was free, and
\* its history follows.
LEMMA PindahIInv == ASSUME IInv, NEW p \in Permintaan, Pindah(p) PROVE IInv'
<1> DEFINE t == tx[p]
           a == akun[t.u]
           ke == IF t.tujuan = Kosong THEN a.opd ELSE t.tujuan
           hidup == AktifSetelah(a.aktif, t.st)
           baru == Pindahkan(a, t.tujuan, t.st)
           r == IF t.tujuan = Kosong THEN riwayat[t.u]
                ELSE Sinkron(TidakAktif(riwayat[t.u], t.asal), t.tujuan)
           jejak == IF t.sinkron = Kosong THEN r ELSE Sinkron(r, t.sinkron)
<1>1. /\ t.u \in Pengguna /\ t.asal \in Opd /\ t.tujuan \in Opd \cup {Kosong}
      /\ t.sinkron \in Opd \cup {Kosong}
      /\ PindahSah(t)
      /\ a \in Akun /\ a # Kosong
    BY DEF IInv, TypeOK, TxSah, Sah, Pindah, Transaksi, PindahSah, Terdaftar
<1>2. /\ akun' = [akun EXCEPT ![t.u] = baru]
      /\ riwayat' = [riwayat EXCEPT ![t.u] = jejak]
      /\ UNCHANGED <<opd, tumpang>>
      /\ tx' = [tx EXCEPT ![p] = Kosong]
    BY DEF Pindah, Usai
<1> HIDE DEF t
<1>3. /\ baru \in Akun /\ baru # Kosong
      /\ baru.peran = a.peran /\ baru.opd = ke /\ baru.aktif = hidup
    BY <1>1, BarisPindahan, KosongAssumption
<1>4. /\ jejak \in [baris : SUBSET Opd, aktif : SUBSET Opd]
      /\ jejak.aktif \subseteq jejak.baris
    <2>1. /\ riwayat[t.u] \in [baris : SUBSET Opd, aktif : SUBSET Opd]
          /\ riwayat[t.u].aktif \subseteq riwayat[t.u].baris
        BY <1>1 DEF IInv, TypeOK, BarisAda
    <2> QED
        BY <1>1, <2>1 DEF Sinkron, TidakAktif
<1>5. (a.peran # "KEPALA_OPD" \/ ~tumpang) =>
          (riwayat[t.u].aktif = {a.opd} => jejak.aktif = {ke})
    BY <1>1 DEF PindahSah, Sinkron, Akun
<1>6. \A u \in Pengguna :
          \/ u = t.u /\ akun'[u] = baru /\ riwayat'[u] = jejak
          \/ u # t.u /\ akun'[u] = akun[u] /\ riwayat'[u] = riwayat[u]
    BY <1>2 DEF IInv, TypeOK
<1> HIDE DEF baru, jejak
<1>7. TypeOK'
    BY <1>1, <1>2, <1>3, <1>4 DEF IInv, TypeOK
<1>8. BarisAda'
    BY <1>4, <1>6 DEF IInv, BarisAda
<1>9. RiwayatSelaras'
    <2> DEFINE kelas == IF tumpang THEN PeranPenyusun ELSE Peran
    <2>1. baru.peran \in kelas => jejak.aktif = {ke}
        <3>1. SUFFICES ASSUME a.peran \in kelas PROVE jejak.aktif = {ke}
            BY <1>3
        <3>2. a.peran # "KEPALA_OPD" \/ ~tumpang
            BY <3>1 DEF PeranPenyusun
        <3>3. riwayat[t.u].aktif = {a.opd}
            BY <3>1, <1>1 DEF IInv, RiwayatSelaras, Terdaftar
        <3> QED
            BY <3>2, <3>3, <1>5
    <2> HIDE DEF kelas
    <2>2. \A u \in Pengguna : Terdaftar(u, kelas) => riwayat[u].aktif = {akun[u].opd}
        BY DEF IInv, RiwayatSelaras, kelas
    <2>3. \A u \in Pengguna :
              akun'[u] # Kosong /\ akun'[u].peran \in kelas => riwayat'[u].aktif = {akun'[u].opd}
        BY <2>1, <2>2, <1>3, <1>6 DEF Terdaftar
    <2> QED
        BY <2>3, <1>2 DEF RiwayatSelaras, Terdaftar, kelas
<1>10. AkunDiOpdHidup'
    BY <1>1, <1>2, <1>3, <1>6 DEF IInv, AkunDiOpdHidup, PindahSah
<1>11. SatuKepalaPerOpd'
    <2> SUFFICES ASSUME ~tumpang, NEW o \in Opd,
                        NEW u \in Pejabat("KEPALA_OPD", o)', NEW v \in Pejabat("KEPALA_OPD", o)'
                 PROVE  u = v
        BY <1>2 DEF SatuKepalaPerOpd
    <2>1. \A w \in Pejabat("KEPALA_OPD", o)' :
              \/ w = t.u /\ a.peran = "KEPALA_OPD" /\ hidup /\ ke = o
              \/ w # t.u /\ w \in Pejabat("KEPALA_OPD", o)
        BY <1>3, <1>6 DEF Pejabat, Terdaftar
    <2>2. a.peran = "KEPALA_OPD" /\ hidup =>
              t.u \in Pejabat("KEPALA_OPD", ke) \/ SlotKosong("KEPALA_OPD", ke, {t.u})
        BY <1>1 DEF PindahSah, AktifSetelah, Pejabat, Terdaftar
    <2>3. a.peran = "KEPALA_OPD" /\ hidup =>
              \A w \in Pejabat("KEPALA_OPD", ke) : w = t.u
        BY <2>2, <1>1 DEF IInv, SatuKepalaPerOpd, SlotKosong, Akun
    <2> QED
        BY <2>1, <2>3 DEF IInv, SatuKepalaPerOpd
<1>12. TxSah' /\ Tunggal'
    <2>1. \A u \in Pengguna : Terdaftar(u, Peran) =>
               /\ Terdaftar(u, Peran)'
               /\ akun'[u].peran = "KEPALA_OPD" <=> akun[u].peran = "KEPALA_OPD"
        BY <1>3, <1>6 DEF Terdaftar
    <2> QED
        BY <2>1, UsaiSah DEF Pindah
<1> QED
    BY <1>7, <1>8, <1>9, <1>10, <1>11, <1>12 DEF IInv

\* An OPD without relations is in nobody's history, so it is nobody's OPD.
LEMMA HapusOpdIInv == ASSUME IInv, NEW p \in Permintaan, HapusOpd(p) PROVE IInv'
<1> DEFINE o == tx[p].opd
<1>1. o \in Opd /\ HapusSah(tx[p])
    BY DEF IInv, TypeOK, TxSah, Sah, HapusOpd, Transaksi
<1>2. /\ opd' = [opd EXCEPT ![o] = "terhapus"]
      /\ UNCHANGED <<akun, riwayat, tumpang>>
      /\ tx' = [tx EXCEPT ![p] = Kosong]
    BY DEF HapusOpd, Usai
<1> HIDE DEF o
<1>3. TypeOK'
    BY <1>1, <1>2 DEF IInv, TypeOK
<1>4. BarisAda' /\ RiwayatSelaras' /\ SatuKepalaPerOpd'
    <2>1. BarisAda' /\ RiwayatSelaras'
        BY <1>2 DEF IInv, BarisAda, RiwayatSelaras, Terdaftar
    <2> QED
        BY <2>1, <1>2 DEF IInv, SatuKepalaPerOpd, Pejabat, Terdaftar
<1>5. AkunDiOpdHidup'
    <2> SUFFICES ASSUME ~tumpang, NEW u \in Pengguna, akun[u] # Kosong
                 PROVE  opd'[akun[u].opd] = "aktif"
        BY <1>2 DEF AkunDiOpdHidup
    <2>1. akun[u] \in Akun /\ Terdaftar(u, Peran)
        BY DEF IInv, TypeOK, Akun, Terdaftar
    <2>2. akun[u].opd \in riwayat[u].baris
        BY <2>1 DEF IInv, RiwayatSelaras, BarisAda
    <2>3. akun[u].opd # o
        BY <2>2, <1>1 DEF HapusSah, TanpaRelasi, o
    <2> QED
        BY <2>1, <2>3, <1>2 DEF IInv, AkunDiOpdHidup, TypeOK, Akun
<1>6. TxSah' /\ Tunggal'
    BY <1>2, UsaiSah DEF HapusOpd, Terdaftar
<1> QED
    BY <1>3, <1>4, <1>5, <1>6 DEF IInv

\* The request is gone, and what it had checked with it.
LEMMA BatalIInv == ASSUME IInv, NEW p \in Permintaan, Batal(p) PROVE IInv'
<1>1. TxSah' /\ Tunggal'
    BY UsaiSah DEF Batal, Terdaftar
<1>2. UNCHANGED <<opd, akun, riwayat, tumpang>> /\ tx' = [tx EXCEPT ![p] = Kosong]
    BY DEF Batal, Usai
<1>3. TypeOK'
    BY <1>2 DEF IInv, TypeOK
<1>4. BarisAda' /\ RiwayatSelaras' /\ AkunDiOpdHidup'
    BY <1>2 DEF IInv, BarisAda, RiwayatSelaras, AkunDiOpdHidup, Terdaftar
<1>5. SatuKepalaPerOpd'
    BY <1>2 DEF IInv, SatuKepalaPerOpd, Pejabat, Terdaftar
<1> QED
    BY <1>1, <1>3, <1>4, <1>5 DEF IInv

\* A new OPD is active and changes no other.
LEMMA BuatOpdIInv == ASSUME IInv, NEW o \in Opd, BuatOpd(o) PROVE IInv'
<1>1. /\ opd[o] = "belum" /\ opd' = [opd EXCEPT ![o] = "aktif"]
      /\ UNCHANGED <<akun, riwayat, tx, tumpang>>
    BY DEF BuatOpd
<1>2. TypeOK' /\ Tunggal'
    BY <1>1 DEF IInv, TypeOK, Tunggal
<1>3. BarisAda' /\ RiwayatSelaras'
    BY <1>1 DEF IInv, BarisAda, RiwayatSelaras, Terdaftar
<1>4. \A x \in Opd : opd[x] = "aktif" => opd'[x] = "aktif"
    BY <1>1 DEF IInv, TypeOK
<1>5. AkunDiOpdHidup'
    BY <1>1, <1>4 DEF IInv, AkunDiOpdHidup, TypeOK, Akun
<1>6. SatuKepalaPerOpd'
    BY <1>1 DEF IInv, SatuKepalaPerOpd, Pejabat, Terdaftar
<1>7. TxSah'
    <2> SUFFICES ASSUME NEW p \in Permintaan, tx[p] # Kosong PROVE Sah(tx[p])'
        BY <1>1 DEF TxSah
    <2>1. Sah(tx[p]) /\ tx[p] \in Transaksi
        BY DEF IInv, TxSah, TypeOK
    <2>2. /\ tx[p].op = "buat" => tx[p].opd \in Opd
          /\ tx[p].op = "pindah" => tx[p].tujuan \in Opd \cup {Kosong}
        BY <2>1 DEF Transaksi
    <2>3. (tx[p].op = "buat" => BuatSah(tx[p]))'
        BY <1>1, <1>4, <2>1, <2>2 DEF Sah, BuatSah, SlotKosong, Pejabat, Terdaftar
    <2>4. (tx[p].op = "pindah" => PindahSah(tx[p]))'
        BY <1>1, <1>4, <2>1, <2>2 DEF Sah, PindahSah, SlotKosong, Pejabat, Terdaftar
    <2>5. (tx[p].op = "ubah" => UbahSah(tx[p]))' /\ (tx[p].op = "hapusOpd" => HapusSah(tx[p]))'
        BY <1>1, <2>1 DEF Sah, UbahSah, HapusSah, TanpaRelasi, Terdaftar
    <2> QED
        BY <2>3, <2>4, <2>5 DEF Sah
<1> QED
    BY <1>2, <1>3, <1>5, <1>6, <1>7 DEF IInv

-----------------------------------------------------------------------------
\* IInv is inductive.
LEMMA NextIInv == ASSUME IInv, [Next]_vars PROVE IInv'
<1>1. CASE \E o \in Opd : BuatOpd(o)
    BY <1>1, BuatOpdIInv
<1>2. CASE \E p \in Permintaan, u \in Pengguna : MulaiAkun(p, u)
    <2> PICK p \in Permintaan, u \in Pengguna : MulaiAkun(p, u)
        BY <1>2
    <2>1. CASE \E peran \in Peran, o \in Opd : MulaiBuat(p, u, peran, o)
        BY <2>1, MulaiBuatIInv
    <2>2. CASE \/ \E peran \in PeranPenyusun \cup {Kosong}, st \in Status \cup {Kosong} :
                      MulaiUbahPenyusun(p, u, peran, st)
               \/ MulaiNonaktifkan(p, u) \/ MulaiAktifkan(p, u) \/ MulaiHapusKepala(p, u)
        BY <2>2, MulaiUbahIInv
    <2>3. CASE \E o \in Opd : MulaiPindah(p, u, o)
        BY <2>3, MulaiPindahIInv
    <2>4. CASE \E o \in Opd \cup {Kosong}, st \in Status \cup {Kosong} :
                   MulaiUbahKepala(p, u, o, st)
        BY <2>4, MulaiUbahKepalaIInv
    <2> QED
        BY <2>1, <2>2, <2>3, <2>4 DEF MulaiAkun
<1>3. CASE \E p \in Permintaan, o \in Opd : MulaiHapusOpd(p, o)
    BY <1>3, MulaiHapusOpdIInv
<1>4. CASE \E p \in Permintaan : Tulis(p) \/ Batal(p)
    BY <1>4, BuatIInv, UbahIInv, PindahIInv, HapusOpdIInv, BatalIInv DEF Tulis
<1>5. CASE UNCHANGED vars
    <2>1. UNCHANGED <<opd, akun, riwayat, tx, tumpang>>
        BY <1>5 DEF vars
    <2>2. TypeOK' /\ BarisAda' /\ RiwayatSelaras' /\ Tunggal' /\ AkunDiOpdHidup'
        BY <2>1 DEF IInv, TypeOK, BarisAda, RiwayatSelaras, Tunggal, AkunDiOpdHidup, Terdaftar
    <2>3. SatuKepalaPerOpd' /\ TxSah'
        BY <2>1 DEF IInv, SatuKepalaPerOpd, TxSah, Sah, BuatSah, UbahSah, PindahSah, HapusSah,
                    SlotKosong, TanpaRelasi, Pejabat, Terdaftar
    <2> QED
        BY <2>2, <2>3 DEF IInv
<1> QED
    BY <1>1, <1>2, <1>3, <1>4, <1>5 DEF Next

\* The tables and the requests keep their types, and IInv holds throughout.
THEOREM Induktif == Spec => []IInv
BY InitIInv, NextIInv, PTL DEF Spec

\* BUSINESS-SPEC.md:631, for requests one at a time: an OPD has one active Kepala.
THEOREM SatuKepala == Spec => []SatuKepalaPerOpd
<1>1. IInv => SatuKepalaPerOpd
    BY DEF IInv
<1> QED
    BY <1>1, Induktif, PTL

\* An account and its history agree (RiwayatSelaras), and no deleted OPD has an
\* active account while requests come one at a time.
THEOREM RiwayatDanOpd == Spec => [](RiwayatSelaras /\ AktifDiOpdHidup)
<1>1. IInv => RiwayatSelaras /\ AktifDiOpdHidup
    BY DEF IInv, AkunDiOpdHidup, AktifDiOpdHidup
<1> QED
    BY <1>1, Induktif, PTL

\* Nobody is active in a deleted OPD, while requests come one at a time.
THEOREM OpdTerjaga == Spec => []AktifDiOpdHidup
<1>1. RiwayatSelaras /\ AktifDiOpdHidup => AktifDiOpdHidup
    OBVIOUS
<1> QED
    BY <1>1, RiwayatDanOpd, PTL
=============================================================================
