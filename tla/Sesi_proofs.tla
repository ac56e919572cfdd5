------------------------------ MODULE Sesi_proofs ------------------------------
(***************************************************************************)
(* However many browsers, pages, requests and jobs there are: one browser  *)
(* at most can refresh the session of the row, a session that was ended    *)
(* stays ended, and an undisturbed page is not put on the login.           *)
(***************************************************************************)
EXTENDS Sesi, FiniteSetTheorems, TLAPS

-----------------------------------------------------------------------------
(***************************************************************************)
(* The inductive invariant of the proofs.                                  *)
(***************************************************************************)
\* Which step a job can be at, and whether it has started a session by then.
LangkahSah ==
    \A k \in Kerja : kerja[k] # Kosong =>
        /\ kerja[k].jenis = "masuk" => kerja[k].langkah \in {"mulai", "simpan", "jawab"}
        /\ kerja[k].jenis = "segar" => kerja[k].langkah \in {"periksa", "mulai", "simpan", "jawab"}
        /\ kerja[k].jenis = "keluar" => kerja[k].langkah \in {"periksa", "cabut", "jawab"}
        /\ kerja[k].langkah \in {"periksa", "mulai", "cabut"} => kerja[k].versi = 0
        /\ kerja[k].langkah = "simpan" => kerja[k].versi # 0
        /\ kerja[k].jenis = "masuk" /\ kerja[k].langkah = "jawab" => kerja[k].versi # 0
        /\ kerja[k].jenis = "keluar" => kerja[k].versi = 0
        /\ kerja[k].jenis = "keluar" /\ kerja[k].bersih /\ kerja[k].langkah = "periksa" =>
              kerja[k].token # 0

\* No token is newer than the session of the row.
VersiTerbatas ==
    /\ akun.versi > 0
    /\ \A b \in Peramban : kuki[b].akses <= akun.versi /\ kuki[b].segar <= akun.versi
    /\ \A m \in Minta : minta[m] # Kosong => minta[m].akses <= akun.versi
    /\ \A k \in Kerja : kerja[k] # Kosong =>
          kerja[k].token <= akun.versi /\ kerja[k].versi <= akun.versi /\ kerja[k].akses <= akun.versi

\* A token of the session of the row is out only while the row has a hash.
TokenBerhash ==
    akun.hash \/
    /\ \A b \in Peramban : kuki[b].akses # akun.versi /\ kuki[b].segar # akun.versi
    /\ \A m \in Minta : minta[m] # Kosong => minta[m].akses # akun.versi
    /\ \A k \in Kerja : kerja[k] # Kosong =>
          /\ kerja[k].akses # akun.versi
          /\ kerja[k].langkah = "jawab" => kerja[k].versi # akun.versi

Pemegang(k) == kerja[k] # Kosong /\ kerja[k].versi = akun.versi

\* The refresh token of the session of the row has one holder.
PemegangTunggal ==
    /\ \A b, c \in Peramban :
          kuki[b].segar = akun.versi /\ kuki[c].segar = akun.versi => b = c
    /\ \A j, k \in Kerja : Pemegang(j) /\ Pemegang(k) => j = k
    /\ \A b \in Peramban, k \in Kerja : kuki[b].segar = akun.versi => ~Pemegang(k)

\* Nothing of the browser b is of the session of the row.
TanpaSesi(b) ==
    /\ kuki[b].akses # akun.versi /\ kuki[b].segar # akun.versi
    /\ \A m \in MintaDari(b) : minta[m].akses # akun.versi

MatiSah ==
    \A b \in Peramban : riwayat[b] = "mati" =>
        /\ TanpaSesi(b)
        /\ \A k \in KerjaDari(b) : kerja[k].jenis = "segar" =>
              /\ kerja[k].langkah \in {"periksa", "jawab"}
              /\ kerja[k].versi = 0 /\ kerja[k].token # akun.versi

\* A logout by itself leaves nothing of the session of its browser.
KeluarSah ==
    \A b \in Peramban, k \in Kerja :
        k \in KerjaDari(b) /\ kerja[k].jenis = "keluar" /\ kerja[k].bersih =>
        /\ \A j \in KerjaDari(b) : kerja[j].versi = 0
        /\ kerja[k].langkah = "jawab" => TanpaSesi(b)

MasukSah ==
    \A k \in Kerja : Ditunggu(kerja, k) /\ kerja[k].jenis = "masuk" /\ kerja[k].bersih =>
        /\ kerja[k].langkah = "simpan" => kerja[k].versi = akun.versi
        /\ kerja[k].langkah = "jawab" =>
              kerja[k].versi = akun.versi /\ kerja[k].akses = akun.versi

\* An undisturbed session can be refreshed, or is being, and its retries pass.
Terang(b) ==
    /\ \A j, k \in KerjaDari(b) : j = k
    /\ \/ kuki[b].segar = akun.versi /\ kuki[b].akses \in {0, akun.versi}
       \/ \E k \in KerjaDari(b) : kerja[k].jenis = "segar" /\ kerja[k].versi = akun.versi
    /\ \A k \in KerjaDari(b) : kerja[k].jenis = "segar" =>
          /\ kerja[k].langkah = "periksa" => kerja[k].token = akun.versi
          /\ kerja[k].langkah \in {"simpan", "jawab"} => kerja[k].versi = akun.versi
          /\ kerja[k].langkah = "jawab" => kerja[k].akses = akun.versi
    /\ \A m \in MintaDari(b) : minta[m].ulang =>
          /\ minta[m].tahap \in {"server", "tulis"}
          /\ minta[m].tahap = "server" => minta[m].akses = akun.versi

HidupSah == \A b \in Peramban : riwayat[b] = "hidup" => Terang(b)

IInv ==
    /\ TypeOK /\ LangkahSah /\ VersiTerbatas /\ TokenBerhash /\ PemegangTunggal
    /\ MatiSah /\ KeluarSah /\ MasukSah /\ HidupSah

-----------------------------------------------------------------------------
(***************************************************************************)
(* Types.                                                                  *)
(***************************************************************************)
\* SlotKerja is a free slot when there is one.
LEMMA SlotBebas == AdaSlotKerja => SlotKerja \in Kerja /\ kerja[SlotKerja] = Kosong
BY DEF AdaSlotKerja, SlotKerja

\* An updated job is a job.
LEMMA KerjaUbah ==
    ASSUME NEW r \in KerjaAkun
    PROVE  /\ r # Kosong
           /\ r.laman \in Laman \cup {Kosong} /\ r.token \in Nat /\ r.versi \in Nat /\ r.akses \in Nat
           /\ r.bersih \in BOOLEAN
           /\ [r EXCEPT !.laman = Kosong] \in KerjaAkun
           /\ [r EXCEPT !.bersih = FALSE] \in KerjaAkun
           /\ \A x \in {"mulai", "jawab", "cabut"} : [r EXCEPT !.langkah = x, !.token = 0] \in KerjaAkun
           /\ [r EXCEPT !.langkah = "jawab"] \in KerjaAkun
           /\ \A v \in Nat : [r EXCEPT !.langkah = "jawab", !.akses = v] \in KerjaAkun
           /\ \A v \in Nat : [r EXCEPT !.langkah = "simpan", !.versi = v] \in KerjaAkun
BY KosongAssumption DEF KerjaAkun

\* An updated request is a request.
LEMMA MintaUbah ==
    ASSUME NEW r \in PermintaanApi
    PROVE  /\ r # Kosong
           /\ r.laman \in Laman \cup {Kosong} /\ r.akses \in Nat /\ r.ulang \in BOOLEAN
           /\ [r EXCEPT !.laman = Kosong] \in PermintaanApi
           /\ [r EXCEPT !.akses = 0] \in PermintaanApi
           /\ \A x \in {"401", "tulis", "tunggu"} : [r EXCEPT !.tahap = x, !.akses = 0] \in PermintaanApi
           /\ \A v \in Nat : [r EXCEPT !.tahap = "server", !.akses = v, !.ulang = TRUE] \in PermintaanApi
BY KosongAssumption DEF PermintaanApi

\* So do the row, the cookies and the page.
LEMMA LainUbah ==
    /\ \A r \in Baris : r.versi \in Nat /\ r.hash \in BOOLEAN /\ [r EXCEPT !.hash = TRUE] \in Baris
    /\ \A v \in Nat : [versi |-> v, hash |-> FALSE] \in Baris
    /\ \A r \in Kuki : r.akses \in Nat /\ r.segar \in Nat
    /\ \A r \in Kuki : [r EXCEPT !.akses = 0] \in Kuki /\ [r EXCEPT !.segar = 0] \in Kuki
    /\ \A v, w \in Nat : [akses |-> v, segar |-> w] \in Kuki
    /\ TanpaKuki \in Kuki
    /\ "hidup" \in Nasib /\ "mati" \in Nasib /\ "usik" \in Nasib
    /\ \A r \in Halaman : r.masuk \in BOOLEAN /\ r.segar \in Kerja \cup {Kosong}
    /\ \A r \in Halaman, x \in BOOLEAN : [r EXCEPT !.masuk = x] \in Halaman
    /\ \A r \in Halaman, k \in Kerja \cup {Kosong} : [r EXCEPT !.segar = k] \in Halaman
BY DEF Baris, Kuki, Halaman, TanpaKuki, Nasib

\* The initial state has the types declared for it.
LEMMA InitType == Init => TypeOK
BY SesiAssumption DEF Init, TypeOK, TanpaKuki, Baris, Kuki, Halaman, Nasib

\* MulaiKerja puts a job of its kind on a free slot.
LEMMA MulaiKerjaType ==
    ASSUME TypeOK, NEW l \in Laman, NEW jenis \in {"masuk", "segar", "keluar"},
           NEW langkah \in {"periksa", "mulai"}, NEW token \in Nat,
           MulaiKerja(jenis, l, langkah, token)
    PROVE  /\ kerja' \in [Kerja -> KerjaAkun \cup {Kosong}]
           /\ riwayat' \in [Peramban -> Nasib]
           /\ SlotKerja \in Kerja
<1>1. SlotKerja \in Kerja
  BY SlotBebas DEF MulaiKerja
<1>2. Milik[l] \in Peramban
  BY SesiAssumption
<1>. QED
  BY <1>1, <1>2 DEF MulaiKerja, TypeOK, KerjaAkun, Nasib

\* Naik keeps the types of the row and of the history.
LEMMA NaikType ==
    ASSUME TypeOK, NEW k, NEW p, Naik(k, p)
    PROVE  /\ akun' \in Baris
           /\ akun'.versi = akun.versi + 1
           /\ riwayat' \in [Peramban -> Nasib]
BY LainUbah DEF Naik, RiwayatNaik, TypeOK, Baris, Nasib

\* Tersela changes flags only.
LEMMA TerselaType ==
    ASSUME TypeOK, NEW k
    PROVE  Tersela(k) \in [Kerja -> KerjaAkun \cup {Kosong}]
BY KerjaUbah DEF Tersela, TypeOK

\* Usir ends requests and jobs or lets go of them.
LEMMA UsirType ==
    ASSUME TypeOK, NEW l \in Laman, NEW W, NEW k, NEW r \in KerjaAkun \cup {Kosong},
           NEW muat \in BOOLEAN, Usir(l, W, k, r, muat)
    PROVE  /\ laman' \in [Laman -> Halaman]
           /\ minta' \in [Minta -> PermintaanApi \cup {Kosong}]
           /\ kerja' \in [Kerja -> KerjaAkun \cup {Kosong}]
<1>1. minta' \in [Minta -> PermintaanApi \cup {Kosong}]
  BY MintaUbah DEF Usir, TypeOK
<1>2. kerja' \in [Kerja -> KerjaAkun \cup {Kosong}]
  BY KerjaUbah DEF Usir, TypeOK
<1>3. laman' \in [Laman -> Halaman]
  BY DEF Usir, TypeOK, Halaman
<1>. QED
  BY <1>1, <1>2, <1>3

\* Every step keeps the types.
LEMMA NextType == TypeOK /\ [Next]_vars => TypeOK'
<1> SUFFICES ASSUME TypeOK, [Next]_vars PROVE TypeOK'
  OBVIOUS
<1>0. \A l \in Laman : Dimuat(l) \subseteq BOOLEAN
  BY DEF Dimuat
<1>k. ASSUME NEW k \in Kerja, kerja[k] # Kosong
      PROVE  /\ kerja[k] \in KerjaAkun /\ kerja[k].laman \in Laman \cup {Kosong}
             /\ kerja[k].versi \in Nat /\ kerja[k].akses \in Nat
             /\ Tersela(k)[k] = kerja[k]
  BY <1>k, KerjaUbah DEF TypeOK, Tersela
<1>m. ASSUME NEW m \in Minta, minta[m] # Kosong
      PROVE  minta[m] \in PermintaanApi /\ minta[m].laman \in Laman \cup {Kosong}
  BY <1>m, MintaUbah DEF TypeOK
<1>b. \A l \in Laman : Milik[l] \in Peramban /\ kuki[Milik[l]] \in Kuki
                        /\ kuki[Milik[l]].segar \in Nat /\ kuki[Milik[l]].akses \in Nat
  BY SesiAssumption, LainUbah DEF TypeOK
<1>1. ASSUME NEW k \in Kerja, LangkahKerja(k) PROVE TypeOK'
  <2>1. CASE SegarPeriksa(k) \/ KeluarPeriksa(k)
    <3>1. PICK x \in {"mulai", "jawab", "cabut"} : Ke(k, x)
      BY <2>1 DEF SegarPeriksa, KeluarPeriksa
    <3>2. kerja[k] # Kosong
      BY <2>1 DEF SegarPeriksa, KeluarPeriksa, Pada
    <3>3. kerja' \in [Kerja -> KerjaAkun \cup {Kosong}]
      BY <3>1, <3>2, <1>k, KerjaUbah DEF Ke, TypeOK
    <3>. QED
      BY <2>1, <3>3 DEF SegarPeriksa, KeluarPeriksa, server, klien, batas, TypeOK
  <2>2. CASE MulaiSesi(k)
    <3>1. PICK p : Naik(k, p)
      BY <2>2 DEF MulaiSesi
    <3>2. akun' \in Baris /\ akun'.versi \in Nat /\ riwayat' \in [Peramban -> Nasib]
      BY <3>1, NaikType, LainUbah
    <3>3. kerja' \in [Kerja -> KerjaAkun \cup {Kosong}]
      <4>1. kerja[k] # Kosong
        BY <2>2 DEF MulaiSesi
      <4>2. [kerja[k] EXCEPT !.langkah = "simpan", !.versi = akun'.versi] \in KerjaAkun
        BY <4>1, <1>k, <3>2, KerjaUbah
      <4>3. kerja' = [Tersela(k) EXCEPT ![k] =
                         [kerja[k] EXCEPT !.langkah = "simpan", !.versi = akun'.versi]]
        BY <2>2, <4>1, <1>k, TerselaType DEF MulaiSesi
      <4>. QED
        BY <4>2, <4>3, TerselaType
    <3>. QED
      BY <2>2, <3>2, <3>3 DEF MulaiSesi, klien, batas, TypeOK
  <2>3. CASE SimpanToken(k)
    <3>1. kerja' \in [Kerja -> KerjaAkun \cup {Kosong}]
      BY <2>3, <1>k, KerjaUbah, LainUbah DEF SimpanToken, TypeOK
    <3>2. akun' \in Baris
      BY <2>3, LainUbah DEF SimpanToken, TypeOK
    <3>. QED
      BY <2>3, <3>1, <3>2 DEF SimpanToken, klien, batas, TypeOK
  <2>4. CASE Cabut(k)
    <3>1. akun' \in Baris /\ riwayat' \in [Peramban -> Nasib]
      BY <2>4, NaikType DEF Cabut
    <3>2. kerja' \in [Kerja -> KerjaAkun \cup {Kosong}]
      <4>1. kerja[k] # Kosong
        BY <2>4 DEF Cabut, Pada
      <4>2. [kerja[k] EXCEPT !.langkah = "jawab"] \in KerjaAkun
        BY <4>1, <1>k, KerjaUbah
      <4>. QED
        BY <2>4, <4>1, <4>2, <1>k, TerselaType DEF Cabut
    <3>. QED
      BY <2>4, <3>1, <3>2 DEF Cabut, klien, batas, TypeOK
  <2>5. CASE SegarJawab(k)
    <3>1. kerja[k] # Kosong /\ kerja[k].laman \in Laman
      BY <2>5, <1>k DEF SegarJawab, Pada
    <3>2. minta' \in [Minta -> PermintaanApi \cup {Kosong}]
      BY <2>5, <3>1, <1>k, MintaUbah DEF SegarJawab, Penunggu, TypeOK
    <3>3. kuki' \in [Peramban -> Kuki]
      BY <2>5, <3>1, <1>k, LainUbah DEF SegarJawab, TypeOK
    <3>4. laman' \in [Laman -> Halaman]
      BY <2>5, <3>1, LainUbah DEF SegarJawab, LamanSegarUsai, TypeOK
    <3>. QED
      BY <2>5, <3>2, <3>3, <3>4 DEF SegarJawab, server, batas, TypeOK
  <2>6. CASE SegarDitolak(k)
    <3>1. kerja[k].laman \in Laman
      BY <2>6, <1>k DEF SegarDitolak, Pada
    <3>2. PICK muat \in BOOLEAN : Usir(kerja[k].laman, Penunggu(kerja[k].laman), k, Kosong, muat)
      BY <2>6, <3>1, <1>0 DEF SegarDitolak
    <3>3. /\ laman' \in [Laman -> Halaman]
          /\ minta' \in [Minta -> PermintaanApi \cup {Kosong}]
          /\ kerja' \in [Kerja -> KerjaAkun \cup {Kosong}]
      BY <3>1, <3>2, UsirType
    <3>. QED
      BY <2>6, <3>3 DEF SegarDitolak, server, batas, TypeOK
  <2>7. CASE MasukJawab(k)
    <3>1. kerja[k] # Kosong /\ kerja[k].laman \in Laman
      BY <2>7, <1>k DEF MasukJawab, Pada
    <3>2. kuki' \in [Peramban -> Kuki]
      BY <2>7, <3>1, <1>k, LainUbah DEF MasukJawab, TypeOK
    <3>3. laman' \in [Laman -> Halaman] /\ riwayat' \in [Peramban -> Nasib]
      BY <2>7, <3>1, LainUbah DEF MasukJawab, TypeOK
    <3>. QED
      BY <2>7, <3>2, <3>3 DEF MasukJawab, batas, TypeOK
  <2>8. CASE KeluarJawab(k)
    <3>1. kerja[k] # Kosong /\ kerja[k].laman \in Laman
      BY <2>8, <1>k DEF KeluarJawab, Pada
    <3>2. kuki' \in [Peramban -> Kuki]
      BY <2>8, <3>1, LainUbah DEF KeluarJawab, TypeOK
    <3>3. laman' \in [Laman -> Halaman] /\ riwayat' \in [Peramban -> Nasib]
      BY <2>8, <3>1, LainUbah DEF KeluarJawab, TypeOK
    <3>. QED
      BY <2>8, <3>2, <3>3 DEF KeluarJawab, batas, TypeOK
  <2>9. CASE Hilang(k)
    BY <2>9 DEF Hilang, server, klien, batas, TypeOK
  <2>. QED
    BY <1>1, <2>1, <2>2, <2>3, <2>4, <2>5, <2>6, <2>7, <2>8, <2>9 DEF LangkahKerja
<1>2. ASSUME NEW m \in Minta, LangkahMinta(m) PROVE TypeOK'
  <2>1. ASSUME NEW x \in {"401", "tulis", "tunggu"}, minta[m] # Kosong, Tahap(m, x)
        PROVE  minta' \in [Minta -> PermintaanApi \cup {Kosong}]
    BY <2>1, <1>m, MintaUbah DEF Tahap, TypeOK
  <2>2. Akhiri(m) => minta' \in [Minta -> PermintaanApi \cup {Kosong}]
    BY DEF Akhiri, TypeOK
  <2>3. CASE Layani(m)
    <3>1. minta' \in [Minta -> PermintaanApi \cup {Kosong}]
      BY <2>1, <2>2, <2>3 DEF Layani, MintaPada
    <3>. QED
      BY <2>3, <3>1 DEF Layani, server, batas, TypeOK
  <2>4. CASE TulisSandi(m)
    <3>1. akun' \in Baris /\ riwayat' \in [Peramban -> Nasib]
      BY <2>4, NaikType DEF TulisSandi
    <3>2. kerja' \in [Kerja -> KerjaAkun \cup {Kosong}]
      BY <2>4, TerselaType DEF TulisSandi
    <3>3. minta' \in [Minta -> PermintaanApi \cup {Kosong}]
      BY <2>2, <2>4 DEF TulisSandi
    <3>. QED
      BY <2>4, <3>1, <3>2, <3>3 DEF TulisSandi, batas, TypeOK
  <2>5. CASE RahasiaSalah(m)
    <3>1. minta' \in [Minta -> PermintaanApi \cup {Kosong}]
      BY <2>1, <2>5 DEF RahasiaSalah, MintaPada
    <3>2. riwayat' \in [Peramban -> Nasib]
      BY <2>5, LainUbah DEF RahasiaSalah, TypeOK
    <3>. QED
      BY <2>5, <3>1, <3>2 DEF RahasiaSalah, batas, TypeOK
  <2>6. CASE TungguSegar(m)
    <3>. DEFINE l == minta[m].laman
    <3>1. l \in Laman /\ minta[m] # Kosong
      BY <2>6, <1>m DEF TungguSegar, MintaPada
    <3>2. minta' \in [Minta -> PermintaanApi \cup {Kosong}]
      BY <2>1, <2>6, <3>1 DEF TungguSegar
    <3>3. CASE laman[l].segar # Kosong
      BY <2>6, <3>2, <3>3 DEF TungguSegar, batas, TypeOK
    <3>4. CASE laman[l].segar = Kosong
      <4>1. MulaiKerja("segar", l, "periksa", kuki[Milik[l]].segar)
        BY <2>6, <3>4 DEF TungguSegar
      <4>2. /\ kerja' \in [Kerja -> KerjaAkun \cup {Kosong}]
            /\ riwayat' \in [Peramban -> Nasib]
            /\ SlotKerja \in Kerja
        BY <3>1, <4>1, <1>b, MulaiKerjaType
      <4>3. laman' \in [Laman -> Halaman]
        BY <2>6, <3>1, <3>4, <4>2, LainUbah DEF TungguSegar, TypeOK
      <4>. QED
        BY <2>6, <3>2, <4>2, <4>3 DEF TungguSegar, batas, TypeOK
    <3>. QED
      BY <3>3, <3>4
  <2>7. CASE UlangDitolak(m)
    <3>1. minta[m].laman \in Laman
      BY <2>7, <1>m DEF UlangDitolak, MintaPada
    <3>2. PICK muat \in BOOLEAN : Usir(minta[m].laman, {m}, Kosong, Kosong, muat)
      BY <2>7, <3>1, <1>0 DEF UlangDitolak
    <3>3. /\ laman' \in [Laman -> Halaman]
          /\ minta' \in [Minta -> PermintaanApi \cup {Kosong}]
          /\ kerja' \in [Kerja -> KerjaAkun \cup {Kosong}]
      BY <3>1, <3>2, UsirType
    <3>. QED
      BY <2>7, <3>3 DEF UlangDitolak, server, batas, TypeOK
  <2>8. CASE MintaHilang(m)
    BY <2>2, <2>8 DEF MintaHilang, server, batas, TypeOK
  <2>. QED
    BY <1>2, <2>3, <2>4, <2>5, <2>6, <2>7, <2>8 DEF LangkahMinta
<1>r. ASSUME NEW b, Rusak(b) PROVE riwayat' \in [Peramban -> Nasib] /\ rusak' \in Nat
  <2>1. rusak' \in Nat
    BY <1>r DEF Rusak, TypeOK
  <2>2. riwayat' \in [Peramban -> Nasib]
    BY <1>r DEF Rusak, TypeOK, Nasib
  <2>. QED
    BY <2>1, <2>2
<1>3. ASSUME NEW k \in Kerja, KerjaPutus(k) PROVE TypeOK'
  <2>1. kerja[k] # Kosong /\ kerja[k].laman \in Laman
    BY <1>3, <1>k DEF KerjaPutus, Ditunggu
  <2>2. kerja' \in [Kerja -> KerjaAkun \cup {Kosong}]
    BY <1>3, <2>1, <1>k, KerjaUbah DEF KerjaPutus, TerusDiServer, TypeOK
  <2>3. laman' \in [Laman -> Halaman]
    <3>1. CASE kerja[k].jenis = "keluar"
      <4>1. laman' = [laman EXCEPT ![kerja[k].laman].masuk = FALSE]
        BY <1>3, <3>1 DEF KerjaPutus
      <4>2. laman[kerja[k].laman] \in Halaman
        BY <2>1 DEF TypeOK
      <4>3. [laman[kerja[k].laman] EXCEPT !.masuk = FALSE] \in Halaman
        BY <4>2, LainUbah
      <4>. QED
        BY <4>1, <4>3, <2>1 DEF TypeOK
    <3>2. CASE kerja[k].jenis # "keluar"
      BY <1>3, <3>2 DEF KerjaPutus, TypeOK
    <3>. QED
      BY <3>1, <3>2
  <2>. QED
    BY <1>3, <1>r, <2>2, <2>3 DEF KerjaPutus, TypeOK
<1>4. ASSUME NEW k \in Kerja, SegarPutus(k) PROVE TypeOK'
  <2>1. kerja[k].laman \in Laman /\ TerusDiServer(k) \in KerjaAkun
    BY <1>4, <1>k, KerjaUbah DEF SegarPutus, Ditunggu, TerusDiServer
  <2>2. PICK muat \in BOOLEAN :
           Usir(kerja[k].laman, Penunggu(kerja[k].laman), k, TerusDiServer(k), muat)
    BY <1>4, <2>1, <1>0 DEF SegarPutus
  <2>3. /\ laman' \in [Laman -> Halaman]
        /\ minta' \in [Minta -> PermintaanApi \cup {Kosong}]
        /\ kerja' \in [Kerja -> KerjaAkun \cup {Kosong}]
    BY <2>1, <2>2, UsirType
  <2>. QED
    BY <1>4, <1>r, <2>3 DEF SegarPutus, TypeOK
<1>5. ASSUME NEW m \in Minta, MintaPutus(m) PROVE TypeOK'
  <2>1. minta' \in [Minta -> PermintaanApi \cup {Kosong}]
    BY <1>5, <1>m, MintaUbah DEF MintaPutus, Ditunggu, Akhiri, TypeOK
  <2>. QED
    BY <1>5, <2>1 DEF MintaPutus, server, TypeOK
<1>6. ASSUME NEW b \in Peramban, AksesHabis(b) PROVE TypeOK'
  <2>1. minta' \in [Minta -> PermintaanApi \cup {Kosong}]
    BY <1>6, <1>m, MintaUbah DEF AksesHabis, MintaDari, Ditunggu, TypeOK
  <2>2. kuki' \in [Peramban -> Kuki]
    BY <1>6, LainUbah DEF AksesHabis, TypeOK
  <2>. QED
    BY <1>6, <2>1, <2>2 DEF AksesHabis, server, batas, TypeOK
<1>7. ASSUME NEW b \in Peramban, SegarHabis(b) PROVE TypeOK'
  <2>1. kuki' \in [Peramban -> Kuki] /\ riwayat' \in [Peramban -> Nasib]
    BY <1>7, LainUbah DEF SegarHabis, TypeOK
  <2>. QED
    BY <1>7, <2>1 DEF SegarHabis, batas, TypeOK
<1>8. ASSUME NEW l \in Laman, Masuk(l) \/ Keluar(l) PROVE TypeOK'
  <2>1. \/ MulaiKerja("masuk", l, "mulai", 0)
        \/ MulaiKerja("keluar", l, "periksa", kuki[Milik[l]].segar)
    BY <1>8 DEF Masuk, Keluar
  <2>2. /\ kerja' \in [Kerja -> KerjaAkun \cup {Kosong}]
        /\ riwayat' \in [Peramban -> Nasib]
    BY <1>b, <2>1, MulaiKerjaType
  <2>. QED
    BY <1>8, <2>2 DEF Masuk, Keluar, klien, TypeOK
<1>9. ASSUME NEW l \in Laman, Navigasi(l) PROVE TypeOK'
  <2>1. laman' \in [Laman -> Halaman]
    BY <1>9, LainUbah DEF Navigasi, TypeOK
  <2>. QED
    BY <1>9, <2>1 DEF Navigasi, server, batas, TypeOK
<1>10. ASSUME NEW l \in Laman, KirimMinta(l) PROVE TypeOK'
  <2>1. \A v \in Nat : [laman |-> l, tahap |-> "server", akses |-> v, ulang |-> FALSE] \in PermintaanApi
    BY DEF PermintaanApi
  <2>2. minta' \in [Minta -> PermintaanApi \cup {Kosong}]
    BY <1>10, <1>b, <2>1 DEF KirimMinta, TypeOK
  <2>. QED
    BY <1>10, <2>2 DEF KirimMinta, server, TypeOK
<1>11. CASE UNCHANGED vars
  BY <1>11 DEF vars, TypeOK
<1>. QED
  BY <1>1, <1>2, <1>3, <1>4, <1>5, <1>6, <1>7, <1>8, <1>9, <1>10, <1>11 DEF Next
-----------------------------------------------------------------------------
(***************************************************************************)
(* Steps that bring nothing new: tokens, requests and jobs stay or go.     *)
(***************************************************************************)
MintaSurut ==
    \A m \in Minta : minta'[m] # Kosong =>
        /\ minta[m] # Kosong
        /\ minta'[m].laman \in {minta[m].laman, Kosong}
        /\ minta'[m].akses \in {minta[m].akses, 0} /\ minta'[m].ulang = minta[m].ulang

KerjaSurut ==
    \A k \in Kerja : kerja'[k] # Kosong =>
        /\ kerja[k] # Kosong
        /\ kerja'[k].laman \in {kerja[k].laman, Kosong}
        /\ kerja'[k].jenis = kerja[k].jenis /\ kerja'[k].langkah = kerja[k].langkah
        /\ kerja'[k].token = kerja[k].token /\ kerja'[k].versi = kerja[k].versi
        /\ kerja'[k].akses = kerja[k].akses /\ kerja'[k].bersih = kerja[k].bersih

\* What is left of the retries of an undisturbed browser.
UlangTetap(b) ==
    \A m \in MintaDari(b)' : minta'[m].ulang =>
        /\ m \in MintaDari(b) /\ minta[m].ulang
        /\ minta'[m].tahap = "tulis" \/ minta'[m] = minta[m]

Surut ==
    /\ akun' = akun
    /\ \A b \in Peramban : /\ kuki'[b].akses \in {kuki[b].akses, 0}
                           /\ kuki'[b].segar \in {kuki[b].segar, 0}
    /\ MintaSurut /\ KerjaSurut
    /\ \A b \in Peramban : riwayat'[b] = "mati" =>
          riwayat[b] = "mati" \/ (kuki'[b].akses = 0 /\ kuki'[b].segar = 0
                                  /\ MintaDari(b)' = {} /\ KerjaDari(b)' = {})
    /\ \A b \in Peramban : riwayat'[b] = "hidup" =>
          /\ riwayat[b] = "hidup" /\ kuki'[b].segar = kuki[b].segar
          /\ \A k \in KerjaDari(b) : kerja'[k] = kerja[k]
          /\ UlangTetap(b)

\* Such a step keeps the invariant.
LEMMA SurutAman == IInv /\ TypeOK' /\ Surut => IInv'
<1> SUFFICES ASSUME IInv, TypeOK', Surut PROVE IInv'
  OBVIOUS
<1>0. akun' = akun /\ akun.versi \in Nat /\ akun.versi > 0
  BY LainUbah DEF IInv, Surut, VersiTerbatas, TypeOK
<1>1. LangkahSah'
  BY DEF IInv, Surut, KerjaSurut, LangkahSah
<1>2. VersiTerbatas'
  BY <1>0 DEF IInv, Surut, MintaSurut, KerjaSurut, VersiTerbatas
<1>3. TokenBerhash'
  BY <1>0 DEF IInv, Surut, MintaSurut, KerjaSurut, TokenBerhash
<1>4. PemegangTunggal'
  BY <1>0 DEF IInv, Surut, KerjaSurut, PemegangTunggal, Pemegang
<1>5. \A b \in Peramban : MintaDari(b)' \subseteq MintaDari(b) /\ KerjaDari(b)' \subseteq KerjaDari(b)
  BY DEF Surut, MintaSurut, KerjaSurut, MintaDari, KerjaDari, Ditunggu
<1>6. ASSUME NEW b \in Peramban, TanpaSesi(b) PROVE TanpaSesi(b)'
  BY <1>0, <1>5, <1>6 DEF Surut, MintaSurut, TanpaSesi, MintaDari, Ditunggu
<1>7. MatiSah'
  <2> SUFFICES ASSUME NEW b \in Peramban, riwayat'[b] = "mati"
               PROVE  /\ TanpaSesi(b)'
                      /\ \A k \in KerjaDari(b)' : kerja'[k].jenis = "segar" =>
                            /\ kerja'[k].langkah \in {"periksa", "jawab"}
                            /\ kerja'[k].versi = 0 /\ kerja'[k].token # akun'.versi
    BY DEF MatiSah
  <2>1. CASE riwayat[b] = "mati"
    <3>1. /\ TanpaSesi(b)
          /\ \A k \in KerjaDari(b) : kerja[k].jenis = "segar" =>
                /\ kerja[k].langkah \in {"periksa", "jawab"}
                /\ kerja[k].versi = 0 /\ kerja[k].token # akun.versi
      BY <2>1 DEF IInv, MatiSah
    <3>. QED
      BY <1>0, <1>5, <1>6, <3>1 DEF Surut, KerjaSurut, KerjaDari, Ditunggu
  <2>2. CASE riwayat[b] # "mati"
    BY <1>0, <2>2 DEF Surut, TanpaSesi
  <2>. QED
    BY <2>1, <2>2
<1>8. KeluarSah'
  <2> SUFFICES ASSUME NEW b \in Peramban, NEW k \in Kerja,
                      k \in KerjaDari(b)', kerja'[k].jenis = "keluar", kerja'[k].bersih
               PROVE  /\ \A j \in KerjaDari(b)' : kerja'[j].versi = 0
                      /\ kerja'[k].langkah = "jawab" => TanpaSesi(b)'
    BY DEF KeluarSah
  <2>1. k \in KerjaDari(b) /\ kerja[k].jenis = "keluar" /\ kerja[k].bersih
        /\ kerja'[k].langkah = kerja[k].langkah
    BY <1>5 DEF Surut, KerjaSurut, KerjaDari, Ditunggu
  <2>2. /\ \A j \in KerjaDari(b) : kerja[j].versi = 0
        /\ kerja[k].langkah = "jawab" => TanpaSesi(b)
    BY <2>1 DEF IInv, KeluarSah
  <2>. QED
    BY <1>5, <1>6, <2>1, <2>2 DEF Surut, KerjaSurut, KerjaDari, Ditunggu
<1>9. MasukSah'
  BY <1>0 DEF IInv, Surut, KerjaSurut, MasukSah, Ditunggu
<1>10. HidupSah'
  <2> SUFFICES ASSUME NEW b \in Peramban, riwayat'[b] = "hidup" PROVE Terang(b)'
    BY DEF HidupSah
  <2>1. /\ Terang(b) /\ kuki'[b].segar = kuki[b].segar
        /\ \A k \in KerjaDari(b) : kerja'[k] = kerja[k]
        /\ UlangTetap(b)
    BY DEF IInv, HidupSah, Surut
  <2>2. KerjaDari(b)' = KerjaDari(b)
    BY <1>5, <2>1 DEF KerjaDari, Ditunggu
  <2>3. \A m \in MintaDari(b)' : minta'[m].ulang =>
            /\ minta'[m].tahap \in {"server", "tulis"}
            /\ minta'[m].tahap = "server" => minta'[m].akses = akun.versi
    BY <2>1 DEF Terang, UlangTetap
  <2>4. \A j, k \in KerjaDari(b)' : j = k
    BY <2>1, <2>2 DEF Terang
  <2>5. \/ kuki'[b].segar = akun'.versi /\ kuki'[b].akses \in {0, akun'.versi}
        \/ \E k \in KerjaDari(b)' : kerja'[k].jenis = "segar" /\ kerja'[k].versi = akun'.versi
    BY <1>0, <2>1, <2>2 DEF Terang, Surut
  <2>6. \A k \in KerjaDari(b)' : kerja'[k].jenis = "segar" =>
              /\ kerja'[k].langkah = "periksa" => kerja'[k].token = akun'.versi
              /\ kerja'[k].langkah \in {"simpan", "jawab"} => kerja'[k].versi = akun'.versi
              /\ kerja'[k].langkah = "jawab" => kerja'[k].akses = akun'.versi
    BY <1>0, <2>1, <2>2 DEF Terang
  <2>. QED
    BY <1>0, <2>3, <2>4, <2>5, <2>6 DEF Terang
<1>. QED
  BY <1>1, <1>2, <1>3, <1>4, <1>7, <1>8, <1>9, <1>10 DEF IInv

-----------------------------------------------------------------------------
(***************************************************************************)
(* A job is sent.                                                          *)
(***************************************************************************)
\* A job that is sent keeps the invariant: it is of no session yet, and only a
\* refresh of an undisturbed browser takes along the token of the row.
LEMMA MulaiKerjaAman ==
    ASSUME IInv, TypeOK', NEW l \in Laman, NEW jenis, NEW langkah, NEW token,
           MulaiKerja(jenis, l, langkah, token),
           akun' = akun, kuki' = kuki, MintaSurut, \A b \in Peramban : UlangTetap(b),
           \/ jenis = "masuk" /\ langkah = "mulai" /\ token = 0
           \/ jenis \in {"segar", "keluar"} /\ langkah = "periksa" /\ token = kuki[Milik[l]].segar
    PROVE  IInv'
<1>. DEFINE s == SlotKerja
            bersih == KerjaDari(Milik[l]) = {} /\ (jenis = "keluar" => token # 0)
<1>0. akun.versi \in Nat /\ akun.versi > 0
  BY LainUbah DEF IInv, VersiTerbatas, TypeOK
<1>a. Milik[l] \in Peramban /\ l # Kosong
  BY SesiAssumption
<1>b. s \in Kerja /\ kerja[s] = Kosong
  BY SlotBebas DEF MulaiKerja
<1>c. /\ kerja'[s] = [jenis |-> jenis, laman |-> l, langkah |-> langkah,
                      token |-> token, versi |-> 0, akses |-> 0, bersih |-> bersih]
      /\ \A k \in Kerja : k # s => kerja'[k] = kerja[k]
  BY <1>b DEF MulaiKerja, IInv, TypeOK
<1>f. token \in Nat /\ token <= akun.versi
  BY <1>0, <1>a DEF IInv, VersiTerbatas, TypeOK, Kuki
<1>d. kerja'[s] # Kosong
  <2>1. [jenis |-> jenis, laman |-> l, langkah |-> langkah,
         token |-> token, versi |-> 0, akses |-> 0, bersih |-> bersih] \in KerjaAkun
    BY <1>f DEF KerjaAkun
  <2>. QED
    BY <1>c, <2>1, KosongAssumption
<1>. HIDE DEF s, bersih
<1>e. /\ kerja'[s].jenis = jenis /\ kerja'[s].laman = l /\ kerja'[s].langkah = langkah
      /\ kerja'[s].token = token /\ kerja'[s].versi = 0 /\ kerja'[s].akses = 0
      /\ kerja'[s].bersih = bersih
  BY <1>c
<1>1. LangkahSah'
  <2>1. bersih => (jenis = "keluar" => token # 0)
    BY DEF bersih
  <2>. QED
    BY <2>1, <1>b, <1>c, <1>e DEF IInv, LangkahSah
<1>2. VersiTerbatas'
  BY <1>0, <1>c, <1>e, <1>f DEF IInv, MintaSurut, VersiTerbatas
<1>3. TokenBerhash'
  BY <1>0, <1>c, <1>e DEF IInv, MintaSurut, TokenBerhash
<1>4. PemegangTunggal'
  BY <1>0, <1>c, <1>e DEF IInv, PemegangTunggal, Pemegang
<1>5. /\ \A b \in Peramban : MintaDari(b)' \subseteq MintaDari(b)
      /\ \A b \in Peramban : b # Milik[l] => KerjaDari(b)' = KerjaDari(b)
      /\ KerjaDari(Milik[l])' = KerjaDari(Milik[l]) \cup {s}
      /\ \A b \in Peramban : s \notin KerjaDari(b)
  BY <1>a, <1>b, <1>c, <1>d, <1>e DEF MintaSurut, MintaDari, KerjaDari, Ditunggu
<1>6. ASSUME NEW b \in Peramban, TanpaSesi(b) PROVE TanpaSesi(b)'
  BY <1>0, <1>5, <1>6 DEF MintaSurut, TanpaSesi, MintaDari, Ditunggu
<1>7. MatiSah'
  <2> SUFFICES ASSUME NEW b \in Peramban, riwayat'[b] = "mati"
               PROVE  /\ TanpaSesi(b)'
                      /\ \A k \in KerjaDari(b)' : kerja'[k].jenis = "segar" =>
                            /\ kerja'[k].langkah \in {"periksa", "jawab"}
                            /\ kerja'[k].versi = 0 /\ kerja'[k].token # akun'.versi
    BY DEF MatiSah
  <2>1. riwayat[b] = "mati"
    BY DEF MulaiKerja, IInv, TypeOK
  <2>2. /\ TanpaSesi(b)
        /\ \A k \in KerjaDari(b) : kerja[k].jenis = "segar" =>
              /\ kerja[k].langkah \in {"periksa", "jawab"}
              /\ kerja[k].versi = 0 /\ kerja[k].token # akun.versi
    BY <2>1 DEF IInv, MatiSah
  <2>3. ASSUME NEW k \in KerjaDari(b)', kerja'[k].jenis = "segar"
        PROVE  /\ kerja'[k].langkah \in {"periksa", "jawab"}
               /\ kerja'[k].versi = 0 /\ kerja'[k].token # akun'.versi
    <3>1. CASE k = s
      <4>1. b = Milik[l] /\ token = kuki[b].segar
        BY <1>5, <1>e, <2>3, <3>1
      <4>. QED
        BY <1>e, <2>2, <2>3, <3>1, <4>1 DEF TanpaSesi
    <3>2. CASE k # s
      BY <1>5, <1>c, <2>2, <2>3, <3>2 DEF KerjaDari
    <3>. QED
      BY <3>1, <3>2
  <2>. QED
    BY <1>6, <2>2, <2>3
<1>8. KeluarSah'
  <2> SUFFICES ASSUME NEW b \in Peramban, NEW k \in Kerja,
                      k \in KerjaDari(b)', kerja'[k].jenis = "keluar", kerja'[k].bersih
               PROVE  /\ \A j \in KerjaDari(b)' : kerja'[j].versi = 0
                      /\ kerja'[k].langkah = "jawab" => TanpaSesi(b)'
    BY DEF KeluarSah
  <2>1. CASE k = s
    <3>1. b = Milik[l] /\ KerjaDari(b) = {}
      BY <1>5, <1>e, <2>1 DEF bersih
    <3>. QED
      BY <1>5, <1>e, <2>1, <3>1
  <2>2. CASE k # s
    <3>1. k \in KerjaDari(b) /\ kerja'[k] = kerja[k]
      BY <1>5, <1>c, <2>2
    <3>2. /\ \A j \in KerjaDari(b) : kerja[j].versi = 0
          /\ kerja[k].langkah = "jawab" => TanpaSesi(b)
      BY <3>1 DEF IInv, KeluarSah
    <3>3. \A j \in KerjaDari(b)' : j = s \/ (j \in KerjaDari(b) /\ kerja'[j] = kerja[j])
      BY <1>5, <1>c DEF KerjaDari
    <3>. QED
      BY <1>6, <1>e, <3>1, <3>2, <3>3
  <2>. QED
    BY <2>1, <2>2
<1>9. MasukSah'
  BY <1>c, <1>e DEF IInv, MasukSah, Ditunggu
<1>10. HidupSah'
  <2> SUFFICES ASSUME NEW b \in Peramban, riwayat'[b] = "hidup" PROVE Terang(b)'
    BY DEF HidupSah
  <2>1. riwayat[b] = "hidup" /\ (b = Milik[l] => KerjaDari(b) = {})
    BY DEF MulaiKerja, IInv, TypeOK
  <2>2. Terang(b) /\ UlangTetap(b)
    BY <2>1 DEF IInv, HidupSah
  <2>3. \A m \in MintaDari(b)' : minta'[m].ulang =>
            /\ minta'[m].tahap \in {"server", "tulis"}
            /\ minta'[m].tahap = "server" => minta'[m].akses = akun'.versi
    BY <2>2 DEF Terang, UlangTetap
  <2>4. CASE b = Milik[l]
    <3>1. /\ KerjaDari(b)' = {s}
          /\ kuki[b].segar = akun.versi /\ kuki[b].akses \in {0, akun.versi}
      BY <1>5, <2>1, <2>2, <2>4 DEF Terang
    <3>. QED
      BY <1>e, <2>3, <2>4, <3>1 DEF Terang
  <2>5. CASE b # Milik[l]
    <3>1. KerjaDari(b)' = KerjaDari(b) /\ \A k \in KerjaDari(b) : kerja'[k] = kerja[k]
      BY <1>5, <1>c, <2>5 DEF KerjaDari
    <3>. QED
      BY <2>2, <2>3, <3>1 DEF Terang
  <2>. QED
    BY <2>4, <2>5
<1>. QED
  BY <1>1, <1>2, <1>3, <1>4, <1>7, <1>8, <1>9, <1>10 DEF IInv

-----------------------------------------------------------------------------
(***************************************************************************)
(* The version goes up.                                                    *)
(***************************************************************************)
\* Jobs beside k go on, no longer alone; k, if it goes on, has started the session
\* of the row or is a logout that has revoked the one before.
KerjaTersela(k) ==
    \A j \in Kerja : kerja'[j] # Kosong =>
        /\ kerja[j] # Kosong /\ kerja'[j].laman = kerja[j].laman
        /\ kerja'[j].jenis = kerja[j].jenis
        /\ kerja'[j].token = kerja[j].token /\ kerja'[j].akses = kerja[j].akses
        /\ j # k => /\ ~kerja'[j].bersih /\ kerja'[j].langkah = kerja[j].langkah
                    /\ kerja'[j].versi = kerja[j].versi
        /\ j = k => /\ kerja'[j].bersih = kerja[j].bersih
                    /\ \/ /\ kerja[j].langkah = "mulai" /\ kerja'[j].langkah = "simpan"
                          /\ kerja'[j].versi = akun'.versi
                       \/ /\ kerja[j].jenis = "keluar" /\ kerja'[j].langkah = "jawab"
                          /\ kerja'[j].versi = kerja[j].versi

\* A step that raises the version keeps the invariant: every token out is older
\* than the row, and the session goes on in the browser p only, if its refresh is
\* what raised the version.
LEMMA NaikAman ==
    ASSUME IInv, TypeOK', NEW k, NEW p, Naik(k, p), KerjaTersela(k),
           kuki' = kuki, MintaSurut,
           p # Kosong => k \in KerjaDari(p) /\ kerja[k].jenis = "segar"
                         /\ kerja[k].langkah = "mulai" /\ kerja'[k] # Kosong,
           k \in Kerja /\ kerja[k].jenis = "segar" => \A b \in Peramban : k \in KerjaDari(b) => p = b
    PROVE  IInv'
<1>0. akun.versi \in Nat /\ akun.versi > 0 /\ akun'.versi = akun.versi + 1 /\ ~akun'.hash
  BY LainUbah DEF IInv, VersiTerbatas, TypeOK, Naik
<1>a. /\ \A b \in Peramban : kuki'[b].akses < akun'.versi /\ kuki'[b].segar < akun'.versi
      /\ \A m \in Minta : minta'[m] # Kosong => minta'[m].akses < akun'.versi
  <2>1. \A b \in Peramban : kuki[b].akses \in Nat /\ kuki[b].segar \in Nat
    BY LainUbah DEF IInv, TypeOK
  <2>2. \A m \in Minta : minta[m] # Kosong => minta[m].akses \in Nat
    BY MintaUbah DEF IInv, TypeOK
  <2>. QED
    BY <1>0, <2>1, <2>2 DEF IInv, VersiTerbatas, MintaSurut
<1>b. \A j \in Kerja : kerja'[j] # Kosong =>
         /\ kerja'[j].token < akun'.versi /\ kerja'[j].akses < akun'.versi
         /\ kerja[j].versi \in Nat /\ kerja[j].versi < akun'.versi
  <2>1. \A j \in Kerja : kerja[j] # Kosong =>
           kerja[j].token \in Nat /\ kerja[j].akses \in Nat /\ kerja[j].versi \in Nat
    BY KerjaUbah DEF IInv, TypeOK
  <2>. QED
    BY <1>0, <2>1 DEF IInv, VersiTerbatas, KerjaTersela
<1>c. \A j \in Kerja : kerja'[j] # Kosong /\ kerja'[j].versi = akun'.versi =>
         j = k /\ kerja'[j].langkah = "simpan"
  BY <1>0, <1>b DEF KerjaTersela
<1>1. LangkahSah'
  <2> SUFFICES ASSUME NEW j \in Kerja, kerja'[j] # Kosong
      PROVE /\ kerja'[j].jenis = "masuk" => kerja'[j].langkah \in {"mulai", "simpan", "jawab"}
            /\ kerja'[j].jenis = "segar" => kerja'[j].langkah \in {"periksa", "mulai", "simpan", "jawab"}
            /\ kerja'[j].jenis = "keluar" => kerja'[j].langkah \in {"periksa", "cabut", "jawab"}
            /\ kerja'[j].langkah \in {"periksa", "mulai", "cabut"} => kerja'[j].versi = 0
            /\ kerja'[j].langkah = "simpan" => kerja'[j].versi # 0
            /\ kerja'[j].jenis = "masuk" /\ kerja'[j].langkah = "jawab" => kerja'[j].versi # 0
            /\ kerja'[j].jenis = "keluar" => kerja'[j].versi = 0
            /\ kerja'[j].jenis = "keluar" /\ kerja'[j].bersih /\ kerja'[j].langkah = "periksa" =>
                  kerja'[j].token # 0
    BY DEF LangkahSah
  <2>1. CASE j # k
    BY <2>1 DEF IInv, LangkahSah, KerjaTersela
  <2>2. CASE j = k
    BY <1>0, <2>2 DEF IInv, LangkahSah, KerjaTersela
  <2>. QED
    BY <2>1, <2>2
<1>2. VersiTerbatas'
  <2>1. ASSUME NEW j \in Kerja, kerja'[j] # Kosong PROVE kerja'[j].versi <= akun'.versi
    <3>1. kerja'[j].versi \in {kerja[j].versi, akun'.versi}
      BY <2>1 DEF KerjaTersela
    <3>. QED
      BY <1>0, <1>b, <2>1, <3>1
  <2>2. /\ \A b \in Peramban : kuki'[b].akses \in Nat /\ kuki'[b].segar \in Nat
        /\ \A m \in Minta : minta'[m] # Kosong => minta'[m].akses \in Nat
        /\ \A j \in Kerja : kerja'[j] # Kosong => kerja'[j].token \in Nat /\ kerja'[j].akses \in Nat
    BY LainUbah, MintaUbah, KerjaUbah DEF TypeOK
  <2>. QED
    BY <1>0, <1>a, <1>b, <2>1, <2>2 DEF VersiTerbatas
<1>3. TokenBerhash'
  <2>1. /\ \A b \in Peramban : kuki'[b].akses # akun'.versi /\ kuki'[b].segar # akun'.versi
        /\ \A m \in Minta : minta'[m] # Kosong => minta'[m].akses # akun'.versi
        /\ \A j \in Kerja : kerja'[j] # Kosong => kerja'[j].akses # akun'.versi
    BY <1>0, <1>a, <1>b
  <2>. QED
    BY <1>c, <2>1 DEF TokenBerhash
<1>4. PemegangTunggal'
  BY <1>0, <1>a, <1>c DEF PemegangTunggal, Pemegang
<1>5. \A b \in Peramban : /\ MintaDari(b)' \subseteq MintaDari(b) /\ MintaDari(b)' \subseteq Minta
                          /\ KerjaDari(b)' \subseteq KerjaDari(b)
  <2>1. \A m \in Minta : minta'[m] # Kosong /\ minta'[m].laman # Kosong =>
           minta[m] # Kosong /\ minta'[m].laman = minta[m].laman
    BY DEF MintaSurut
  <2>. QED
    BY <2>1 DEF KerjaTersela, MintaDari, KerjaDari, Ditunggu
<1>6. ASSUME NEW b \in Peramban PROVE TanpaSesi(b)'
  BY <1>0, <1>a DEF TanpaSesi, MintaDari, Ditunggu
<1>7. MatiSah'
  <2> SUFFICES ASSUME NEW b \in Peramban, riwayat'[b] = "mati",
                      NEW j \in KerjaDari(b)', kerja'[j].jenis = "segar"
               PROVE  FALSE
    BY <1>6 DEF MatiSah
  <2>1. j \in KerjaDari(b) /\ j \in Kerja /\ kerja[j].jenis = "segar"
    BY <1>5 DEF KerjaTersela, KerjaDari, Ditunggu
  <2>2. KerjaDari(b) \ {k} = {}
    BY DEF Naik, RiwayatNaik
  <2>3. j = k /\ p = b
    BY <2>1, <2>2
  <2>4. riwayat[b] = "mati"
    BY <2>2, <2>3 DEF Naik, RiwayatNaik
  <2>5. p # Kosong
    BY <2>3, SesiAssumption
  <2>. QED
    BY <2>1, <2>3, <2>4, <2>5 DEF IInv, MatiSah
<1>8. KeluarSah'
  <2> SUFFICES ASSUME NEW b \in Peramban, NEW i \in Kerja,
                      i \in KerjaDari(b)', kerja'[i].jenis = "keluar", kerja'[i].bersih
               PROVE  \A j \in KerjaDari(b)' : kerja'[j].versi = 0
    BY <1>6 DEF KeluarSah
  <2>1. i = k /\ i \in KerjaDari(b) /\ kerja[i].jenis = "keluar" /\ kerja[i].bersih
    BY <1>5 DEF KerjaTersela, KerjaDari, Ditunggu
  <2>2. \A j \in KerjaDari(b) : kerja[j].versi = 0
    BY <2>1 DEF IInv, KeluarSah
  <2>3. kerja[k].langkah # "mulai"
    BY <2>1 DEF IInv, LangkahSah, KerjaDari, Ditunggu
  <2>4. \A j \in KerjaDari(b)' : j \in Kerja /\ kerja'[j] # Kosong /\ j \in KerjaDari(b)
    BY <1>5 DEF KerjaDari, Ditunggu
  <2>. QED
    BY <2>1, <2>2, <2>3, <2>4 DEF KerjaTersela
<1>9. MasukSah'
  <2> SUFFICES ASSUME NEW j \in Kerja, kerja'[j] # Kosong, kerja'[j].jenis = "masuk", kerja'[j].bersih
               PROVE  kerja'[j].langkah = "simpan" /\ kerja'[j].versi = akun'.versi
    BY DEF MasukSah, Ditunggu
  <2>. QED
    BY DEF KerjaTersela
<1>10. HidupSah'
  <2> SUFFICES ASSUME NEW b \in Peramban, riwayat'[b] = "hidup" PROVE Terang(b)'
    BY DEF HidupSah
  <2>1. /\ KerjaDari(b) \ {k} = {} /\ b = p
        /\ \A m \in MintaDari(b) : ~minta[m].ulang
        /\ riwayat[b] = "hidup"
    BY DEF Naik, RiwayatNaik
  <2>2. b # Kosong
    BY SesiAssumption
  <2>3. k \in KerjaDari(b) /\ kerja[k].jenis = "segar" /\ kerja[k].langkah = "mulai" /\ kerja'[k] # Kosong
    BY <2>1, <2>2
  <2>4. KerjaDari(b)' = {k}
    <3>1. \A j \in KerjaDari(b)' : j = k
      BY <1>5, <2>1
    <3>2. k \in KerjaDari(b)'
      BY <2>3 DEF KerjaTersela, KerjaDari, Ditunggu
    <3>. QED
      BY <3>1, <3>2
  <2>5. kerja'[k].jenis = "segar" /\ kerja'[k].langkah = "simpan" /\ kerja'[k].versi = akun'.versi
    BY <2>3 DEF KerjaTersela, KerjaDari
  <2>6. \A m \in MintaDari(b)' : ~minta'[m].ulang
    BY <1>5, <2>1 DEF MintaSurut, MintaDari, Ditunggu
  <2>. QED
    BY <2>4, <2>5, <2>6 DEF Terang
<1>. QED
  BY <1>1, <1>2, <1>3, <1>4, <1>7, <1>8, <1>9, <1>10 DEF IInv

-----------------------------------------------------------------------------
(***************************************************************************)
(* What the steps do to the fields of jobs and requests.                   *)
(***************************************************************************)
\* A job let go of, or no longer alone, changes in that field only; its other
\* updates change what they name.
LEMMA KerjaMedan ==
    ASSUME NEW r \in KerjaAkun
    PROVE  /\ LET q == [r EXCEPT !.laman = Kosong]
              IN  /\ q.laman = Kosong /\ q.jenis = r.jenis /\ q.langkah = r.langkah /\ q.token = r.token
                  /\ q.versi = r.versi /\ q.akses = r.akses /\ q.bersih = r.bersih
           /\ LET q == [r EXCEPT !.bersih = FALSE]
              IN  /\ q.laman = r.laman /\ q.jenis = r.jenis /\ q.langkah = r.langkah /\ q.token = r.token
                  /\ q.versi = r.versi /\ q.akses = r.akses /\ q.bersih = FALSE
           /\ \A x \in {"mulai", "jawab", "cabut"} :
              LET q == [r EXCEPT !.langkah = x, !.token = 0]
              IN  /\ q.laman = r.laman /\ q.jenis = r.jenis /\ q.langkah = x /\ q.token = 0
                  /\ q.versi = r.versi /\ q.akses = r.akses /\ q.bersih = r.bersih
           /\ LET q == [r EXCEPT !.langkah = "jawab"]
              IN  /\ q.laman = r.laman /\ q.jenis = r.jenis /\ q.langkah = "jawab" /\ q.token = r.token
                  /\ q.versi = r.versi /\ q.akses = r.akses /\ q.bersih = r.bersih
           /\ \A v \in Nat :
              LET q == [r EXCEPT !.langkah = "jawab", !.akses = v]
              IN  /\ q.laman = r.laman /\ q.jenis = r.jenis /\ q.langkah = "jawab" /\ q.token = r.token
                  /\ q.versi = r.versi /\ q.akses = v /\ q.bersih = r.bersih
           /\ \A v \in Nat :
              LET q == [r EXCEPT !.langkah = "simpan", !.versi = v]
              IN  /\ q.laman = r.laman /\ q.jenis = r.jenis /\ q.langkah = "simpan" /\ q.token = r.token
                  /\ q.versi = v /\ q.akses = r.akses /\ q.bersih = r.bersih
BY DEF KerjaAkun

\* So does a request.
LEMMA MintaMedan ==
    ASSUME NEW r \in PermintaanApi
    PROVE  /\ LET q == [r EXCEPT !.laman = Kosong]
              IN  q.laman = Kosong /\ q.tahap = r.tahap /\ q.akses = r.akses /\ q.ulang = r.ulang
           /\ LET q == [r EXCEPT !.akses = 0]
              IN  q.laman = r.laman /\ q.tahap = r.tahap /\ q.akses = 0 /\ q.ulang = r.ulang
           /\ \A x \in {"401", "tulis", "tunggu"} :
              LET q == [r EXCEPT !.tahap = x, !.akses = 0]
              IN  q.laman = r.laman /\ q.tahap = x /\ q.akses = 0 /\ q.ulang = r.ulang
           /\ \A v \in Nat :
              LET q == [r EXCEPT !.tahap = "server", !.akses = v, !.ulang = TRUE]
              IN  q.laman = r.laman /\ q.tahap = "server" /\ q.akses = v /\ q.ulang = TRUE
BY DEF PermintaanApi

\* Whatever is under way is a record, of a page or of none.
LEMMA Isi ==
    ASSUME TypeOK
    PROVE  /\ \A k \in Kerja : kerja[k] # Kosong =>
                 kerja[k] \in KerjaAkun /\ kerja[k].laman \in Laman \cup {Kosong}
           /\ \A m \in Minta : minta[m] # Kosong =>
                 minta[m] \in PermintaanApi /\ minta[m].laman \in Laman \cup {Kosong}
           /\ \A l \in Laman : l # Kosong /\ Milik[l] \in Peramban
           /\ Kosong \notin Kerja /\ Kosong \notin Peramban
BY KerjaUbah, MintaUbah, SesiAssumption DEF TypeOK

\* The version of the row is positive.
LEMMA VersiPositif == IInv => akun.versi \in Nat /\ akun.versi > 0
BY LainUbah DEF IInv, VersiTerbatas, TypeOK

-----------------------------------------------------------------------------
(***************************************************************************)
(* The steps that only take away.                                          *)
(***************************************************************************)
\* Putting the page l on the login takes from its browser only.
LEMMA UsirSurut ==
    ASSUME TypeOK, NEW l \in Laman, NEW W, NEW k, NEW r, NEW muat, Usir(l, W, k, r, muat),
           \A m \in W : m \in Minta /\ minta[m] # Kosong => minta[m].laman = l,
           k \in Kerja => kerja[k] # Kosong /\ kerja[k].laman = l,
           k \in Kerja => r \in {Kosong, [kerja[k] EXCEPT !.laman = Kosong]}
    PROVE  /\ MintaSurut /\ KerjaSurut
           /\ \A b \in Peramban : b # Milik[l] =>
                 /\ \A j \in KerjaDari(b) : kerja'[j] = kerja[j]
                 /\ UlangTetap(b)
<1>1. ASSUME NEW m \in Minta, minta'[m] # Kosong
      PROVE  /\ minta[m] # Kosong
             /\ \/ minta'[m] = minta[m]
                \/ minta[m].laman = l /\ minta'[m] = [minta[m] EXCEPT !.laman = Kosong]
  BY <1>1 DEF Usir
<1>m. ASSUME NEW m \in Minta, minta[m] # Kosong
      PROVE  LET q == [minta[m] EXCEPT !.laman = Kosong]
             IN  /\ q.laman = Kosong /\ q.tahap = minta[m].tahap
                 /\ q.akses = minta[m].akses /\ q.ulang = minta[m].ulang
  <2>1. minta[m] \in PermintaanApi
    BY <1>m, Isi
  <2>. QED
    BY <2>1, MintaMedan
<1>2. MintaSurut
  <2> SUFFICES ASSUME NEW m \in Minta, minta'[m] # Kosong
               PROVE  /\ minta[m] # Kosong
                      /\ minta'[m].laman \in {minta[m].laman, Kosong}
                      /\ minta'[m].akses \in {minta[m].akses, 0} /\ minta'[m].ulang = minta[m].ulang
    BY DEF MintaSurut
  <2>. QED
    BY <1>1, <1>m
<1>3. ASSUME NEW j \in Kerja
      PROVE  \/ kerja'[j] = kerja[j]
             \/ kerja[j] # Kosong /\ kerja[j].laman = l
                /\ kerja'[j] \in {Kosong, [kerja[j] EXCEPT !.laman = Kosong]}
  BY DEF Usir
<1>4. KerjaSurut
  <2> SUFFICES ASSUME NEW j \in Kerja, kerja'[j] # Kosong
      PROVE /\ kerja[j] # Kosong
            /\ kerja'[j].laman \in {kerja[j].laman, Kosong}
            /\ kerja'[j].jenis = kerja[j].jenis /\ kerja'[j].langkah = kerja[j].langkah
            /\ kerja'[j].token = kerja[j].token /\ kerja'[j].versi = kerja[j].versi
            /\ kerja'[j].akses = kerja[j].akses /\ kerja'[j].bersih = kerja[j].bersih
    BY DEF KerjaSurut
  <2>1. kerja[j] # Kosong
    BY <1>3
  <2>2. kerja[j] \in KerjaAkun
    BY <2>1, Isi
  <2>3. CASE kerja'[j] = kerja[j]
    BY <2>1, <2>3
  <2>4. CASE kerja'[j] = [kerja[j] EXCEPT !.laman = Kosong]
    BY <2>1, <2>2, <2>4, KerjaMedan
  <2>. QED
    BY <1>3, <2>3, <2>4
<1>5. ASSUME NEW b \in Peramban, b # Milik[l]
      PROVE  /\ \A j \in KerjaDari(b) : kerja'[j] = kerja[j]
             /\ UlangTetap(b)
  <2>1. \A j \in KerjaDari(b) : kerja'[j] = kerja[j]
    BY <1>3, <1>5 DEF KerjaDari, Ditunggu
  <2>2. ASSUME NEW m \in MintaDari(b)' PROVE m \in MintaDari(b) /\ minta'[m] = minta[m]
    <3>1. m \in Minta /\ minta'[m] # Kosong /\ minta'[m].laman # Kosong /\ Milik[minta'[m].laman] = b
      BY <2>2 DEF MintaDari, Ditunggu
    <3>2. minta'[m] = minta[m]
      BY <1>1, <1>m, <3>1
    <3>. QED
      BY <3>1, <3>2 DEF MintaDari, Ditunggu
  <2>. QED
    BY <2>1, <2>2 DEF UlangTetap
<1>. QED
  BY <1>2, <1>4, <1>5

\* What a browser is left with when neither its cookies nor its jobs are touched.
LEMMA SurutLain ==
    ASSUME TypeOK, akun' = akun, kuki' = kuki, riwayat' = riwayat, MintaSurut, KerjaSurut,
           \A b \in Peramban : riwayat[b] = "hidup" =>
              (\A k \in KerjaDari(b) : kerja'[k] = kerja[k]) /\ UlangTetap(b)
    PROVE  Surut
BY DEF Surut

\* A retry of an undisturbed browser is not refused.
LEMMA UlangDiterima ==
    ASSUME IInv, NEW m \in Minta, MintaPada(m, "401"), minta[m].ulang, minta[m].laman # Kosong
    PROVE  riwayat[Milik[minta[m].laman]] # "hidup"
<1>1. minta[m].laman \in Laman /\ Milik[minta[m].laman] \in Peramban
  BY Isi DEF IInv, MintaPada
<1>2. m \in MintaDari(Milik[minta[m].laman])
  BY DEF MintaDari, Ditunggu, MintaPada
<1>. QED
  BY <1>1, <1>2 DEF IInv, HidupSah, Terang, MintaPada

\* Its refresh is not refused either.
LEMMA SegarDiterima ==
    ASSUME IInv, NEW k \in Kerja, Pada(k, "segar", "jawab"), kerja[k].laman # Kosong, kerja[k].versi = 0
    PROVE  riwayat[Milik[kerja[k].laman]] # "hidup"
<1>1. kerja[k].laman \in Laman /\ Milik[kerja[k].laman] \in Peramban
  BY Isi DEF IInv, Pada
<1>2. k \in KerjaDari(Milik[kerja[k].laman])
  BY DEF KerjaDari, Ditunggu, Pada
<1>. QED
  BY <1>1, <1>2, VersiPositif DEF IInv, HidupSah, Terang, Pada

\* A refused retry takes away only.
LEMMA UlangDitolakSurut ==
    ASSUME IInv, NEW m \in Minta, UlangDitolak(m)
    PROVE  Surut
<1>. DEFINE l == minta[m].laman
<1>1. l \in Laman /\ minta[m] # Kosong
  BY Isi DEF IInv, UlangDitolak, MintaPada
<1>2. PICK muat : Usir(l, {m}, Kosong, Kosong, muat)
  BY DEF UlangDitolak
<1>3. /\ MintaSurut /\ KerjaSurut
      /\ \A b \in Peramban : b # Milik[l] =>
            (\A j \in KerjaDari(b) : kerja'[j] = kerja[j]) /\ UlangTetap(b)
  BY <1>1, <1>2, Isi, UsirSurut DEF IInv
<1>4. riwayat[Milik[l]] # "hidup"
  BY UlangDiterima DEF UlangDitolak
<1>. QED
  BY <1>3, <1>4, SurutLain DEF UlangDitolak, server, IInv

\* So does a refused refresh.
LEMMA SegarDitolakSurut ==
    ASSUME IInv, NEW k \in Kerja, SegarDitolak(k)
    PROVE  Surut
<1>. DEFINE l == kerja[k].laman
<1>1. l \in Laman /\ kerja[k] # Kosong
  BY Isi DEF IInv, SegarDitolak, Pada
<1>2. PICK muat : Usir(l, Penunggu(l), k, Kosong, muat)
  BY DEF SegarDitolak
<1>3. /\ MintaSurut /\ KerjaSurut
      /\ \A b \in Peramban : b # Milik[l] =>
            (\A j \in KerjaDari(b) : kerja'[j] = kerja[j]) /\ UlangTetap(b)
  BY <1>1, <1>2, UsirSurut DEF IInv, Penunggu
<1>4. riwayat[Milik[l]] # "hidup"
  BY SegarDiterima DEF SegarDitolak
<1>. QED
  BY <1>3, <1>4, SurutLain DEF SegarDitolak, server, IInv

\* Rusak disturbs one browser.
LEMMA RusakSurut ==
    ASSUME TypeOK, NEW b \in Peramban, Rusak(b)
    PROVE  /\ riwayat'[b] # "hidup"
           /\ \A c \in Peramban : c # b => riwayat'[c] = riwayat[c]
           /\ \A c \in Peramban : riwayat'[c] = "mati" => riwayat[c] = "mati"
BY DEF Rusak, TypeOK, Nasib

\* And a refresh whose fetch fails.
LEMMA SegarPutusSurut ==
    ASSUME IInv, NEW k \in Kerja, SegarPutus(k)
    PROVE  Surut
<1>. DEFINE l == kerja[k].laman
<1>1. l \in Laman /\ kerja[k] # Kosong /\ Milik[l] \in Peramban
  BY Isi DEF IInv, SegarPutus, Ditunggu
<1>2. PICK muat : Usir(l, Penunggu(l), k, TerusDiServer(k), muat)
  BY DEF SegarPutus
<1>3. /\ MintaSurut /\ KerjaSurut
      /\ \A b \in Peramban : b # Milik[l] =>
            (\A j \in KerjaDari(b) : kerja'[j] = kerja[j]) /\ UlangTetap(b)
  BY <1>1, <1>2, UsirSurut DEF IInv, Penunggu, TerusDiServer
<1>4. /\ riwayat'[Milik[l]] # "hidup"
      /\ \A c \in Peramban : c # Milik[l] => riwayat'[c] = riwayat[c]
      /\ \A c \in Peramban : riwayat'[c] = "mati" => riwayat[c] = "mati"
  BY <1>1, RusakSurut DEF SegarPutus, IInv
<1>. QED
  BY <1>3, <1>4 DEF SegarPutus, Surut

\* And a login or a logout that the page gives up.
LEMMA KerjaPutusSurut ==
    ASSUME IInv, NEW k \in Kerja, KerjaPutus(k)
    PROVE  Surut
<1>. DEFINE l == kerja[k].laman
<1>1. l \in Laman /\ kerja[k] \in KerjaAkun /\ kerja[k] # Kosong /\ Milik[l] \in Peramban
  BY Isi DEF IInv, KerjaPutus, Ditunggu
<1>2. /\ kerja'[k] = [kerja[k] EXCEPT !.laman = Kosong]
      /\ \A j \in Kerja : j # k => kerja'[j] = kerja[j]
  BY DEF KerjaPutus, TerusDiServer, IInv, TypeOK
<1>3. KerjaSurut
  <2>1. /\ kerja'[k].laman = Kosong
        /\ kerja'[k].jenis = kerja[k].jenis /\ kerja'[k].langkah = kerja[k].langkah
        /\ kerja'[k].token = kerja[k].token /\ kerja'[k].versi = kerja[k].versi
        /\ kerja'[k].akses = kerja[k].akses /\ kerja'[k].bersih = kerja[k].bersih
    BY <1>1, <1>2, KerjaMedan
  <2>. QED
    BY <1>1, <1>2, <2>1 DEF KerjaSurut
<1>4. /\ riwayat'[Milik[l]] # "hidup"
      /\ \A c \in Peramban : c # Milik[l] => riwayat'[c] = riwayat[c]
      /\ \A c \in Peramban : riwayat'[c] = "mati" => riwayat[c] = "mati"
  BY <1>1, RusakSurut DEF KerjaPutus, IInv
<1>5. minta' = minta /\ MintaSurut /\ \A b \in Peramban : UlangTetap(b)
  BY DEF KerjaPutus, MintaSurut, UlangTetap, MintaDari, Ditunggu
<1>6. \A b \in Peramban : b # Milik[l] => \A j \in KerjaDari(b) : kerja'[j] = kerja[j]
  BY <1>2 DEF KerjaDari
<1>. QED
  BY <1>3, <1>4, <1>5, <1>6 DEF KerjaPutus, Surut

\* And a job nobody waits for.
LEMMA HilangSurut ==
    ASSUME IInv, NEW k \in Kerja, Hilang(k)
    PROVE  Surut
<1>1. MintaSurut /\ \A b \in Peramban : UlangTetap(b)
  BY DEF Hilang, klien, MintaSurut, UlangTetap, MintaDari, Ditunggu
<1>2. kerja'[k] = Kosong /\ \A j \in Kerja : j # k => kerja'[j] = kerja[j]
  BY DEF Hilang, IInv, TypeOK
<1>3. KerjaSurut
  BY <1>2 DEF KerjaSurut
<1>4. \A b \in Peramban : \A j \in KerjaDari(b) : kerja'[j] = kerja[j]
  BY <1>2 DEF Hilang, KerjaDari, Ditunggu
<1>. QED
  BY <1>1, <1>3, <1>4, SurutLain DEF Hilang, server, klien, IInv

\* A request whose update is legal and which is no retry, or a retry let through,
\* leaves the rest as it was.
LEMMA SatuMinta ==
    ASSUME TypeOK, NEW m \in Minta, minta[m] # Kosong,
           \A n \in Minta : n # m => minta'[n] = minta[n],
           \/ minta'[m] = Kosong
           \/ minta'[m] = [minta[m] EXCEPT !.laman = Kosong]
           \/ \E x \in {"401", "tulis", "tunggu"} : minta'[m] = [minta[m] EXCEPT !.tahap = x, !.akses = 0]
    PROVE  /\ MintaSurut
           /\ \A b \in Peramban :
                 m \notin MintaDari(b) \/ ~minta[m].ulang \/ minta'[m] = Kosong \/ minta'[m].tahap = "tulis"
                 \/ minta'[m].laman = Kosong
                 => UlangTetap(b)
<1>1. minta[m] \in PermintaanApi
  BY Isi
<1>2. minta'[m] # Kosong => /\ minta'[m].laman \in {minta[m].laman, Kosong}
                            /\ minta'[m].akses \in {minta[m].akses, 0}
                            /\ minta'[m].ulang = minta[m].ulang
  <2>1. CASE minta'[m] = [minta[m] EXCEPT !.laman = Kosong]
    BY <1>1, <2>1, MintaMedan
  <2>2. ASSUME NEW x \in {"401", "tulis", "tunggu"}, minta'[m] = [minta[m] EXCEPT !.tahap = x, !.akses = 0]
        PROVE  minta'[m].laman = minta[m].laman /\ minta'[m].akses = 0 /\ minta'[m].ulang = minta[m].ulang
    BY <1>1, <2>2, MintaMedan
  <2>. QED
    BY <2>1, <2>2
<1>3. MintaSurut
  BY <1>2 DEF MintaSurut
<1>4. ASSUME NEW b \in Peramban,
             m \notin MintaDari(b) \/ ~minta[m].ulang \/ minta'[m] = Kosong \/ minta'[m].tahap = "tulis"
             \/ minta'[m].laman = Kosong,
             NEW n \in MintaDari(b)', minta'[n].ulang
      PROVE  /\ n \in MintaDari(b) /\ minta[n].ulang
             /\ minta'[n].tahap = "tulis" \/ minta'[n] = minta[n]
  <2>1. n \in Minta /\ minta'[n] # Kosong /\ minta'[n].laman # Kosong /\ Milik[minta'[n].laman] = b
    BY DEF MintaDari, Ditunggu
  <2>2. CASE n # m
    BY <1>4, <2>1, <2>2 DEF MintaDari, Ditunggu
  <2>3. CASE n = m
    <3>1. minta'[m].laman = minta[m].laman /\ minta[m].ulang
      BY <1>2, <1>4, <2>1, <2>3
    <3>2. n \in MintaDari(b)
      BY <2>1, <2>3, <3>1 DEF MintaDari, Ditunggu
    <3>. QED
      BY <1>4, <2>1, <2>3, <3>1, <3>2
  <2>. QED
    BY <2>2, <2>3
<1>5. \A b \in Peramban :
         m \notin MintaDari(b) \/ ~minta[m].ulang \/ minta'[m] = Kosong \/ minta'[m].tahap = "tulis"
         \/ minta'[m].laman = Kosong
         => UlangTetap(b)
  BY <1>4 DEF UlangTetap
<1>. QED
  BY <1>3, <1>5

\* Unchanged jobs are unchanged.
LEMMA KerjaTetap ==
    kerja' = kerja => KerjaSurut /\ \A b \in Peramban : \A k \in KerjaDari(b) : kerja'[k] = kerja[k]
BY DEF KerjaSurut

\* The guard takes away only: a retry of an undisturbed browser is let through.
LEMMA LayaniSurut ==
    ASSUME IInv, NEW m \in Minta, Layani(m)
    PROVE  Surut
<1>1. minta[m] # Kosong /\ minta[m].tahap = "server" /\ minta[m] \in PermintaanApi
  BY Isi DEF IInv, Layani, MintaPada
<1>2. /\ \A n \in Minta : n # m => minta'[n] = minta[n]
      /\ \/ minta'[m] = Kosong
         \/ minta'[m] = [minta[m] EXCEPT !.tahap = "tulis", !.akses = 0]
         \/ ~AksesSah(minta[m].akses) /\ minta'[m] = [minta[m] EXCEPT !.tahap = "401", !.akses = 0]
  BY DEF Layani, Akhiri, Tahap, IInv, TypeOK
<1>3. [minta[m] EXCEPT !.tahap = "tulis", !.akses = 0].tahap = "tulis"
  BY <1>1, MintaMedan
<1>4. ASSUME NEW b \in Peramban, riwayat[b] = "hidup" PROVE UlangTetap(b)
  <2>1. m \in MintaDari(b) /\ minta[m].ulang => AksesSah(minta[m].akses)
    BY <1>1, <1>4, VersiPositif DEF IInv, HidupSah, Terang, AksesSah
  <2>. QED
    BY <1>1, <1>2, <1>3, <2>1, SatuMinta DEF IInv
<1>5. MintaSurut
  BY <1>1, <1>2, SatuMinta DEF IInv
<1>. QED
  BY <1>4, <1>5, KerjaTetap, SurutLain DEF Layani, server, IInv

\* A wrong secret disturbs the browser that sent it.
LEMMA RahasiaSalahSurut ==
    ASSUME IInv, NEW m \in Minta, RahasiaSalah(m)
    PROVE  Surut
<1>1. minta[m] # Kosong
  BY DEF RahasiaSalah, MintaPada
<1>2. /\ \A n \in Minta : n # m => minta'[n] = minta[n]
      /\ minta'[m] = [minta[m] EXCEPT !.tahap = "401", !.akses = 0]
  BY DEF RahasiaSalah, Tahap, IInv, TypeOK
<1>3. \A b \in Peramban : /\ riwayat'[b] = "mati" => riwayat[b] = "mati"
                          /\ riwayat'[b] = "hidup" => riwayat[b] = "hidup" /\ m \notin MintaDari(b)
  BY DEF RahasiaSalah
<1>4. MintaSurut /\ \A b \in Peramban : m \notin MintaDari(b) => UlangTetap(b)
  BY <1>1, <1>2, SatuMinta DEF IInv
<1>. QED
  BY <1>3, <1>4, KerjaTetap DEF RahasiaSalah, Surut

\* A request whose answer nobody waits for, or never comes, goes.
LEMMA MintaPergiSurut ==
    ASSUME IInv, NEW m \in Minta, MintaHilang(m) \/ MintaPutus(m)
    PROVE  Surut
<1>1. minta[m] # Kosong /\ minta[m] \in PermintaanApi
  BY Isi DEF IInv, MintaHilang, MintaPutus, MintaPada, Ditunggu
<1>2. /\ \A n \in Minta : n # m => minta'[n] = minta[n]
      /\ minta'[m] = Kosong \/ minta'[m] = [minta[m] EXCEPT !.laman = Kosong]
  BY DEF MintaHilang, MintaPutus, Akhiri, IInv, TypeOK
<1>3. [minta[m] EXCEPT !.laman = Kosong].laman = Kosong
  BY <1>1, MintaMedan
<1>4. MintaSurut /\ \A b \in Peramban : UlangTetap(b)
  BY <1>1, <1>2, <1>3, SatuMinta DEF IInv
<1>. QED
  BY <1>4, KerjaTetap, SurutLain DEF MintaHilang, MintaPutus, server, IInv

\* The expiry of the access token touches no retry.
LEMMA AksesHabisSurut ==
    ASSUME IInv, NEW b \in Peramban, AksesHabis(b)
    PROVE  Surut
<1>1. ASSUME NEW m \in Minta
      PROVE  \/ minta'[m] = minta[m]
             \/ minta[m] # Kosong /\ ~minta[m].ulang /\ minta'[m] = [minta[m] EXCEPT !.akses = 0]
  BY DEF AksesHabis, MintaDari, Ditunggu
<1>2. ASSUME NEW m \in Minta, minta[m] # Kosong
      PROVE  LET q == [minta[m] EXCEPT !.akses = 0]
             IN  q.laman = minta[m].laman /\ q.akses = 0 /\ q.ulang = minta[m].ulang
  <2>1. minta[m] \in PermintaanApi
    BY <1>2, Isi DEF IInv
  <2>. QED
    BY <2>1, MintaMedan
<1>3. MintaSurut
  <2> SUFFICES ASSUME NEW m \in Minta, minta'[m] # Kosong
               PROVE  /\ minta[m] # Kosong
                      /\ minta'[m].laman \in {minta[m].laman, Kosong}
                      /\ minta'[m].akses \in {minta[m].akses, 0} /\ minta'[m].ulang = minta[m].ulang
    BY DEF MintaSurut
  <2>. QED
    BY <1>1, <1>2
<1>4. ASSUME NEW c \in Peramban, NEW m \in MintaDari(c)', minta'[m].ulang
      PROVE  m \in MintaDari(c) /\ minta'[m] = minta[m]
  <2>1. m \in Minta /\ minta'[m] # Kosong /\ minta'[m].laman # Kosong /\ Milik[minta'[m].laman] = c
    BY DEF MintaDari, Ditunggu
  <2>2. minta'[m] = minta[m]
    BY <1>1, <1>2, <1>4, <2>1
  <2>. QED
    BY <2>1, <2>2 DEF MintaDari, Ditunggu
<1>5. \A c \in Peramban : UlangTetap(c)
  BY <1>4 DEF UlangTetap
<1>6. \A c \in Peramban : kuki'[c].akses \in {kuki[c].akses, 0} /\ kuki'[c].segar = kuki[c].segar
  BY DEF AksesHabis, IInv, TypeOK, Kuki
<1>. QED
  BY <1>3, <1>5, <1>6, KerjaTetap DEF AksesHabis, server, Surut

\* The expiry of the refresh token ends the session of a browser left alone.
LEMMA SegarHabisSurut ==
    ASSUME IInv, NEW b \in Peramban, SegarHabis(b)
    PROVE  Surut
<1>1. /\ kuki'[b].akses = 0 /\ kuki'[b].segar = 0
      /\ \A c \in Peramban : c # b => kuki'[c] = kuki[c]
  BY DEF SegarHabis, IInv, TypeOK, Kuki
<1>2. MintaDari(b)' = {} /\ KerjaDari(b)' = {}
  BY DEF SegarHabis, MintaDari, KerjaDari, Ditunggu
<1>3. /\ riwayat'[b] # "hidup"
      /\ \A c \in Peramban : c # b => riwayat'[c] = riwayat[c]
  BY DEF SegarHabis, IInv, TypeOK, Nasib
<1>4. MintaSurut /\ \A c \in Peramban : UlangTetap(c)
  BY DEF SegarHabis, MintaSurut, UlangTetap, MintaDari, Ditunggu
<1>5. \A c \in Peramban : kuki'[c].akses \in {kuki[c].akses, 0} /\ kuki'[c].segar \in {kuki[c].segar, 0}
  BY <1>1
<1>. QED
  BY <1>1, <1>2, <1>3, <1>4, <1>5, KerjaTetap DEF SegarHabis, Surut

\* Navigation and stuttering touch none of this.
LEMMA DiamSurut ==
    ASSUME TypeOK, UNCHANGED <<server, kuki, minta, kerja>>
    PROVE  Surut
<1>1. MintaSurut /\ \A c \in Peramban : UlangTetap(c)
  BY DEF MintaSurut, UlangTetap, MintaDari, Ditunggu
<1>. QED
  BY <1>1, KerjaTetap, SurutLain DEF server

-----------------------------------------------------------------------------
(***************************************************************************)
(* The steps that send a job, and those that raise the version.            *)
(***************************************************************************)
\* Login and logout.
LEMMA MasukKeluarAman ==
    ASSUME IInv, TypeOK', NEW l \in Laman, Masuk(l) \/ Keluar(l)
    PROVE  IInv'
<1>1. MintaSurut /\ \A b \in Peramban : UlangTetap(b)
  BY DEF Masuk, Keluar, klien, MintaSurut, UlangTetap, MintaDari, Ditunggu
<1>2. CASE Masuk(l)
  <2>1. MulaiKerja("masuk", l, "mulai", 0) /\ akun' = akun /\ kuki' = kuki
    BY <1>2 DEF Masuk, klien
  <2>. QED
    BY <1>1, <2>1, MulaiKerjaAman
<1>3. CASE Keluar(l)
  <2>1. MulaiKerja("keluar", l, "periksa", kuki[Milik[l]].segar) /\ akun' = akun /\ kuki' = kuki
    BY <1>3 DEF Keluar, klien
  <2>. QED
    BY <1>1, <2>1, MulaiKerjaAman
<1>. QED
  BY <1>2, <1>3

\* A request joins the refresh of its page or starts it.
LEMMA TungguSegarAman ==
    ASSUME IInv, TypeOK', NEW m \in Minta, TungguSegar(m)
    PROVE  IInv'
<1>. DEFINE l == minta[m].laman
<1>1. l \in Laman /\ minta[m] # Kosong /\ ~minta[m].ulang
  BY Isi DEF IInv, TungguSegar, MintaPada
<1>2. /\ \A n \in Minta : n # m => minta'[n] = minta[n]
      /\ minta'[m] = [minta[m] EXCEPT !.tahap = "tunggu", !.akses = 0]
  BY DEF TungguSegar, Tahap, IInv, TypeOK
<1>3. MintaSurut /\ \A b \in Peramban : UlangTetap(b)
  BY <1>1, <1>2, SatuMinta DEF IInv
<1>4. akun' = akun /\ kuki' = kuki
  BY DEF TungguSegar
<1>5. CASE laman[l].segar # Kosong
  <2>1. kerja' = kerja /\ riwayat' = riwayat
    BY <1>5 DEF TungguSegar
  <2>2. Surut
    BY <1>3, <1>4, <2>1, KerjaTetap, SurutLain DEF IInv
  <2>. QED
    BY <2>2, SurutAman
<1>6. CASE laman[l].segar = Kosong
  <2>1. MulaiKerja("segar", l, "periksa", kuki[Milik[l]].segar)
    BY <1>6 DEF TungguSegar
  <2>. QED
    BY <1>1, <1>3, <1>4, <2>1, MulaiKerjaAman
<1>. QED
  BY <1>5, <1>6

\* The flag of a job beside k is lowered, and nothing else.
LEMMA TerselaMedan ==
    ASSUME TypeOK, NEW k, NEW j \in Kerja, j # k, kerja[j] # Kosong
    PROVE  /\ Tersela(k)[j] # Kosong
           /\ Tersela(k)[j].laman = kerja[j].laman /\ Tersela(k)[j].jenis = kerja[j].jenis
           /\ Tersela(k)[j].langkah = kerja[j].langkah /\ Tersela(k)[j].token = kerja[j].token
           /\ Tersela(k)[j].versi = kerja[j].versi /\ Tersela(k)[j].akses = kerja[j].akses
           /\ ~Tersela(k)[j].bersih
<1>1. kerja[j] \in KerjaAkun
  BY Isi
<1>2. Tersela(k)[j] = [kerja[j] EXCEPT !.bersih = FALSE]
  BY DEF Tersela
<1>3. Tersela(k)[j] # Kosong
  <2>1. [kerja[j] EXCEPT !.bersih = FALSE] \in KerjaAkun
    BY <1>1, KerjaUbah
  <2>. QED
    BY <1>2, <2>1, KosongAssumption
<1>. DEFINE q == [kerja[j] EXCEPT !.bersih = FALSE]
<1>4. /\ q.laman = kerja[j].laman /\ q.jenis = kerja[j].jenis /\ q.langkah = kerja[j].langkah
      /\ q.token = kerja[j].token /\ q.versi = kerja[j].versi /\ q.akses = kerja[j].akses
      /\ q.bersih = FALSE
  BY <1>1, KerjaMedan
<1>. QED
  BY <1>2, <1>3, <1>4

\* startSession.
LEMMA MulaiSesiAman ==
    ASSUME IInv, TypeOK', NEW k \in Kerja, MulaiSesi(k)
    PROVE  IInv'
<1>. DEFINE p == IF kerja[k].jenis = "segar" /\ kerja[k].laman # Kosong
                 THEN Milik[kerja[k].laman] ELSE Kosong
<1>1. /\ kerja[k] # Kosong /\ kerja[k] \in KerjaAkun /\ kerja[k].langkah = "mulai"
      /\ kerja[k].laman \in Laman \cup {Kosong} /\ Naik(k, p)
  BY Isi DEF IInv, MulaiSesi
<1>2. akun'.versi \in Nat
  BY LainUbah DEF TypeOK
<1>3. Tersela(k)[k] = kerja[k]
  BY DEF Tersela
<1>4. /\ kerja'[k] = [kerja[k] EXCEPT !.langkah = "simpan", !.versi = akun'.versi]
      /\ \A j \in Kerja : j # k => kerja'[j] = Tersela(k)[j]
  BY <1>3, TerselaType DEF MulaiSesi, IInv
<1>5. /\ kerja'[k] # Kosong
      /\ kerja'[k].laman = kerja[k].laman /\ kerja'[k].jenis = kerja[k].jenis
      /\ kerja'[k].langkah = "simpan" /\ kerja'[k].token = kerja[k].token
      /\ kerja'[k].versi = akun'.versi /\ kerja'[k].akses = kerja[k].akses
      /\ kerja'[k].bersih = kerja[k].bersih
  <2>. DEFINE q == [kerja[k] EXCEPT !.langkah = "simpan", !.versi = akun'.versi]
  <2>1. q \in KerjaAkun
    BY <1>1, <1>2, KerjaUbah
  <2>2. /\ q.laman = kerja[k].laman /\ q.jenis = kerja[k].jenis /\ q.langkah = "simpan"
        /\ q.token = kerja[k].token /\ q.versi = akun'.versi /\ q.akses = kerja[k].akses
        /\ q.bersih = kerja[k].bersih
    BY <1>1, <1>2, KerjaMedan
  <2>. QED
    BY <1>4, <2>1, <2>2, KosongAssumption
<1>6. ASSUME NEW j \in Kerja, j # k, kerja'[j] # Kosong PROVE kerja[j] # Kosong
  BY <1>4, <1>6 DEF Tersela
<1>7. KerjaTersela(k)
  <2>1. ASSUME NEW j \in Kerja, j # k, kerja'[j] # Kosong
        PROVE  /\ kerja[j] # Kosong
               /\ kerja'[j].laman = kerja[j].laman /\ kerja'[j].jenis = kerja[j].jenis
               /\ kerja'[j].langkah = kerja[j].langkah /\ kerja'[j].token = kerja[j].token
               /\ kerja'[j].versi = kerja[j].versi /\ kerja'[j].akses = kerja[j].akses
               /\ ~kerja'[j].bersih
    BY <1>4, <1>6, <2>1, TerselaMedan DEF IInv
  <2>. QED
    BY <1>1, <1>5, <2>1 DEF KerjaTersela
<1>8. kuki' = kuki /\ MintaSurut
  BY DEF MulaiSesi, klien, MintaSurut
<1>9. p # Kosong => k \in KerjaDari(p) /\ kerja[k].jenis = "segar"
  BY <1>1 DEF KerjaDari, Ditunggu
<1>10. kerja[k].jenis = "segar" => \A b \in Peramban : k \in KerjaDari(b) => p = b
  BY DEF KerjaDari, Ditunggu
<1>. HIDE DEF p
<1>. QED
  BY <1>1, <1>5, <1>7, <1>8, <1>9, <1>10, NaikAman

\* revokeSession.
LEMMA CabutAman ==
    ASSUME IInv, TypeOK', NEW k \in Kerja, Cabut(k)
    PROVE  IInv'
<1>1. /\ kerja[k] # Kosong /\ kerja[k] \in KerjaAkun
      /\ kerja[k].jenis = "keluar" /\ Naik(k, Kosong)
  BY Isi DEF IInv, Cabut, Pada
<1>3. Tersela(k)[k] = kerja[k]
  BY DEF Tersela
<1>4. /\ kerja'[k] = [kerja[k] EXCEPT !.langkah = "jawab"]
      /\ \A j \in Kerja : j # k => kerja'[j] = Tersela(k)[j]
  BY <1>3, TerselaType DEF Cabut, IInv
<1>5. /\ kerja'[k].laman = kerja[k].laman /\ kerja'[k].jenis = kerja[k].jenis
      /\ kerja'[k].langkah = "jawab" /\ kerja'[k].token = kerja[k].token
      /\ kerja'[k].versi = kerja[k].versi /\ kerja'[k].akses = kerja[k].akses
      /\ kerja'[k].bersih = kerja[k].bersih
  BY <1>1, <1>4, KerjaMedan
<1>6. ASSUME NEW j \in Kerja, j # k, kerja'[j] # Kosong PROVE kerja[j] # Kosong
  BY <1>4, <1>6 DEF Tersela
<1>7. KerjaTersela(k)
  <2>1. ASSUME NEW j \in Kerja, j # k, kerja'[j] # Kosong
        PROVE  /\ kerja[j] # Kosong
               /\ kerja'[j].laman = kerja[j].laman /\ kerja'[j].jenis = kerja[j].jenis
               /\ kerja'[j].langkah = kerja[j].langkah /\ kerja'[j].token = kerja[j].token
               /\ kerja'[j].versi = kerja[j].versi /\ kerja'[j].akses = kerja[j].akses
               /\ ~kerja'[j].bersih
    BY <1>4, <1>6, <2>1, TerselaMedan DEF IInv
  <2>. QED
    BY <1>1, <1>5, <2>1 DEF KerjaTersela
<1>8. kuki' = kuki /\ MintaSurut
  BY DEF Cabut, klien, MintaSurut
<1>. QED
  BY <1>1, <1>7, <1>8, NaikAman

\* changePassword.
LEMMA TulisSandiAman ==
    ASSUME IInv, TypeOK', NEW m \in Minta, TulisSandi(m)
    PROVE  IInv'
<1>1. Naik(Kosong, Kosong) /\ kuki' = kuki /\ minta[m] # Kosong
  BY DEF TulisSandi, MintaPada
<1>2. MintaSurut
  BY DEF TulisSandi, Akhiri, MintaSurut, IInv, TypeOK
<1>3. Kosong \notin Kerja
  BY Isi DEF IInv
<1>4. ASSUME NEW j \in Kerja, kerja'[j] # Kosong PROVE kerja[j] # Kosong
  BY <1>4 DEF TulisSandi, Tersela
<1>5. KerjaTersela(Kosong)
  BY <1>3, <1>4, TerselaMedan DEF TulisSandi, KerjaTersela, IInv
<1>. QED
  BY <1>1, <1>2, <1>3, <1>5, NaikAman

-----------------------------------------------------------------------------
(***************************************************************************)
(* The other steps of a job.                                               *)
(***************************************************************************)
\* The checks of refreshSession and logout: a refresh of an undisturbed browser is
\* let through, one of an ended session is not, and a logout by itself is refused
\* only when the row has no hash.
LEMMA PeriksaAman ==
    ASSUME IInv, TypeOK', NEW k \in Kerja, kerja[k] # Kosong, kerja[k].langkah = "periksa",
           NEW x \in {"mulai", "jawab", "cabut"}, Ke(k, x), UNCHANGED <<server, klien>>,
           \/ /\ kerja[k].jenis = "segar" /\ x \in {"mulai", "jawab"}
              /\ x = "mulai" <=> SegarSah(kerja[k].token)
           \/ /\ kerja[k].jenis = "keluar" /\ x \in {"cabut", "jawab"}
              /\ x = "cabut" <=> Cocok(kerja[k].token)
    PROVE  IInv'
<1>. DEFINE q == [kerja[k] EXCEPT !.langkah = x, !.token = 0]
<1>0. /\ akun' = akun /\ riwayat' = riwayat /\ kuki' = kuki /\ minta' = minta
      /\ akun.versi \in Nat /\ akun.versi > 0
  BY VersiPositif DEF server, klien
<1>a. kerja[k] \in KerjaAkun /\ kerja[k].versi = 0
  BY Isi DEF IInv, LangkahSah
<1>b. kerja'[k] = q /\ \A j \in Kerja : j # k => kerja'[j] = kerja[j]
  BY DEF Ke, IInv, TypeOK
<1>c. /\ q.laman = kerja[k].laman /\ q.jenis = kerja[k].jenis /\ q.langkah = x /\ q.token = 0
      /\ q.versi = 0 /\ q.akses = kerja[k].akses /\ q.bersih = kerja[k].bersih
  BY <1>a, KerjaMedan
<1>d. q # Kosong
  BY <1>a, KerjaUbah, KosongAssumption
<1>e. /\ kerja'[k] # Kosong
      /\ kerja'[k].laman = kerja[k].laman /\ kerja'[k].jenis = kerja[k].jenis
      /\ kerja'[k].langkah = x /\ kerja'[k].token = 0 /\ kerja'[k].versi = 0
      /\ kerja'[k].akses = kerja[k].akses /\ kerja'[k].bersih = kerja[k].bersih
  BY <1>b, <1>c, <1>d
<1>. HIDE DEF q
<1>1. LangkahSah'
  <2>1. kerja'[k].jenis \in {"segar", "keluar"} /\ kerja'[k].langkah # "periksa" /\ kerja'[k].langkah # "simpan"
        /\ (kerja'[k].jenis = "segar" => x \in {"mulai", "jawab"})
        /\ (kerja'[k].jenis = "keluar" => x \in {"cabut", "jawab"})
    BY <1>e
  <2>. QED
    BY <1>b, <1>e, <2>1 DEF IInv, LangkahSah
<1>2. VersiTerbatas'
  BY <1>0, <1>b, <1>e DEF IInv, VersiTerbatas
<1>3. TokenBerhash'
  BY <1>0, <1>b, <1>e DEF IInv, TokenBerhash
<1>4. PemegangTunggal'
  BY <1>0, <1>b, <1>e DEF IInv, PemegangTunggal, Pemegang
<1>5. \A b \in Peramban : MintaDari(b)' = MintaDari(b) /\ KerjaDari(b)' = KerjaDari(b)
  BY <1>0, <1>b, <1>e DEF MintaDari, KerjaDari, Ditunggu
<1>6. \A b \in Peramban : TanpaSesi(b)' <=> TanpaSesi(b)
  BY <1>0, <1>5 DEF TanpaSesi
<1>7. MatiSah'
  <2> SUFFICES ASSUME NEW b \in Peramban, riwayat[b] = "mati"
               PROVE  /\ TanpaSesi(b)'
                      /\ \A j \in KerjaDari(b) : kerja'[j].jenis = "segar" =>
                            /\ kerja'[j].langkah \in {"periksa", "jawab"}
                            /\ kerja'[j].versi = 0 /\ kerja'[j].token # akun.versi
    BY <1>0, <1>5 DEF MatiSah
  <2>1. /\ TanpaSesi(b)
        /\ \A j \in KerjaDari(b) : kerja[j].jenis = "segar" =>
              /\ kerja[j].langkah \in {"periksa", "jawab"}
              /\ kerja[j].versi = 0 /\ kerja[j].token # akun.versi
    BY DEF IInv, MatiSah
  <2>2. k \in KerjaDari(b) /\ kerja[k].jenis = "segar" => x = "jawab"
    BY <2>1 DEF SegarSah
  <2>3. \A j \in KerjaDari(b) : j = k \/ kerja'[j] = kerja[j]
    BY <1>b DEF KerjaDari
  <2>. QED
    BY <1>0, <1>e, <1>6, <2>1, <2>2, <2>3
<1>8. KeluarSah'
  <2> SUFFICES ASSUME NEW b \in Peramban, NEW i \in Kerja,
                      i \in KerjaDari(b), kerja'[i].jenis = "keluar", kerja'[i].bersih
               PROVE  /\ \A j \in KerjaDari(b) : kerja'[j].versi = 0
                      /\ kerja'[i].langkah = "jawab" => TanpaSesi(b)
    BY <1>5, <1>6 DEF KeluarSah
  <2>1. /\ \A j \in KerjaDari(b) : kerja[j].versi = 0
        /\ kerja[i].langkah = "jawab" => TanpaSesi(b)
    BY <1>b, <1>e DEF IInv, KeluarSah
  <2>2. \A j \in KerjaDari(b) : kerja'[j].versi = 0
    BY <1>b, <1>e, <2>1 DEF KerjaDari
  <2>3. i = k /\ x = "jawab" => TanpaSesi(b)
    <3>1. CASE i = k /\ x = "jawab"
      <4>1. kerja[k].token # 0 /\ ~Cocok(kerja[k].token)
        BY <1>e, <3>1 DEF IInv, LangkahSah
      <4>2. ~akun.hash
        BY <4>1 DEF Cocok
      <4>. QED
        BY <4>2 DEF IInv, TokenBerhash, TanpaSesi, MintaDari, Ditunggu
    <3>. QED
      BY <3>1
  <2>. QED
    BY <1>b, <1>e, <2>1, <2>2, <2>3
<1>9. MasukSah'
  BY <1>0, <1>b, <1>e DEF IInv, MasukSah, Ditunggu
<1>10. HidupSah'
  <2> SUFFICES ASSUME NEW b \in Peramban, riwayat[b] = "hidup" PROVE Terang(b)'
    BY <1>0 DEF HidupSah
  <2>1. Terang(b)
    BY DEF IInv, HidupSah
  <2>2. \A j \in KerjaDari(b) : j = k \/ kerja'[j] = kerja[j]
    BY <1>b DEF KerjaDari
  <2>3. CASE k \notin KerjaDari(b)
    <3>1. \A j \in KerjaDari(b) : kerja'[j] = kerja[j]
      BY <2>2, <2>3
    <3>. QED
      BY <1>0, <1>5, <2>1, <3>1 DEF Terang
  <2>4. CASE k \in KerjaDari(b)
    <3>1. /\ KerjaDari(b) = {k}
          /\ kuki[b].segar = akun.versi /\ kuki[b].akses \in {0, akun.versi}
      BY <1>0, <1>a, <2>1, <2>4 DEF Terang
    <3>2. akun.hash
      BY <3>1 DEF IInv, TokenBerhash
    <3>3. kerja[k].jenis = "segar" => x = "mulai"
      BY <1>0, <2>1, <2>4, <3>2 DEF Terang, SegarSah, Cocok
    <3>. QED
      BY <1>0, <1>5, <1>e, <2>1, <3>1, <3>3 DEF Terang
  <2>. QED
    BY <2>3, <2>4
<1>. QED
  BY <1>1, <1>2, <1>3, <1>4, <1>7, <1>8, <1>9, <1>10 DEF IInv

\* storeRefreshToken: a job of a browser that is undisturbed, or a login that was
\* alone, is still of the session of the row.
LEMMA SimpanTokenAman ==
    ASSUME IInv, TypeOK', NEW k \in Kerja, SimpanToken(k)
    PROVE  IInv'
<1>0. /\ akun'.versi = akun.versi /\ akun'.hash
      /\ riwayat' = riwayat /\ kuki' = kuki /\ minta' = minta
      /\ akun.versi \in Nat /\ akun.versi > 0
  BY VersiPositif DEF SimpanToken, klien, IInv, TypeOK, Baris
<1>a. /\ kerja[k] # Kosong /\ kerja[k] \in KerjaAkun /\ kerja[k].langkah = "simpan"
      /\ kerja[k].versi # 0 /\ kerja[k].jenis # "keluar" /\ kerja[k].token <= akun.versi
      /\ kerja[k].versi <= akun.versi
  BY Isi DEF IInv, LangkahSah, VersiTerbatas, SimpanToken
<1>b. /\ kerja'[k] = [kerja[k] EXCEPT !.langkah = "jawab", !.akses = akun.versi]
      /\ \A j \in Kerja : j # k => kerja'[j] = kerja[j]
  BY <1>a DEF SimpanToken, IInv, TypeOK
<1>e. /\ kerja'[k] # Kosong
      /\ kerja'[k].laman = kerja[k].laman /\ kerja'[k].jenis = kerja[k].jenis
      /\ kerja'[k].langkah = "jawab" /\ kerja'[k].token = kerja[k].token
      /\ kerja'[k].versi = kerja[k].versi /\ kerja'[k].akses = akun.versi
      /\ kerja'[k].bersih = kerja[k].bersih
  <2>. DEFINE q == [kerja[k] EXCEPT !.langkah = "jawab", !.akses = akun.versi]
  <2>1. q \in KerjaAkun
    BY <1>0, <1>a, KerjaUbah
  <2>2. /\ q.laman = kerja[k].laman /\ q.jenis = kerja[k].jenis /\ q.langkah = "jawab"
        /\ q.token = kerja[k].token /\ q.versi = kerja[k].versi /\ q.akses = akun.versi
        /\ q.bersih = kerja[k].bersih
    BY <1>0, <1>a, KerjaMedan
  <2>. QED
    BY <1>b, <2>1, <2>2, KosongAssumption
<1>t. \A j \in Kerja : j # k => kerja'[j] = kerja[j]
  BY <1>b
<1>1. LangkahSah'
  BY <1>a, <1>t, <1>e DEF IInv, LangkahSah
<1>2. VersiTerbatas'
  BY <1>0, <1>a, <1>t, <1>e DEF IInv, VersiTerbatas
<1>3. TokenBerhash'
  BY <1>0 DEF TokenBerhash
<1>4. PemegangTunggal'
  BY <1>0, <1>a, <1>t, <1>e DEF IInv, PemegangTunggal, Pemegang
<1>5. \A b \in Peramban : MintaDari(b)' = MintaDari(b) /\ KerjaDari(b)' = KerjaDari(b)
  BY <1>0, <1>a, <1>t, <1>e DEF MintaDari, KerjaDari, Ditunggu
<1>6. \A b \in Peramban : TanpaSesi(b)' <=> TanpaSesi(b)
  BY <1>0, <1>5 DEF TanpaSesi
<1>s. \A b \in Peramban : \A j \in KerjaDari(b) : j = k \/ kerja'[j] = kerja[j]
  BY <1>t DEF KerjaDari
<1>7. MatiSah'
  <2> SUFFICES ASSUME NEW b \in Peramban, riwayat[b] = "mati"
               PROVE  /\ TanpaSesi(b)'
                      /\ \A j \in KerjaDari(b) : kerja'[j].jenis = "segar" =>
                            /\ kerja'[j].langkah \in {"periksa", "jawab"}
                            /\ kerja'[j].versi = 0 /\ kerja'[j].token # akun.versi
    BY <1>0, <1>5 DEF MatiSah
  <2>1. /\ TanpaSesi(b)
        /\ \A j \in KerjaDari(b) : kerja[j].jenis = "segar" =>
              /\ kerja[j].langkah \in {"periksa", "jawab"}
              /\ kerja[j].versi = 0 /\ kerja[j].token # akun.versi
    BY DEF IInv, MatiSah
  <2>2. k \in KerjaDari(b) => kerja[k].jenis # "segar"
    BY <1>a, <2>1
  <2>. QED
    BY <1>e, <1>6, <1>s, <2>1, <2>2
<1>8. KeluarSah'
  <2> SUFFICES ASSUME NEW b \in Peramban, NEW i \in Kerja,
                      i \in KerjaDari(b), kerja'[i].jenis = "keluar", kerja'[i].bersih
               PROVE  /\ \A j \in KerjaDari(b) : kerja'[j].versi = 0
                      /\ kerja'[i].langkah = "jawab" => TanpaSesi(b)
    BY <1>5, <1>6 DEF KeluarSah
  <2>1. i # k /\ kerja'[i] = kerja[i]
    BY <1>a, <1>e, <1>s
  <2>2. /\ \A j \in KerjaDari(b) : kerja[j].versi = 0
        /\ kerja[i].langkah = "jawab" => TanpaSesi(b)
    BY <2>1 DEF IInv, KeluarSah
  <2>. QED
    BY <1>e, <1>s, <2>1, <2>2
<1>9. MasukSah'
  BY <1>0, <1>a, <1>t, <1>e DEF IInv, MasukSah, Ditunggu
<1>10. HidupSah'
  <2> SUFFICES ASSUME NEW b \in Peramban, riwayat[b] = "hidup" PROVE Terang(b)'
    BY <1>0 DEF HidupSah
  <2>1. Terang(b)
    BY DEF IInv, HidupSah
  <2>2. \A j \in KerjaDari(b) : kerja'[j].jenis = kerja[j].jenis /\ kerja'[j].versi = kerja[j].versi
    BY <1>e, <1>s
  <2>3. \A j \in KerjaDari(b) : kerja'[j].jenis = "segar" =>
              /\ kerja'[j].langkah = "periksa" => kerja'[j].token = akun.versi
              /\ kerja'[j].langkah \in {"simpan", "jawab"} => kerja'[j].versi = akun.versi
              /\ kerja'[j].langkah = "jawab" => kerja'[j].akses = akun.versi
    BY <1>a, <1>e, <1>s, <2>1 DEF Terang
  <2>. QED
    BY <1>0, <1>5, <2>1, <2>2, <2>3 DEF Terang
<1>. QED
  BY <1>1, <1>2, <1>3, <1>4, <1>7, <1>8, <1>9, <1>10 DEF IInv

-----------------------------------------------------------------------------
(***************************************************************************)
(* Requests that are sent, and answers that set or clear the cookies.      *)
(***************************************************************************)
\* A new request has the access token of its browser and is no retry.
LEMMA KirimMintaAman ==
    ASSUME IInv, TypeOK', NEW l \in Laman, KirimMinta(l)
    PROVE  IInv'
<1>. DEFINE n == CHOOSE m \in Minta : minta[m] = Kosong
            a == kuki[Milik[l]].akses
            r == [laman |-> l, tahap |-> "server", akses |-> a, ulang |-> FALSE]
<1>0. /\ akun' = akun /\ riwayat' = riwayat /\ kuki' = kuki /\ kerja' = kerja
      /\ l \in Laman /\ Milik[l] \in Peramban /\ l # Kosong
  BY Isi DEF KirimMinta, server, IInv
<1>1. n \in Minta /\ minta[n] = Kosong
  BY DEF KirimMinta
<1>2. minta'[n] = r /\ \A m \in Minta : m # n => minta'[m] = minta[m]
  BY <1>1 DEF KirimMinta, IInv, TypeOK
<1>3. /\ minta'[n].laman = l /\ minta'[n].akses = a /\ ~minta'[n].ulang
  BY <1>2
<1>. HIDE DEF n, r, a
<1>4. a <= akun.versi /\ (~akun.hash => a # akun.versi)
  BY <1>0 DEF IInv, VersiTerbatas, TokenBerhash, a
<1>5. ASSUME NEW b \in Peramban, NEW m \in MintaDari(b)'
      PROVE  \/ m \in MintaDari(b) /\ minta'[m] = minta[m]
             \/ m = n /\ b = Milik[l]
  BY <1>2, <1>3, <1>5 DEF MintaDari, Ditunggu
<1>6. \A b \in Peramban : KerjaDari(b)' = KerjaDari(b)
  BY <1>0 DEF KerjaDari, Ditunggu
<1>7. ASSUME NEW b \in Peramban, TanpaSesi(b) PROVE TanpaSesi(b)'
  <2>1. b = Milik[l] => a # akun.versi
    BY <1>7 DEF TanpaSesi, a
  <2>2. \A m \in MintaDari(b)' : minta'[m].akses # akun.versi
    BY <1>3, <1>5, <1>7, <2>1 DEF TanpaSesi
  <2>. QED
    BY <1>0, <1>7, <2>2 DEF TanpaSesi
<1>8. LangkahSah' /\ PemegangTunggal' /\ MasukSah'
  BY <1>0 DEF IInv, LangkahSah, PemegangTunggal, Pemegang, MasukSah, Ditunggu
<1>9. VersiTerbatas' /\ TokenBerhash'
  BY <1>0, <1>2, <1>3, <1>4 DEF IInv, VersiTerbatas, TokenBerhash
<1>10. MatiSah' /\ KeluarSah'
  BY <1>0, <1>6, <1>7 DEF IInv, MatiSah, KeluarSah
<1>11. HidupSah'
  <2> SUFFICES ASSUME NEW b \in Peramban, riwayat[b] = "hidup" PROVE Terang(b)'
    BY <1>0 DEF HidupSah
  <2>1. Terang(b)
    BY DEF IInv, HidupSah
  <2>2. \A m \in MintaDari(b)' : minta'[m].ulang =>
            /\ minta'[m].tahap \in {"server", "tulis"}
            /\ minta'[m].tahap = "server" => minta'[m].akses = akun.versi
    BY <1>3, <1>5, <2>1 DEF Terang
  <2>. QED
    BY <1>0, <1>6, <2>1, <2>2 DEF Terang
<1>. QED
  BY <1>8, <1>9, <1>10, <1>11 DEF IInv

\* The answer of a job puts its tokens in the browser b, or none, and ends the job.
JawabUmum(k, b, akses, segar) ==
    /\ akun' = akun
    /\ kuki'[b].akses = akses /\ kuki'[b].segar = segar
    /\ \A c \in Peramban : c # b => kuki'[c] = kuki[c]
    /\ kerja'[k] = Kosong
    /\ \A j \in Kerja : j # k => kerja'[j] = kerja[j]
    /\ \A c \in Peramban : c # b => riwayat'[c] = riwayat[c]
    /\ \A c \in Peramban : c # b => MintaDari(c)' = MintaDari(c)
                                    /\ \A m \in MintaDari(c) : minta'[m] = minta[m]

\* What such a step leaves as it is; the browser b remains to be shown.
LEMMA JawabAman ==
    ASSUME IInv, TypeOK', NEW k \in Kerja, NEW b \in Peramban, NEW akses, NEW segar,
           JawabUmum(k, b, akses, segar), k \in KerjaDari(b),
           \/ akses = 0 /\ segar = 0
           \/ /\ kerja[k].langkah = "jawab" /\ kerja[k].versi # 0
              /\ akses = kerja[k].akses /\ segar = kerja[k].versi,
           \A m \in Minta : minta'[m] # Kosong =>
              minta[m] # Kosong /\ minta'[m].akses \in {minta[m].akses, kerja[k].akses},
           riwayat'[b] = "mati" =>
              /\ TanpaSesi(b)'
              /\ \A j \in KerjaDari(b) \ {k} : kerja[j].jenis = "segar" =>
                    /\ kerja[j].langkah \in {"periksa", "jawab"}
                    /\ kerja[j].versi = 0 /\ kerja[j].token # akun.versi,
           \A i \in KerjaDari(b) \ {k} : kerja[i].jenis = "keluar" /\ kerja[i].bersih
                                         /\ kerja[i].langkah = "jawab" => TanpaSesi(b)',
           riwayat'[b] = "hidup" => Terang(b)'
    PROVE  LangkahSah' /\ TokenBerhash' /\ PemegangTunggal' /\ MatiSah' /\ KeluarSah'
           /\ MasukSah' /\ HidupSah' /\ VersiTerbatas'
<1>0. akun' = akun /\ akun.versi \in Nat /\ akun.versi > 0
  BY VersiPositif DEF JawabUmum
<1>a. kerja[k] # Kosong
  BY DEF KerjaDari, Ditunggu
<1>b. /\ kerja'[k] = Kosong /\ \A j \in Kerja : j # k => kerja'[j] = kerja[j]
      /\ \A j \in Kerja : kerja'[j] # Kosong => kerja'[j] = kerja[j]
  BY DEF JawabUmum
<1>c. /\ \A c \in Peramban : c # b => KerjaDari(c)' = KerjaDari(c)
      /\ KerjaDari(b)' = KerjaDari(b) \ {k}
      /\ \A c \in Peramban : \A j \in KerjaDari(c)' : j \in KerjaDari(c) /\ kerja'[j] = kerja[j]
  <2>1. ASSUME NEW c \in Peramban, NEW j \in KerjaDari(c)'
        PROVE  j \in KerjaDari(c) /\ kerja'[j] = kerja[j] /\ j # k
    BY <1>b, <2>1 DEF KerjaDari, Ditunggu
  <2>2. ASSUME NEW c \in Peramban, NEW j \in KerjaDari(c), j # k PROVE j \in KerjaDari(c)'
    BY <1>b, <2>2 DEF KerjaDari, Ditunggu
  <2>3. \A c \in Peramban : c # b => k \notin KerjaDari(c)
    BY DEF KerjaDari
  <2>. QED
    BY <2>1, <2>2, <2>3
<1>d. \A c \in Peramban : c # b => (TanpaSesi(c)' <=> TanpaSesi(c))
  BY <1>0 DEF JawabUmum, TanpaSesi
<1>1. LangkahSah'
  BY <1>b DEF IInv, LangkahSah
<1>2. VersiTerbatas'
  <2>1. akses <= akun.versi /\ segar <= akun.versi /\ kerja[k].akses <= akun.versi
    BY <1>0, <1>a DEF IInv, VersiTerbatas
  <2>2. \A c \in Peramban : kuki'[c].akses <= akun.versi /\ kuki'[c].segar <= akun.versi
    BY <2>1 DEF IInv, VersiTerbatas, JawabUmum
  <2>3. \A m \in Minta : minta'[m] # Kosong => minta'[m].akses <= akun.versi
    BY <2>1 DEF IInv, VersiTerbatas
  <2>. QED
    BY <1>0, <1>b, <2>2, <2>3 DEF IInv, VersiTerbatas
<1>3. TokenBerhash'
  <2> SUFFICES ASSUME ~akun.hash
      PROVE /\ \A c \in Peramban : kuki'[c].akses # akun.versi /\ kuki'[c].segar # akun.versi
            /\ \A m \in Minta : minta'[m] # Kosong => minta'[m].akses # akun.versi
            /\ \A j \in Kerja : kerja'[j] # Kosong =>
                  /\ kerja'[j].akses # akun.versi
                  /\ kerja'[j].langkah = "jawab" => kerja'[j].versi # akun.versi
    BY <1>0 DEF TokenBerhash
  <2>1. /\ \A c \in Peramban : kuki[c].akses # akun.versi /\ kuki[c].segar # akun.versi
        /\ \A m \in Minta : minta[m] # Kosong => minta[m].akses # akun.versi
        /\ \A j \in Kerja : kerja[j] # Kosong =>
              /\ kerja[j].akses # akun.versi
              /\ kerja[j].langkah = "jawab" => kerja[j].versi # akun.versi
    BY DEF IInv, TokenBerhash
  <2>2. akses # akun.versi /\ segar # akun.versi /\ kerja[k].akses # akun.versi
    BY <1>0, <1>a, <2>1
  <2>3. \A c \in Peramban : kuki'[c].akses # akun.versi /\ kuki'[c].segar # akun.versi
    BY <2>1, <2>2 DEF JawabUmum
  <2>. QED
    BY <1>b, <2>1, <2>2, <2>3
<1>4. PemegangTunggal'
  <2>1. segar = akun.versi => Pemegang(k)
    BY <1>0, <1>a DEF Pemegang
  <2>2. \A c \in Peramban : c # b => kuki'[c].segar = kuki[c].segar
    BY DEF JawabUmum
  <2>3. kuki'[b].segar = segar
    BY DEF JawabUmum
  <2>4. \A j \in Kerja : Pemegang(j)' => Pemegang(j) /\ j # k
    BY <1>0, <1>b DEF Pemegang
  <2>. QED
    BY <1>0, <2>1, <2>2, <2>3, <2>4 DEF IInv, PemegangTunggal
<1>7. MatiSah'
  <2> SUFFICES ASSUME NEW c \in Peramban, riwayat'[c] = "mati"
               PROVE  /\ TanpaSesi(c)'
                      /\ \A j \in KerjaDari(c)' : kerja'[j].jenis = "segar" =>
                            /\ kerja'[j].langkah \in {"periksa", "jawab"}
                            /\ kerja'[j].versi = 0 /\ kerja'[j].token # akun.versi
    BY <1>0 DEF MatiSah
  <2>1. CASE c = b
    BY <1>c, <2>1
  <2>2. CASE c # b
    <3>1. riwayat[c] = "mati"
      BY <2>2 DEF JawabUmum
    <3>. QED
      BY <1>c, <1>d, <2>2, <3>1 DEF IInv, MatiSah
  <2>. QED
    BY <2>1, <2>2
<1>8. KeluarSah'
  <2> SUFFICES ASSUME NEW c \in Peramban, NEW i \in Kerja,
                      i \in KerjaDari(c)', kerja'[i].jenis = "keluar", kerja'[i].bersih
               PROVE  /\ \A j \in KerjaDari(c)' : kerja'[j].versi = 0
                      /\ kerja'[i].langkah = "jawab" => TanpaSesi(c)'
    BY DEF KeluarSah
  <2>1. i \in KerjaDari(c) /\ kerja'[i] = kerja[i]
    BY <1>c
  <2>2. /\ \A j \in KerjaDari(c) : kerja[j].versi = 0
        /\ kerja[i].langkah = "jawab" => TanpaSesi(c)
    BY <2>1 DEF IInv, KeluarSah
  <2>3. CASE c = b
    BY <1>c, <2>1, <2>2, <2>3
  <2>4. CASE c # b
    BY <1>c, <1>d, <2>1, <2>2, <2>4
  <2>. QED
    BY <2>3, <2>4
<1>9. MasukSah'
  BY <1>0, <1>b DEF IInv, MasukSah, Ditunggu
<1>10. HidupSah'
  <2> SUFFICES ASSUME NEW c \in Peramban, riwayat'[c] = "hidup", c # b PROVE Terang(c)'
    BY DEF HidupSah
  <2>1. Terang(c)
    BY DEF IInv, HidupSah, JawabUmum
  <2>2. \A j \in KerjaDari(c) : kerja'[j] = kerja[j]
    BY <1>c
  <2>3. kuki'[c] = kuki[c] /\ MintaDari(c)' = MintaDari(c) /\ \A m \in MintaDari(c) : minta'[m] = minta[m]
    BY DEF JawabUmum
  <2>. QED
    BY <1>0, <1>c, <2>1, <2>2, <2>3 DEF Terang
<1>. QED
  BY <1>1, <1>2, <1>3, <1>4, <1>7, <1>8, <1>9, <1>10

\* An answered refresh hands its tokens on, to the cookies and to the retries.
LEMMA SegarJawabAman ==
    ASSUME IInv, TypeOK', NEW k \in Kerja, SegarJawab(k)
    PROVE  IInv'
<1>. DEFINE l == kerja[k].laman
            v == kerja[k].akses
<1>b. PICK b \in Peramban : b = Milik[l] /\ l \in Laman
  BY Isi DEF IInv, SegarJawab, Pada
<1>1. /\ kerja[k] # Kosong /\ kerja[k].jenis = "segar" /\ kerja[k].langkah = "jawab"
      /\ l \in Laman /\ kerja[k].versi # 0 /\ v \in Nat
  BY Isi, KerjaUbah DEF IInv, SegarJawab, Pada
<1>2. /\ akun' = akun /\ riwayat' = riwayat
      /\ kerja'[k] = Kosong /\ \A j \in Kerja : j # k => kerja'[j] = kerja[j]
  BY DEF SegarJawab, server, IInv, TypeOK
<1>3. /\ kuki'[b].akses = v /\ kuki'[b].segar = kerja[k].versi
      /\ \A c \in Peramban : c # b => kuki'[c] = kuki[c]
  <2>1. kuki' = [kuki EXCEPT ![b] = [akses |-> v, segar |-> kerja[k].versi]]
    BY <1>b DEF SegarJawab
  <2>. QED
    BY <1>1, <2>1 DEF IInv, TypeOK
<1>. DEFINE ulangi(m) == [minta[m] EXCEPT !.tahap = "server", !.akses = v, !.ulang = TRUE]
<1>4. \A m \in Minta : minta'[m] = IF m \in Penunggu(l) THEN ulangi(m) ELSE minta[m]
  BY DEF SegarJawab
<1>5. ASSUME NEW m \in Penunggu(l)
      PROVE  /\ m \in Minta /\ minta[m] # Kosong /\ minta[m].laman = l
             /\ ulangi(m) # Kosong /\ ulangi(m).laman = l /\ ulangi(m).akses = v
             /\ ulangi(m).tahap = "server"
  <2>1. m \in Minta /\ minta[m] # Kosong /\ minta[m].laman = l
    BY DEF Penunggu
  <2>2. minta[m] \in PermintaanApi
    BY <2>1, Isi DEF IInv
  <2>3. ulangi(m) \in PermintaanApi
    BY <1>1, <2>2, MintaUbah
  <2>4. ulangi(m).laman = minta[m].laman /\ ulangi(m).akses = v /\ ulangi(m).tahap = "server"
    BY <1>1, <2>2, MintaMedan
  <2>. QED
    BY <2>1, <2>3, <2>4, KosongAssumption
<1>6. \A m \in Minta : \/ minta'[m] = minta[m]
                       \/ /\ minta[m] # Kosong /\ minta'[m] # Kosong
                          /\ minta[m].laman = l /\ minta'[m].laman = l
                          /\ minta'[m].akses = v /\ minta'[m].tahap = "server"
  BY <1>4, <1>5
<1>. HIDE DEF ulangi
<1>7. \A c \in Peramban : /\ MintaDari(c)' = MintaDari(c)
                          /\ c # b => \A m \in MintaDari(c) : minta'[m] = minta[m]
  BY <1>6, <1>b DEF MintaDari, Ditunggu
<1>8. JawabUmum(k, b, v, kerja[k].versi)
  BY <1>2, <1>3, <1>7 DEF JawabUmum
<1>9. k \in KerjaDari(b) /\ l # Kosong
  BY <1>1, <1>b, Isi DEF KerjaDari, Ditunggu, IInv
<1>10. riwayat[b] # "mati"
  BY <1>1, <1>9 DEF IInv, MatiSah
<1>11. ASSUME NEW i \in KerjaDari(b), kerja[i].jenis = "keluar", kerja[i].bersih PROVE FALSE
  BY <1>1, <1>9, <1>11 DEF IInv, KeluarSah, KerjaDari
<1>12. ASSUME riwayat[b] = "hidup" PROVE Terang(b)'
  <2>1. Terang(b)
    BY <1>1, <1>12 DEF IInv, HidupSah
  <2>2. kerja[k].versi = akun.versi /\ v = akun.versi
    BY <1>1, <1>9, <2>1 DEF Terang
  <2>3. KerjaDari(b)' = {}
    <3>1. KerjaDari(b) \subseteq {k}
      BY <1>9, <2>1 DEF Terang
    <3>. QED
      BY <1>2, <3>1 DEF KerjaDari, Ditunggu
  <2>4. \A m \in MintaDari(b)' : minta'[m].ulang =>
            /\ minta'[m].tahap \in {"server", "tulis"}
            /\ minta'[m].tahap = "server" => minta'[m].akses = akun.versi
    <3>1. \A m \in MintaDari(b)' : m \in Minta /\ m \in MintaDari(b)
      BY <1>1, <1>7 DEF MintaDari
    <3>. QED
      BY <1>6, <2>1, <2>2, <3>1 DEF Terang
  <2>. QED
    BY <1>2, <1>3, <2>2, <2>3, <2>4 DEF Terang
<1>13. \A m \in Minta : minta'[m] # Kosong => minta[m] # Kosong /\ minta'[m].akses \in {minta[m].akses, v}
  BY <1>6
<1>. HIDE DEF l
<1>14. LangkahSah' /\ TokenBerhash' /\ PemegangTunggal' /\ MatiSah' /\ KeluarSah'
       /\ MasukSah' /\ HidupSah' /\ VersiTerbatas'
  BY <1>1, <1>2, <1>8, <1>9, <1>10, <1>11, <1>12, <1>13, JawabAman
<1>. QED
  BY <1>14 DEF IInv

\* An answered login opens an undisturbed session only when it was alone.
LEMMA MasukJawabAman ==
    ASSUME IInv, TypeOK', NEW k \in Kerja, MasukJawab(k)
    PROVE  IInv'
<1>. DEFINE l == kerja[k].laman
            v == kerja[k].akses
<1>b. PICK b \in Peramban : b = Milik[l] /\ l \in Laman
  BY Isi DEF IInv, MasukJawab, Pada
<1>. DEFINE tenang == /\ kerja[k].bersih /\ KerjaDari(b) = {k}
                      /\ \A m \in MintaDari(b) : ~minta[m].ulang
<1>1. /\ kerja[k] # Kosong /\ kerja[k].jenis = "masuk" /\ kerja[k].langkah = "jawab"
      /\ l \in Laman /\ l # Kosong
  BY Isi DEF IInv, MasukJawab, Pada
<1>2. /\ akun' = akun /\ minta' = minta
      /\ kerja'[k] = Kosong /\ \A j \in Kerja : j # k => kerja'[j] = kerja[j]
  BY DEF MasukJawab, IInv, TypeOK
<1>3. /\ kuki'[b].akses = v /\ kuki'[b].segar = kerja[k].versi
      /\ \A c \in Peramban : c # b => kuki'[c] = kuki[c]
  <2>1. kuki' = [kuki EXCEPT ![b] = [akses |-> v, segar |-> kerja[k].versi]]
    BY <1>b DEF MasukJawab
  <2>. QED
    BY <1>1, <2>1 DEF IInv, TypeOK
<1>4. /\ riwayat'[b] = IF tenang THEN "hidup" ELSE "usik"
      /\ \A c \in Peramban : c # b => riwayat'[c] = riwayat[c]
  <2>1. riwayat' = [riwayat EXCEPT ![b] = IF tenang THEN "hidup" ELSE "usik"]
    BY <1>b DEF MasukJawab
  <2>. QED
    BY <1>1, <2>1 DEF IInv, TypeOK
<1>7. \A c \in Peramban : MintaDari(c)' = MintaDari(c)
  BY <1>2 DEF MintaDari, Ditunggu
<1>8. JawabUmum(k, b, v, kerja[k].versi)
  BY <1>2, <1>3, <1>4, <1>7 DEF JawabUmum
<1>9. k \in KerjaDari(b) /\ kerja[k].versi # 0
  BY <1>1, <1>b DEF KerjaDari, Ditunggu, IInv, LangkahSah
<1>11. ASSUME NEW i \in KerjaDari(b), kerja[i].jenis = "keluar", kerja[i].bersih PROVE FALSE
  BY <1>1, <1>9, <1>11 DEF IInv, KeluarSah, KerjaDari
<1>12. ASSUME riwayat'[b] = "hidup" PROVE Terang(b)'
  <2>1. tenang
    BY <1>4, <1>12
  <2>2. kerja[k].versi = akun.versi /\ v = akun.versi
    BY <1>1, <1>b, <2>1 DEF IInv, MasukSah, Ditunggu, MasukJawab, Pada
  <2>3. KerjaDari(b)' = {}
    BY <1>2, <2>1 DEF KerjaDari, Ditunggu
  <2>4. \A m \in MintaDari(b)' : ~minta'[m].ulang
    BY <1>1, <1>2, <1>7, <2>1
  <2>. QED
    BY <1>2, <1>3, <2>2, <2>3, <2>4 DEF Terang
<1>13. riwayat'[b] # "mati"
  BY <1>4
<1>. HIDE DEF l, tenang
<1>14. LangkahSah' /\ TokenBerhash' /\ PemegangTunggal' /\ MatiSah' /\ KeluarSah'
       /\ MasukSah' /\ HidupSah' /\ VersiTerbatas'
  BY <1>1, <1>2, <1>8, <1>9, <1>11, <1>12, <1>13, JawabAman
<1>. QED
  BY <1>14 DEF IInv

\* An answered logout leaves no cookie, and nothing of the session when it was alone.
LEMMA KeluarJawabAman ==
    ASSUME IInv, TypeOK', NEW k \in Kerja, KeluarJawab(k)
    PROVE  IInv'
<1>. DEFINE l == kerja[k].laman
<1>b. PICK b \in Peramban : b = Milik[l] /\ l \in Laman
  BY Isi DEF IInv, KeluarJawab, Pada
<1>. DEFINE tuntas == kerja[k].bersih /\ KerjaDari(b) = {k}
<1>1. /\ kerja[k] # Kosong /\ kerja[k].jenis = "keluar" /\ kerja[k].langkah = "jawab"
      /\ l \in Laman /\ l # Kosong
  BY Isi DEF IInv, KeluarJawab, Pada
<1>2. /\ akun' = akun /\ minta' = minta
      /\ kerja'[k] = Kosong /\ \A j \in Kerja : j # k => kerja'[j] = kerja[j]
  BY DEF KeluarJawab, IInv, TypeOK
<1>3. /\ kuki'[b].akses = 0 /\ kuki'[b].segar = 0
      /\ \A c \in Peramban : c # b => kuki'[c] = kuki[c]
  <2>1. kuki' = [kuki EXCEPT ![b] = TanpaKuki]
    BY <1>b DEF KeluarJawab
  <2>. QED
    BY <1>1, <2>1 DEF IInv, TypeOK, TanpaKuki
<1>4. /\ riwayat'[b] = IF tuntas \/ riwayat[b] = "mati" THEN "mati" ELSE "usik"
      /\ \A c \in Peramban : c # b => riwayat'[c] = riwayat[c]
  <2>1. riwayat' = [riwayat EXCEPT ![b] = IF tuntas \/ riwayat[b] = "mati" THEN "mati" ELSE "usik"]
    BY <1>b DEF KeluarJawab
  <2>. QED
    BY <1>1, <2>1 DEF IInv, TypeOK
<1>7. \A c \in Peramban : MintaDari(c)' = MintaDari(c)
  BY <1>2 DEF MintaDari, Ditunggu
<1>8. JawabUmum(k, b, 0, 0)
  BY <1>2, <1>3, <1>4, <1>7 DEF JawabUmum
<1>9. k \in KerjaDari(b)
  BY <1>1, <1>b DEF KerjaDari, Ditunggu
<1>10. TanpaSesi(b) => TanpaSesi(b)'
  BY <1>1, <1>2, <1>3, <1>7, VersiPositif DEF TanpaSesi
<1>11. \A i \in KerjaDari(b) : kerja[i].jenis = "keluar" /\ kerja[i].bersih
                               /\ kerja[i].langkah = "jawab" => TanpaSesi(b)'
  <2>1. \A i \in KerjaDari(b) : i \in Kerja
    BY DEF KerjaDari
  <2>. QED
    BY <1>1, <1>10, <2>1 DEF IInv, KeluarSah
<1>12. ASSUME riwayat'[b] = "mati"
       PROVE  /\ TanpaSesi(b)'
              /\ \A j \in KerjaDari(b) \ {k} : kerja[j].jenis = "segar" =>
                    /\ kerja[j].langkah \in {"periksa", "jawab"}
                    /\ kerja[j].versi = 0 /\ kerja[j].token # akun.versi
  <2>1. CASE tuntas
    BY <1>1, <1>9, <1>11, <2>1
  <2>2. CASE riwayat[b] = "mati"
    BY <1>1, <1>10, <2>2 DEF IInv, MatiSah
  <2>. QED
    BY <1>4, <1>12, <2>1, <2>2
<1>13. riwayat'[b] # "hidup"
  BY <1>4
<1>. HIDE DEF l, tuntas
<1>14. LangkahSah' /\ TokenBerhash' /\ PemegangTunggal' /\ MatiSah' /\ KeluarSah'
       /\ MasukSah' /\ HidupSah' /\ VersiTerbatas'
  BY <1>1, <1>2, <1>8, <1>9, <1>11, <1>12, <1>13, JawabAman
<1>. QED
  BY <1>14 DEF IInv

-----------------------------------------------------------------------------
(***************************************************************************)
(* The theorems.                                                           *)
(***************************************************************************)
\* The session that is open at the start satisfies the invariant.
LEMMA InitIInv == Init => IInv
<1> SUFFICES ASSUME Init PROVE IInv
  OBVIOUS
<1>1. TypeOK
  BY InitType
<1>2. PICK b \in Peramban :
         /\ kuki = [x \in Peramban |-> IF x = b THEN [akses |-> 1, segar |-> 1] ELSE TanpaKuki]
         /\ riwayat = [x \in Peramban |-> IF x = b THEN "hidup" ELSE "mati"]
  BY DEF Init
<1>3. /\ akun.versi = 1 /\ akun.hash
      /\ \A m \in Minta : minta[m] = Kosong
      /\ \A k \in Kerja : kerja[k] = Kosong
  BY DEF Init
<1>4. \A x \in Peramban : /\ x = b => kuki[x].akses = 1 /\ kuki[x].segar = 1 /\ riwayat[x] = "hidup"
                          /\ x # b => kuki[x].akses = 0 /\ kuki[x].segar = 0 /\ riwayat[x] = "mati"
  BY <1>2 DEF TanpaKuki
<1>5. \A x \in Peramban : MintaDari(x) = {} /\ KerjaDari(x) = {}
  BY <1>3 DEF MintaDari, KerjaDari, Ditunggu
<1>6. LangkahSah /\ VersiTerbatas /\ TokenBerhash /\ PemegangTunggal
  BY <1>3, <1>4 DEF LangkahSah, VersiTerbatas, TokenBerhash, PemegangTunggal, Pemegang
<1>7. MatiSah /\ KeluarSah /\ MasukSah
  BY <1>3, <1>4, <1>5 DEF MatiSah, KeluarSah, MasukSah, TanpaSesi, Ditunggu
<1>8. HidupSah
  BY <1>3, <1>4, <1>5 DEF HidupSah, Terang
<1>. QED
  BY <1>1, <1>6, <1>7, <1>8 DEF IInv

\* Every step keeps the invariant.
LEMMA NextIInv == IInv /\ [Next]_vars => IInv'
<1> SUFFICES ASSUME IInv, [Next]_vars PROVE IInv'
  OBVIOUS
<1>0. TypeOK /\ TypeOK'
  BY NextType DEF IInv
<1>1. ASSUME NEW k \in Kerja, LangkahKerja(k) PROVE IInv'
  <2>1. CASE SegarPeriksa(k)
    <3>. DEFINE x == IF SegarSah(kerja[k].token) THEN "mulai" ELSE "jawab"
    <3>1. /\ kerja[k] # Kosong /\ kerja[k].langkah = "periksa" /\ kerja[k].jenis = "segar"
          /\ Ke(k, x) /\ UNCHANGED <<server, klien>>
      BY <2>1 DEF SegarPeriksa, Pada
    <3>2. x \in {"mulai", "jawab", "cabut"} /\ x \in {"mulai", "jawab"}
          /\ (x = "mulai" <=> SegarSah(kerja[k].token))
      OBVIOUS
    <3>. HIDE DEF x
    <3>. QED
      BY <1>0, <3>1, <3>2, PeriksaAman
  <2>2. CASE KeluarPeriksa(k)
    <3>. DEFINE x == IF Cocok(kerja[k].token) THEN "cabut" ELSE "jawab"
    <3>1. /\ kerja[k] # Kosong /\ kerja[k].langkah = "periksa" /\ kerja[k].jenis = "keluar"
          /\ Ke(k, x) /\ UNCHANGED <<server, klien>>
      BY <2>2 DEF KeluarPeriksa, Pada
    <3>2. x \in {"mulai", "jawab", "cabut"} /\ x \in {"cabut", "jawab"}
          /\ (x = "cabut" <=> Cocok(kerja[k].token))
      OBVIOUS
    <3>. HIDE DEF x
    <3>. QED
      BY <1>0, <3>1, <3>2, PeriksaAman
  <2>3. CASE SegarDitolak(k) \/ Hilang(k)
    BY <1>0, <2>3, SegarDitolakSurut, HilangSurut, SurutAman
  <2>. QED
    BY <1>0, <1>1, <2>1, <2>2, <2>3, MulaiSesiAman, SimpanTokenAman, CabutAman,
       SegarJawabAman, MasukJawabAman, KeluarJawabAman DEF LangkahKerja
<1>2. ASSUME NEW m \in Minta, LangkahMinta(m) PROVE IInv'
  <2>1. CASE Layani(m) \/ RahasiaSalah(m) \/ UlangDitolak(m) \/ MintaHilang(m)
    <3>1. Surut
      BY <2>1, LayaniSurut, RahasiaSalahSurut, UlangDitolakSurut, MintaPergiSurut
    <3>. QED
      BY <1>0, <3>1, SurutAman
  <2>. QED
    BY <1>0, <1>2, <2>1, TulisSandiAman, TungguSegarAman DEF LangkahMinta
<1>3. ASSUME NEW k \in Kerja, KerjaPutus(k) \/ SegarPutus(k) PROVE IInv'
  BY <1>0, <1>3, KerjaPutusSurut, SegarPutusSurut, SurutAman
<1>4. ASSUME NEW m \in Minta, MintaPutus(m) PROVE IInv'
  BY <1>0, <1>4, MintaPergiSurut, SurutAman
<1>5. ASSUME NEW b \in Peramban, AksesHabis(b) \/ SegarHabis(b) PROVE IInv'
  BY <1>0, <1>5, AksesHabisSurut, SegarHabisSurut, SurutAman
<1>6. ASSUME NEW l \in Laman, Navigasi(l) PROVE IInv'
  <2>1. UNCHANGED <<server, kuki, minta, kerja>>
    BY <1>6 DEF Navigasi
  <2>. QED
    BY <1>0, <2>1, DiamSurut, SurutAman
<1>7. ASSUME NEW l \in Laman, Masuk(l) \/ Keluar(l) \/ KirimMinta(l) PROVE IInv'
  BY <1>0, <1>7, MasukKeluarAman, KirimMintaAman
<1>8. CASE UNCHANGED vars
  <2>1. UNCHANGED <<server, kuki, minta, kerja>>
    BY <1>8 DEF vars, server
  <2>. QED
    BY <1>0, <2>1, DiamSurut, SurutAman
<1>. QED
  BY <1>1, <1>2, <1>3, <1>4, <1>5, <1>6, <1>7, <1>8 DEF Next

\* The row, the cookies, the pages, the requests and the jobs keep their types in
\* every reachable state.
THEOREM TypeCorrect == Spec => []TypeOK
<1>1. Init => TypeOK
  BY InitType
<1>2. TypeOK /\ [Next]_vars => TypeOK'
  BY NextType
<1>. QED
  BY <1>1, <1>2, PTL DEF Spec

\* The invariant holds in every reachable state.
THEOREM InvarianSesi == Spec => []IInv
BY InitIInv, NextIInv, PTL DEF Spec

\* One browser at most holds, or is about to be given, the refresh token that the
\* server accepts.
THEOREM SatuSesiSelalu == Spec => []SatuSesi
<1>1. IInv => SatuSesi
  <2> SUFFICES ASSUME IInv PROVE SatuSesi
    OBVIOUS
  <2>. DEFINE P == {b \in Peramban : kuki[b].segar = akun.versi}
              B == {k \in Kerja : Ditunggu(kerja, k) /\ kerja[k].versi = akun.versi}
  <2>1. \A k \in B : k \in Kerja /\ Pemegang(k)
    BY DEF Pemegang, Ditunggu
  <2>2. /\ \A b, c \in P : b = c
        /\ \A j, k \in B : j = k
        /\ P = {} \/ B = {}
    BY <2>1 DEF IInv, PemegangTunggal
  <2>3. \A S : (\A x, y \in S : x = y) => S = {} \/ \E x : S = {x}
    OBVIOUS
  <2>4. \A S : (\A x, y \in S : x = y) => Cardinality(S) \in {0, 1} /\ (S = {} => Cardinality(S) = 0)
    <3> SUFFICES ASSUME NEW S, \A x, y \in S : x = y
                 PROVE  Cardinality(S) \in {0, 1} /\ (S = {} => Cardinality(S) = 0)
      OBVIOUS
    <3>1. CASE S = {}
      <4>1. Cardinality({}) = 0
        BY FS_EmptySet
      <4>. QED
        BY <3>1, <4>1
    <3>2. CASE S # {}
      <4>1. PICK x : S = {x}
        BY <2>3, <3>2
      <4>2. Cardinality({x}) = 1
        BY FS_Singleton
      <4>. QED
        BY <3>2, <4>1, <4>2
    <3>. QED
      BY <3>1, <3>2
  <2>5. Cardinality(P) \in {0, 1} /\ Cardinality(B) \in {0, 1}
        /\ (Cardinality(P) = 0 \/ Cardinality(B) = 0)
    BY <2>2, <2>4
  <2>. QED
    BY <2>5 DEF SatuSesi
<1>. QED
  BY <1>1, InvarianSesi, PTL

\* A session that was ended with nothing of its browser under way stays ended until
\* the next login there.
THEOREM PutusTuntasSelalu == Spec => []PutusTuntas
<1>1. IInv => PutusTuntas
  <2> SUFFICES ASSUME IInv, NEW b \in Peramban, riwayat[b] = "mati"
      PROVE  /\ ~AksesSah(kuki[b].akses) /\ ~SegarSah(kuki[b].segar)
             /\ \A m \in MintaDari(b) : minta[m].tahap = "server" => ~AksesSah(minta[m].akses)
             /\ \A k \in KerjaDari(b) : kerja[k].jenis = "segar" =>
                   kerja[k].versi = 0 /\ (kerja[k].langkah = "periksa" => ~SegarSah(kerja[k].token))
    BY DEF PutusTuntas
  <2>. QED
    BY DEF IInv, MatiSah, TanpaSesi, AksesSah, SegarSah
<1>. QED
  BY <1>1, InvarianSesi, PTL

\* A step that takes the user out of a page whose session stays undisturbed is a
\* navigation.
LEMMA LepasNavigasi ==
    ASSUME IInv, Next, NEW l \in Laman,
           riwayat[Milik[l]] = "hidup", riwayat'[Milik[l]] = "hidup",
           laman[l].masuk, ~laman'[l].masuk
    PROVE  Navigasi(l)
<1>0. /\ Milik[l] \in Peramban /\ riwayat \in [Peramban -> Nasib]
      /\ laman \in [Laman -> Halaman]
  BY SesiAssumption DEF IInv, TypeOK
<1>1. laman' # laman
  OBVIOUS
<1>2. ASSUME NEW x \in Laman, NEW W, NEW k, NEW r, NEW muat, Usir(x, W, k, r, muat)
      PROVE  x = l
  BY <1>0, <1>2 DEF Usir
<1>3. ASSUME NEW b \in Peramban, Rusak(b) PROVE b # Milik[l]
  BY <1>0, <1>3 DEF Rusak
<1>4. ASSUME NEW m \in Minta, UlangDitolak(m) PROVE FALSE
  BY <1>2, <1>4, Isi, UlangDiterima DEF IInv, UlangDitolak, MintaPada
<1>5. ASSUME NEW k \in Kerja, SegarDitolak(k) PROVE FALSE
  BY <1>2, <1>5, Isi, SegarDiterima DEF IInv, SegarDitolak, Pada
<1>6. ASSUME NEW k \in Kerja, SegarPutus(k) PROVE FALSE
  <2>1. kerja[k].laman \in Laman /\ Milik[kerja[k].laman] \in Peramban
    BY <1>6, Isi DEF IInv, SegarPutus, Ditunggu
  <2>2. PICK muat : Usir(kerja[k].laman, Penunggu(kerja[k].laman), k, TerusDiServer(k), muat)
    BY <1>6 DEF SegarPutus
  <2>3. Rusak(Milik[kerja[k].laman])
    BY <1>6 DEF SegarPutus
  <2>. QED
    BY <1>2, <1>3, <2>1, <2>2, <2>3
<1>7. ASSUME NEW k \in Kerja, KerjaPutus(k) PROVE FALSE
  <2>1. kerja[k].laman \in Laman /\ Milik[kerja[k].laman] \in Peramban
    BY <1>7, Isi DEF IInv, KerjaPutus, Ditunggu
  <2>2. /\ Rusak(Milik[kerja[k].laman])
        /\ laman' \in {laman, [laman EXCEPT ![kerja[k].laman].masuk = FALSE]}
    BY <1>7 DEF KerjaPutus
  <2>3. kerja[k].laman # l
    BY <1>3, <2>1, <2>2
  <2>. QED
    BY <1>0, <2>1, <2>2, <2>3
<1>8. ASSUME NEW k \in Kerja, KeluarJawab(k) PROVE FALSE
  <2>1. kerja[k].laman \in Laman /\ Milik[kerja[k].laman] \in Peramban
    BY <1>8, Isi DEF IInv, KeluarJawab, Pada
  <2>2. riwayat'[Milik[kerja[k].laman]] # "hidup"
    BY <1>0, <1>8, <2>1 DEF KeluarJawab
  <2>3. kerja[k].laman # l
    BY <2>2
  <2>4. laman' = [laman EXCEPT ![kerja[k].laman].masuk = FALSE]
    BY <1>8 DEF KeluarJawab
  <2>. QED
    BY <1>0, <2>1, <2>3, <2>4
<1>9. ASSUME NEW k \in Kerja, MasukJawab(k) PROVE FALSE
  <2>1. laman' = [laman EXCEPT ![kerja[k].laman].masuk = TRUE]
    BY <1>9 DEF MasukJawab
  <2>. QED
    BY <1>0, <2>1
<1>10. ASSUME NEW k \in Kerja, SegarJawab(k) PROVE FALSE
  <2>1. laman' = [laman EXCEPT ![kerja[k].laman].segar = Kosong]
    BY <1>10 DEF SegarJawab, LamanSegarUsai
  <2>. QED
    BY <1>0, <2>1 DEF Halaman
<1>11. ASSUME NEW m \in Minta, TungguSegar(m) PROVE FALSE
  <2>1. laman' \in {laman, [laman EXCEPT ![minta[m].laman].segar = SlotKerja]}
    BY <1>11 DEF TungguSegar
  <2>. QED
    BY <1>0, <2>1 DEF Halaman
<1>12. ASSUME NEW x \in Laman, Navigasi(x) PROVE Navigasi(l)
  BY <1>0, <1>12 DEF Navigasi
<1>13. ASSUME NEW k \in Kerja, LangkahKerja(k) PROVE FALSE
  BY <1>1, <1>5, <1>8, <1>9, <1>10, <1>13
     DEF LangkahKerja, SegarPeriksa, MulaiSesi, SimpanToken, KeluarPeriksa, Cabut, Hilang, klien
<1>14. ASSUME NEW m \in Minta, LangkahMinta(m) PROVE FALSE
  BY <1>1, <1>4, <1>11, <1>14
     DEF LangkahMinta, Layani, TulisSandi, RahasiaSalah, MintaHilang
<1>. QED
  BY <1>1, <1>6, <1>7, <1>12, <1>13, <1>14
     DEF Next, MintaPutus, AksesHabis, SegarHabis, Masuk, Keluar, KirimMinta, klien

\* The repair of a 401 never takes the user out of a page whose session is alive and
\* undisturbed: only a navigation does, with an access token that expired or is being
\* replaced by a refresh of the browser (UsirBeralasan).
THEOREM UsirHanyaBeralasan == Spec => UsirBeralasan
<1>1. ASSUME IInv, [Next]_vars, NEW l \in Laman,
             riwayat[Milik[l]] = "hidup", riwayat'[Milik[l]] = "hidup",
             laman[l].masuk, ~laman'[l].masuk
      PROVE  /\ Navigasi(l)
             /\ \/ kuki[Milik[l]].akses = 0
                \/ \E k \in KerjaDari(Milik[l]) : kerja[k].jenis = "segar"
  <2>1. Next
    BY <1>1 DEF vars
  <2>2. Navigasi(l)
    BY <1>1, <2>1, LepasNavigasi
  <2>3. kuki[Milik[l]].akses = 0 \/ kuki[Milik[l]].akses # akun.versi
    BY <1>1, <2>2 DEF Navigasi, AksesSah
  <2>4. Terang(Milik[l])
    BY <1>1, SesiAssumption DEF IInv, HidupSah
  <2>. QED
    BY <2>2, <2>3, <2>4 DEF Terang
<1>2. IInv /\ [Next]_vars =>
        [\A l \in Laman :
            LET b == Milik[l] IN
            /\ riwayat[b] = "hidup" /\ riwayat'[b] = "hidup"
            /\ laman[l].masuk /\ ~laman'[l].masuk
            => /\ Navigasi(l)
               /\ kuki[b].akses = 0 \/ \E k \in KerjaDari(b) : kerja[k].jenis = "segar"]_vars
  BY <1>1
<1>. QED
  BY <1>2, InvarianSesi, PTL DEF Spec, UsirBeralasan

-----------------------------------------------------------------------------
(***************************************************************************)
(* The refresh a page waits for.                                           *)
(***************************************************************************)
\* The job k is the refresh of the page l.
SegarUntuk(k, l) ==
    kerja[k] # Kosong /\ kerja[k].jenis = "segar" /\ kerja[k].laman = l

\* The promise of a page is its one refresh under way, and a request waits for such
\* a promise only.
TungguInv ==
    /\ \A l \in Laman, k \in Kerja : laman[l].segar = k <=> SegarUntuk(k, l)
    /\ \A m \in Minta : MintaPada(m, "tunggu") =>
          minta[m].laman \in Laman /\ laman[minta[m].laman].segar # Kosong

\* A step that leaves promises and refreshes as they are, and lets nobody else wait,
\* keeps this.
LEMMA TungguTetap ==
    ASSUME TungguInv,
           \A l \in Laman : laman'[l].segar = laman[l].segar,
           \A l \in Laman, k \in Kerja : SegarUntuk(k, l)' <=> SegarUntuk(k, l),
           \A m \in Minta : MintaPada(m, "tunggu")' => minta'[m] = minta[m]
    PROVE  TungguInv'
BY DEF TungguInv, MintaPada

\* Requests that stay, or are at the server, wait for nothing new.
LEMMA MintaSepi ==
    ASSUME TypeOK, NEW m \in Minta, minta[m] # Kosong,
           \A n \in Minta : n # m => minta'[n] = minta[n],
           \/ minta'[m] = Kosong
           \/ minta[m].tahap # "tunggu" /\ minta'[m] = [minta[m] EXCEPT !.laman = Kosong]
           \/ \E x \in {"401", "tulis"} : minta'[m] = [minta[m] EXCEPT !.tahap = x, !.akses = 0]
    PROVE  \A n \in Minta : MintaPada(n, "tunggu")' => minta'[n] = minta[n]
<1>1. minta[m] \in PermintaanApi
  BY Isi
<1>2. CASE minta[m].tahap # "tunggu" /\ minta'[m] = [minta[m] EXCEPT !.laman = Kosong]
  <2>1. minta'[m].tahap = minta[m].tahap
    BY <1>1, <1>2, MintaMedan
  <2>. QED
    BY <1>2, <2>1 DEF MintaPada
<1>3. ASSUME NEW x \in {"401", "tulis"}, minta'[m] = [minta[m] EXCEPT !.tahap = x, !.akses = 0]
      PROVE  minta'[m].tahap # "tunggu"
  BY <1>1, <1>3, MintaMedan
<1>. QED
  BY <1>2, <1>3 DEF MintaPada

\* One job that changes and stays no refresh of a page, or the refresh it was.
LEMMA KerjaSepi ==
    ASSUME TypeOK, NEW k \in Kerja,
           \A j \in Kerja : j # k => kerja'[j] = kerja[j],
           \/ /\ kerja[k] # Kosong /\ kerja'[k] # Kosong
              /\ kerja'[k].jenis = kerja[k].jenis /\ kerja'[k].laman = kerja[k].laman
           \/ /\ \A l \in Laman : ~SegarUntuk(k, l)
              /\ kerja'[k] = Kosong \/ kerja'[k].jenis # "segar" \/ kerja'[k].laman = Kosong
    PROVE  \A l \in Laman, j \in Kerja : SegarUntuk(j, l)' <=> SegarUntuk(j, l)
<1>1. \A l \in Laman : l # Kosong
  BY Isi
<1>. QED
  BY <1>1 DEF SegarUntuk

\* A refresh goes through its steps, a token is stored, the version goes up.
LEMMA LangkahTunggu ==
    ASSUME IInv, TypeOK', TungguInv, NEW k \in Kerja,
           \/ SegarPeriksa(k) \/ KeluarPeriksa(k) \/ MulaiSesi(k) \/ SimpanToken(k) \/ Cabut(k)
           \/ Hilang(k) \/ KerjaPutus(k) \/ MasukJawab(k) \/ KeluarJawab(k)
    PROVE  TungguInv'
<1>0. TypeOK
  BY DEF IInv
<1>k. kerja[k] # Kosong /\ kerja[k] \in KerjaAkun
  <2>1. kerja[k] # Kosong
    BY DEF SegarPeriksa, KeluarPeriksa, MulaiSesi, SimpanToken, Cabut, Hilang, KerjaPutus,
       MasukJawab, KeluarJawab, Pada, Ditunggu
  <2>. QED
    BY <1>0, <2>1, Isi
<1>m. \A m \in Minta : MintaPada(m, "tunggu")' => minta'[m] = minta[m]
  BY DEF SegarPeriksa, KeluarPeriksa, MulaiSesi, SimpanToken, Cabut, Hilang, KerjaPutus,
     MasukJawab, KeluarJawab, klien
<1>l. \A l \in Laman : laman'[l].segar = laman[l].segar
  <2>1. CASE UNCHANGED laman
    BY <2>1
  <2>2. ASSUME NEW l \in Laman, NEW x \in BOOLEAN, laman' = [laman EXCEPT ![l].masuk = x]
        PROVE  \A n \in Laman : laman'[n].segar = laman[n].segar
    <3>1. laman[l] \in Halaman /\ laman'[l] = [laman[l] EXCEPT !.masuk = x]
      BY <1>0, <2>2 DEF TypeOK
    <3>2. laman'[l].segar = laman[l].segar
      BY <3>1 DEF Halaman
    <3>. QED
      BY <1>0, <2>2, <3>2 DEF TypeOK
  <2>3. kerja[k].laman # Kosong => kerja[k].laman \in Laman
    BY <1>0, <1>k, Isi
  <2>4. CASE UNCHANGED laman \/ \E x \in BOOLEAN : /\ kerja[k].laman # Kosong
                                                   /\ laman' = [laman EXCEPT ![kerja[k].laman].masuk = x]
    BY <2>1, <2>2, <2>3, <2>4
  <2>5. UNCHANGED laman \/ \E x \in BOOLEAN : /\ kerja[k].laman # Kosong
                                              /\ laman' = [laman EXCEPT ![kerja[k].laman].masuk = x]
    BY DEF SegarPeriksa, KeluarPeriksa, MulaiSesi, SimpanToken, Cabut, Hilang, KerjaPutus,
       MasukJawab, KeluarJawab, klien, Ditunggu
  <2>. QED
    BY <2>4, <2>5
<1>1. CASE SegarPeriksa(k) \/ KeluarPeriksa(k)
  <2>1. PICK x \in {"mulai", "jawab", "cabut"} : Ke(k, x)
    BY <1>1 DEF SegarPeriksa, KeluarPeriksa
  <2>2. /\ kerja'[k] = [kerja[k] EXCEPT !.langkah = x, !.token = 0]
        /\ \A j \in Kerja : j # k => kerja'[j] = kerja[j]
    BY <1>0, <2>1 DEF Ke, TypeOK
  <2>3. kerja'[k] # Kosong /\ kerja'[k].jenis = kerja[k].jenis /\ kerja'[k].laman = kerja[k].laman
    <3>1. [kerja[k] EXCEPT !.langkah = x, !.token = 0] \in KerjaAkun
      BY <1>k, KerjaUbah
    <3>2. kerja'[k].jenis = kerja[k].jenis /\ kerja'[k].laman = kerja[k].laman
      BY <1>k, <2>2, KerjaMedan
    <3>. QED
      BY <2>2, <3>1, <3>2, KosongAssumption
  <2>. QED
    BY <1>0, <1>k, <1>m, <1>l, <2>2, <2>3, KerjaSepi, TungguTetap
<1>2. CASE SimpanToken(k)
  <2>1. akun.versi \in Nat
    BY VersiPositif
  <2>2. /\ kerja'[k] = [kerja[k] EXCEPT !.langkah = "jawab", !.akses = akun.versi]
        /\ \A j \in Kerja : j # k => kerja'[j] = kerja[j]
    BY <1>0, <1>2 DEF SimpanToken, TypeOK
  <2>3. kerja'[k] # Kosong /\ kerja'[k].jenis = kerja[k].jenis /\ kerja'[k].laman = kerja[k].laman
    <3>1. [kerja[k] EXCEPT !.langkah = "jawab", !.akses = akun.versi] \in KerjaAkun
      BY <1>k, <2>1, KerjaUbah
    <3>2. kerja'[k].jenis = kerja[k].jenis /\ kerja'[k].laman = kerja[k].laman
      BY <1>k, <2>1, <2>2, KerjaMedan
    <3>. QED
      BY <2>2, <3>1, <3>2, KosongAssumption
  <2>. QED
    BY <1>0, <1>k, <1>m, <1>l, <2>2, <2>3, KerjaSepi, TungguTetap
<1>3. CASE MulaiSesi(k) \/ Cabut(k)
  <2>1. Tersela(k) \in [Kerja -> KerjaAkun \cup {Kosong}] /\ Tersela(k)[k] = kerja[k]
    BY <1>0, TerselaType DEF Tersela
  <2>2. /\ \A j \in Kerja : j # k => kerja'[j] = Tersela(k)[j]
        /\ \/ kerja'[k] = [kerja[k] EXCEPT !.langkah = "jawab"]
           \/ kerja'[k] = [kerja[k] EXCEPT !.langkah = "simpan", !.versi = akun'.versi]
    BY <1>3, <2>1 DEF MulaiSesi, Cabut
  <2>3. akun'.versi \in Nat
    BY LainUbah DEF TypeOK
  <2>4. kerja'[k] # Kosong /\ kerja'[k].jenis = kerja[k].jenis /\ kerja'[k].laman = kerja[k].laman
    <3>1. /\ [kerja[k] EXCEPT !.langkah = "jawab"] \in KerjaAkun
          /\ [kerja[k] EXCEPT !.langkah = "simpan", !.versi = akun'.versi] \in KerjaAkun
      BY <1>k, <2>3, KerjaUbah
    <3>2. CASE kerja'[k] = [kerja[k] EXCEPT !.langkah = "jawab"]
      BY <1>k, <3>1, <3>2, KerjaMedan, KosongAssumption
    <3>3. CASE kerja'[k] = [kerja[k] EXCEPT !.langkah = "simpan", !.versi = akun'.versi]
      <4>1. kerja'[k].jenis = kerja[k].jenis /\ kerja'[k].laman = kerja[k].laman
        BY <1>k, <2>3, <3>3, KerjaMedan
      <4>. QED
        BY <3>1, <3>3, <4>1, KosongAssumption
    <3>. QED
      BY <2>2, <3>2, <3>3
  <2>5. \A j \in Kerja : j # k /\ kerja[j] # Kosong =>
           kerja'[j] # Kosong /\ kerja'[j].jenis = kerja[j].jenis /\ kerja'[j].laman = kerja[j].laman
    BY <1>0, <2>2, TerselaMedan
  <2>6. \A j \in Kerja : j # k /\ kerja[j] = Kosong => kerja'[j] = Kosong
    BY <2>2 DEF Tersela
  <2>7. \A l \in Laman, j \in Kerja : SegarUntuk(j, l)' <=> SegarUntuk(j, l)
    BY <1>k, <2>4, <2>5, <2>6 DEF SegarUntuk
  <2>. QED
    BY <1>m, <1>l, <2>7, TungguTetap
<1>4. CASE Hilang(k) \/ MasukJawab(k) \/ KeluarJawab(k)
  <2>1. kerja'[k] = Kosong /\ \A j \in Kerja : j # k => kerja'[j] = kerja[j]
    BY <1>0, <1>4 DEF Hilang, MasukJawab, KeluarJawab, TypeOK
  <2>2. \A l \in Laman : ~SegarUntuk(k, l)
    BY <1>0, <1>4, Isi DEF Hilang, MasukJawab, KeluarJawab, Pada, SegarUntuk
  <2>. QED
    BY <1>0, <1>m, <1>l, <2>1, <2>2, KerjaSepi, TungguTetap
<1>5. CASE KerjaPutus(k)
  <2>1. /\ kerja'[k] = [kerja[k] EXCEPT !.laman = Kosong]
        /\ \A j \in Kerja : j # k => kerja'[j] = kerja[j]
    BY <1>0, <1>5 DEF KerjaPutus, TerusDiServer, TypeOK
  <2>2. kerja'[k].laman = Kosong
    BY <1>k, <2>1, KerjaMedan
  <2>3. \A l \in Laman : ~SegarUntuk(k, l)
    BY <1>5 DEF KerjaPutus, SegarUntuk
  <2>. QED
    BY <1>0, <1>m, <1>l, <2>1, <2>2, <2>3, KerjaSepi, TungguTetap
<1>. QED
  BY <1>1, <1>2, <1>3, <1>4, <1>5

\* So do the steps of requests that wait for nothing, cookies that expire, and
\* navigation.
LEMMA MintaTunggu ==
    ASSUME TypeOK, TungguInv,
           \/ \E m \in Minta : Layani(m) \/ TulisSandi(m) \/ RahasiaSalah(m) \/ MintaHilang(m) \/ MintaPutus(m)
           \/ \E b \in Peramban : AksesHabis(b) \/ SegarHabis(b)
           \/ \E l \in Laman : Navigasi(l) \/ KirimMinta(l)
           \/ UNCHANGED vars
    PROVE  TungguInv'
<1>s. kerja' = kerja => \A l \in Laman, k \in Kerja : SegarUntuk(k, l)' <=> SegarUntuk(k, l)
  BY DEF SegarUntuk
<1>1. ASSUME NEW m \in Minta, Layani(m) \/ RahasiaSalah(m) \/ MintaHilang(m) \/ MintaPutus(m) \/ TulisSandi(m)
      PROVE  TungguInv'
  <2>1. minta[m] # Kosong
    BY <1>1 DEF Layani, TulisSandi, RahasiaSalah, MintaHilang, MintaPutus, MintaPada, Ditunggu
  <2>2. /\ \A n \in Minta : n # m => minta'[n] = minta[n]
        /\ \/ minta'[m] = Kosong
           \/ minta[m].tahap # "tunggu" /\ minta'[m] = [minta[m] EXCEPT !.laman = Kosong]
           \/ \E x \in {"401", "tulis"} : minta'[m] = [minta[m] EXCEPT !.tahap = x, !.akses = 0]
    BY <1>1 DEF Layani, TulisSandi, RahasiaSalah, MintaHilang, MintaPutus, Akhiri, Tahap, TypeOK
  <2>3. \A n \in Minta : MintaPada(n, "tunggu")' => minta'[n] = minta[n]
    BY <2>1, <2>2, MintaSepi
  <2>4. laman' = laman
    BY <1>1 DEF Layani, TulisSandi, RahasiaSalah, MintaHilang, MintaPutus
  <2>5. \A l \in Laman, k \in Kerja : SegarUntuk(k, l)' <=> SegarUntuk(k, l)
    <3>1. CASE TulisSandi(m)
      <4>1. kerja' = Tersela(Kosong)
        BY <3>1 DEF TulisSandi
      <4>2. \A j \in Kerja : kerja[j] # Kosong =>
               kerja'[j] # Kosong /\ kerja'[j].jenis = kerja[j].jenis /\ kerja'[j].laman = kerja[j].laman
        BY <4>1, TerselaMedan, Isi
      <4>3. \A j \in Kerja : kerja[j] = Kosong => kerja'[j] = Kosong
        BY <4>1 DEF Tersela
      <4>. QED
        BY <4>2, <4>3 DEF SegarUntuk
    <3>2. CASE ~TulisSandi(m)
      BY <1>1, <3>2, <1>s DEF Layani, RahasiaSalah, MintaHilang, MintaPutus
    <3>. QED
      BY <3>1, <3>2
  <2>. QED
    BY <2>3, <2>4, <2>5, TungguTetap
<1>2. ASSUME NEW b \in Peramban, AksesHabis(b) PROVE TungguInv'
  <2>1. ASSUME NEW m \in Minta, MintaPada(m, "tunggu")' PROVE minta'[m] = minta[m]
    <3>1. CASE m \in MintaDari(b) /\ minta[m].tahap = "server"
      <4>1. minta[m] \in PermintaanApi
        BY <3>1, Isi DEF MintaDari, Ditunggu
      <4>2. minta'[m] = [minta[m] EXCEPT !.akses = 0]
        BY <1>2, <3>1 DEF AksesHabis
      <4>3. minta'[m].tahap = "server"
        BY <3>1, <4>1, <4>2, MintaMedan
      <4>. QED
        BY <2>1, <4>3 DEF MintaPada
    <3>2. CASE ~(m \in MintaDari(b) /\ minta[m].tahap = "server")
      BY <1>2, <3>2 DEF AksesHabis
    <3>. QED
      BY <3>1, <3>2
  <2>. QED
    BY <1>2, <1>s, <2>1, TungguTetap DEF AksesHabis
<1>3. ASSUME NEW b \in Peramban, SegarHabis(b) PROVE TungguInv'
  BY <1>3, <1>s, TungguTetap DEF SegarHabis
<1>4. ASSUME NEW l \in Laman, Navigasi(l) PROVE TungguInv'
  <2>1. laman[l] \in Halaman /\ laman'[l] = [laman[l] EXCEPT !.masuk = ~laman[l].masuk]
    BY <1>4 DEF Navigasi, TypeOK
  <2>2. laman'[l].segar = laman[l].segar
    BY <2>1 DEF Halaman
  <2>3. \A n \in Laman : laman'[n].segar = laman[n].segar
    BY <1>4, <2>2 DEF Navigasi, TypeOK
  <2>. QED
    BY <1>4, <1>s, <2>3, TungguTetap DEF Navigasi
<1>5. ASSUME NEW l \in Laman, KirimMinta(l) PROVE TungguInv'
  <2>. DEFINE s == CHOOSE m \in Minta : minta[m] = Kosong
  <2>1. s \in Minta /\ minta[s] = Kosong
    BY <1>5 DEF KirimMinta
  <2>2. /\ minta'[s].tahap = "server"
        /\ \A n \in Minta : n # s => minta'[n] = minta[n]
    BY <1>5, <2>1 DEF KirimMinta, TypeOK
  <2>3. \A n \in Minta : MintaPada(n, "tunggu")' => minta'[n] = minta[n]
    BY <2>2 DEF MintaPada
  <2>. QED
    BY <1>5, <1>s, <2>3, TungguTetap DEF KirimMinta
<1>6. CASE UNCHANGED vars
  BY <1>6, <1>s, TungguTetap DEF vars
<1>. QED
  BY <1>1, <1>2, <1>3, <1>4, <1>5, <1>6

\* Putting the page l on the login ends its refresh together with whoever waits.
LEMMA UsirTunggu ==
    ASSUME TypeOK, TungguInv, NEW l \in Laman, NEW W, NEW k, NEW r, NEW muat \in BOOLEAN,
           Usir(l, W, k, r, muat),
           \/ k = Kosong
           \/ /\ k \in Kerja /\ SegarUntuk(k, l) /\ Penunggu(l) \subseteq W
              /\ r = Kosong \/ r.laman = Kosong
    PROVE  TungguInv'
<1>0. \A n \in Laman : n # Kosong
  BY Isi
<1>k. Kosong \notin Kerja
  BY Isi
<1>1. ASSUME NEW m \in Minta, MintaPada(m, "tunggu")'
      PROVE  /\ minta'[m] = minta[m] /\ MintaPada(m, "tunggu")
             /\ minta[m].laman = l => m \notin W /\ ~muat
  <2>1. m \notin W
    BY <1>1 DEF Usir, MintaPada
  <2>2. CASE minta[m] # Kosong /\ minta[m].laman = l /\ muat
    <3>1. minta[m] \in PermintaanApi
      BY <2>2, Isi
    <3>2. minta[m].tahap # "tunggu" /\ minta'[m] = [minta[m] EXCEPT !.laman = Kosong]
      BY <1>1, <2>1, <2>2 DEF Usir, MintaPada
    <3>3. minta'[m].tahap # "tunggu"
      BY <3>1, <3>2, MintaMedan
    <3>. QED
      BY <1>1, <3>3 DEF MintaPada
  <2>3. CASE ~(minta[m] # Kosong /\ minta[m].laman = l /\ muat)
    <3>1. minta'[m] = minta[m]
      BY <2>1, <2>3 DEF Usir
    <3>. QED
      BY <1>1, <2>1, <2>3, <3>1 DEF MintaPada
  <2>. QED
    BY <2>2, <2>3
<1>2. /\ \A n \in Laman : n # l => laman'[n].segar = laman[n].segar
      /\ laman'[l].segar = IF muat \/ laman[l].segar = k THEN Kosong ELSE laman[l].segar
  BY DEF Usir, TypeOK
<1>3. ASSUME NEW j \in Kerja, j # k
      PROVE  \/ kerja'[j] = kerja[j] /\ (kerja[j] # Kosong /\ kerja[j].laman = l => ~muat)
             \/ kerja[j] # Kosong /\ kerja[j].laman = l /\ muat /\ kerja'[j].laman = Kosong
  <2>1. CASE kerja[j] # Kosong /\ kerja[j].laman = l /\ muat
    <3>1. kerja[j] \in KerjaAkun /\ kerja'[j] = [kerja[j] EXCEPT !.laman = Kosong]
      BY <1>3, <2>1, Isi DEF Usir
    <3>2. kerja'[j].laman = Kosong
      BY <3>1, KerjaMedan
    <3>. QED
      BY <2>1, <3>2
  <2>2. CASE ~(kerja[j] # Kosong /\ kerja[j].laman = l /\ muat)
    BY <1>3, <2>2 DEF Usir
  <2>. QED
    BY <2>1, <2>2
<1>4. k \in Kerja => kerja'[k] = r
  BY DEF Usir
<1>5. ASSUME NEW n \in Laman, NEW j \in Kerja PROVE laman'[n].segar = j <=> SegarUntuk(j, n)'
  <2>1. laman[n].segar = j <=> SegarUntuk(j, n)
    BY DEF TungguInv
  <2>2. CASE j = k
    <3>1. ~SegarUntuk(j, n)' /\ SegarUntuk(k, l) /\ laman[l].segar = k
      BY <1>0, <1>4, <1>k, <2>2 DEF SegarUntuk, TungguInv
    <3>2. laman'[n].segar # k
      BY <1>2, <1>k, <2>1, <2>2, <3>1 DEF SegarUntuk
    <3>. QED
      BY <2>2, <3>1, <3>2
  <2>3. CASE j # k /\ n # l
    BY <1>0, <1>2, <1>3, <2>1, <2>3 DEF SegarUntuk
  <2>4. CASE j # k /\ n = l /\ muat
    BY <1>0, <1>2, <1>3, <1>k, <2>4 DEF SegarUntuk
  <2>5. CASE j # k /\ n = l /\ ~muat
    BY <1>2, <1>3, <1>k, <2>1, <2>5 DEF SegarUntuk
  <2>. QED
    BY <2>2, <2>3, <2>4, <2>5
<1>6. ASSUME NEW m \in Minta, MintaPada(m, "tunggu")'
      PROVE  minta'[m].laman \in Laman /\ laman'[minta'[m].laman].segar # Kosong
  <2>1. /\ minta'[m] = minta[m] /\ MintaPada(m, "tunggu")
        /\ minta[m].laman = l => m \notin W /\ ~muat
    BY <1>1, <1>6
  <2>2. minta[m].laman \in Laman /\ laman[minta[m].laman].segar # Kosong
    BY <2>1 DEF TungguInv
  <2>3. minta[m].laman = l => m \in Penunggu(l)
    BY <2>1 DEF Penunggu, MintaPada
  <2>. QED
    BY <1>2, <2>1, <2>2, <2>3
<1>. QED
  BY <1>5, <1>6 DEF TungguInv

\* The three steps that do.
LEMMA UsirSemua ==
    ASSUME TypeOK, TungguInv,
           \/ \E m \in Minta : UlangDitolak(m)
           \/ \E k \in Kerja : SegarDitolak(k) \/ SegarPutus(k)
    PROVE  TungguInv'
<1>0. \A l \in Laman : Dimuat(l) \subseteq BOOLEAN
  BY DEF Dimuat
<1>1. ASSUME NEW m \in Minta, UlangDitolak(m) PROVE TungguInv'
  <2>1. minta[m].laman \in Laman
    BY <1>1, Isi DEF UlangDitolak, MintaPada
  <2>2. PICK muat \in BOOLEAN : Usir(minta[m].laman, {m}, Kosong, Kosong, muat)
    BY <1>0, <1>1, <2>1 DEF UlangDitolak
  <2>. QED
    BY <2>1, <2>2, UsirTunggu
<1>2. ASSUME NEW k \in Kerja, SegarDitolak(k) \/ SegarPutus(k) PROVE TungguInv'
  <2>. DEFINE l == kerja[k].laman
  <2>1. kerja[k] # Kosong /\ l \in Laman /\ SegarUntuk(k, l)
    BY <1>2, Isi DEF SegarDitolak, SegarPutus, Pada, Ditunggu, SegarUntuk
  <2>2. PICK muat \in BOOLEAN : \/ Usir(l, Penunggu(l), k, Kosong, muat)
                                \/ Usir(l, Penunggu(l), k, TerusDiServer(k), muat)
    BY <1>0, <1>2, <2>1 DEF SegarDitolak, SegarPutus
  <2>3. TerusDiServer(k).laman = Kosong
    BY <2>1, Isi, KerjaMedan DEF TerusDiServer
  <2>. QED
    BY <2>1, <2>2, <2>3, UsirTunggu
<1>. QED
  BY <1>1, <1>2

\* A refusal makes a request join the refresh of its page, or start it.
LEMMA TungguSegarTunggu ==
    ASSUME TypeOK, TungguInv, NEW m \in Minta, TungguSegar(m)
    PROVE  TungguInv'
<1>. DEFINE l == minta[m].laman
<1>1. l \in Laman /\ minta[m] # Kosong /\ minta[m] \in PermintaanApi
  BY Isi DEF TungguSegar, MintaPada
<1>2. /\ minta'[m] = [minta[m] EXCEPT !.tahap = "tunggu", !.akses = 0]
      /\ \A n \in Minta : n # m => minta'[n] = minta[n]
  BY DEF TungguSegar, Tahap, TypeOK
<1>3. minta'[m].laman = l
  BY <1>1, <1>2, MintaMedan
<1>4. laman'[l].segar # Kosong /\ \A n \in Laman : laman[n].segar # Kosong => laman'[n].segar = laman[n].segar
  <2>1. CASE laman[l].segar # Kosong
    BY <2>1 DEF TungguSegar
  <2>2. CASE laman[l].segar = Kosong
    <3>1. SlotKerja \in Kerja /\ laman' = [laman EXCEPT ![l].segar = SlotKerja]
      BY <2>2, SlotBebas DEF TungguSegar, MulaiKerja
    <3>2. laman[l] \in Halaman /\ laman'[l] = [laman[l] EXCEPT !.segar = SlotKerja]
      BY <1>1, <3>1 DEF TypeOK
    <3>3. laman'[l].segar = SlotKerja /\ SlotKerja # Kosong
      BY <3>1, <3>2, Isi DEF Halaman
    <3>. QED
      BY <2>2, <3>1, <3>3 DEF TypeOK
  <2>. QED
    BY <2>1, <2>2
<1>5. ASSUME NEW n \in Laman, NEW k \in Kerja PROVE laman'[n].segar = k <=> SegarUntuk(k, n)'
  <2>0. laman[n].segar = k <=> SegarUntuk(k, n)
    BY DEF TungguInv
  <2>1. CASE laman[l].segar # Kosong
    BY <2>0, <2>1 DEF TungguSegar, SegarUntuk
  <2>2. CASE laman[l].segar = Kosong
    <3>. DEFINE s == SlotKerja
    <3>1. MulaiKerja("segar", l, "periksa", kuki[Milik[l]].segar) /\ laman' = [laman EXCEPT ![l].segar = s]
      BY <2>2 DEF TungguSegar
    <3>2. s \in Kerja /\ kerja[s] = Kosong
      BY <3>1, SlotBebas DEF MulaiKerja
    <3>3. \A j \in Kerja : j # s => kerja'[j] = kerja[j]
      BY <3>1 DEF MulaiKerja, TypeOK
    <3>4. kerja'[s].jenis = "segar" /\ kerja'[s].laman = l /\ kerja'[s] # Kosong
      <4>. DEFINE r == [jenis |-> "segar", laman |-> l, langkah |-> "periksa",
                        token |-> kuki[Milik[l]].segar, versi |-> 0, akses |-> 0,
                        bersih |-> KerjaDari(Milik[l]) = {} /\ ("segar" = "keluar" => kuki[Milik[l]].segar # 0)]
      <4>1. kerja'[s] = r
        BY <3>1, <3>2 DEF MulaiKerja, TypeOK
      <4>2. r \in KerjaAkun
        <5>1. kuki[Milik[l]].segar \in Nat
          BY <1>1, Isi, LainUbah DEF TypeOK
        <5>. QED
          BY <1>1, <5>1 DEF KerjaAkun
      <4>3. r # Kosong
        BY <4>2, KosongAssumption
      <4>. QED
        BY <4>1, <4>3
    <3>5. laman'[l].segar = s /\ \A q \in Laman : q # l => laman'[q].segar = laman[q].segar
      <4>1. laman[l] \in Halaman /\ laman'[l] = [laman[l] EXCEPT !.segar = s]
        BY <1>1, <3>1 DEF TypeOK
      <4>2. laman'[l].segar = s
        BY <4>1 DEF Halaman
      <4>. QED
        BY <3>1, <4>2 DEF TypeOK
    <3>6. ~SegarUntuk(s, n) /\ Kosong \notin Kerja
      BY <3>2, Isi DEF SegarUntuk
    <3>. HIDE DEF s
    <3>7. CASE k = s
      BY <2>0, <3>4, <3>5, <3>6, <3>7 DEF SegarUntuk
    <3>8. CASE k # s
      <4>1. SegarUntuk(k, n)' <=> SegarUntuk(k, n)
        BY <3>3, <3>8 DEF SegarUntuk
      <4>2. CASE n # l
        BY <2>0, <3>5, <4>1, <4>2
      <4>3. CASE n = l
        BY <2>0, <2>2, <3>5, <3>6, <3>8, <4>1, <4>3
      <4>. QED
        BY <4>2, <4>3
    <3>. QED
      BY <3>7, <3>8
  <2>. QED
    BY <2>1, <2>2
<1>6. ASSUME NEW n \in Minta, MintaPada(n, "tunggu")'
      PROVE  minta'[n].laman \in Laman /\ laman'[minta'[n].laman].segar # Kosong
  <2>1. CASE n = m
    BY <1>1, <1>3, <1>4, <2>1
  <2>2. CASE n # m
    <3>1. minta'[n] = minta[n] /\ MintaPada(n, "tunggu")
      BY <1>2, <1>6, <2>2 DEF MintaPada
    <3>2. minta[n].laman \in Laman /\ laman[minta[n].laman].segar # Kosong
      BY <3>1 DEF TungguInv
    <3>. QED
      BY <1>4, <3>1, <3>2
  <2>. QED
    BY <2>1, <2>2
<1>. QED
  BY <1>5, <1>6 DEF TungguInv

\* The answer of a refresh resumes everybody who waits for it.
LEMMA SegarJawabTunggu ==
    ASSUME TypeOK, TungguInv, NEW k \in Kerja, SegarJawab(k)
    PROVE  TungguInv'
<1>. DEFINE l == kerja[k].laman
<1>1. l \in Laman /\ kerja[k] \in KerjaAkun /\ SegarUntuk(k, l) /\ Kosong \notin Kerja
  BY Isi DEF SegarJawab, Pada, SegarUntuk
<1>2. laman[l].segar = k
  BY <1>1 DEF TungguInv
<1>3. laman'[l].segar = Kosong /\ \A n \in Laman : n # l => laman'[n].segar = laman[n].segar
  <2>1. laman[l] \in Halaman /\ laman'[l] = [laman[l] EXCEPT !.segar = Kosong]
    BY <1>1 DEF SegarJawab, LamanSegarUsai, TypeOK
  <2>2. laman'[l].segar = Kosong
    BY <2>1 DEF Halaman
  <2>. QED
    BY <2>2 DEF SegarJawab, LamanSegarUsai, TypeOK
<1>4. kerja'[k] = Kosong /\ \A j \in Kerja : j # k => kerja'[j] = kerja[j]
  BY DEF SegarJawab, TypeOK
<1>5. ASSUME NEW m \in Minta, MintaPada(m, "tunggu")'
      PROVE  minta'[m] = minta[m] /\ MintaPada(m, "tunggu") /\ minta[m].laman # l
  <2>1. CASE m \in Penunggu(l)
    <3>1. minta[m] \in PermintaanApi /\ kerja[k].akses \in Nat
      BY <1>1, <2>1, Isi, KerjaUbah DEF Penunggu
    <3>2. minta'[m] = [minta[m] EXCEPT !.tahap = "server", !.akses = kerja[k].akses, !.ulang = TRUE]
      BY <2>1 DEF SegarJawab
    <3>3. minta'[m].tahap = "server"
      BY <3>1, <3>2, MintaMedan
    <3>. QED
      BY <1>5, <3>3 DEF MintaPada
  <2>2. CASE m \notin Penunggu(l)
    <3>1. minta'[m] = minta[m]
      BY <2>2 DEF SegarJawab
    <3>. QED
      BY <1>5, <2>2, <3>1 DEF MintaPada, Penunggu
  <2>. QED
    BY <2>1, <2>2
<1>6. ASSUME NEW n \in Laman, NEW j \in Kerja PROVE laman'[n].segar = j <=> SegarUntuk(j, n)'
  <2>0. laman[n].segar = j <=> SegarUntuk(j, n)
    BY DEF TungguInv
  <2>1. CASE j = k
    BY <1>1, <1>3, <1>4, <2>0, <2>1 DEF SegarUntuk
  <2>2. CASE j # k
    BY <1>1, <1>2, <1>3, <1>4, <2>0, <2>2 DEF SegarUntuk
  <2>. QED
    BY <2>1, <2>2
<1>. QED
  BY <1>3, <1>5, <1>6 DEF TungguInv

\* A login or a logout that starts is no refresh.
LEMMA MasukKeluarTunggu ==
    ASSUME TypeOK, TungguInv, NEW l \in Laman, Masuk(l) \/ Keluar(l)
    PROVE  TungguInv'
<1>1. PICK jenis, langkah, token : jenis \in {"masuk", "keluar"} /\ MulaiKerja(jenis, l, langkah, token)
  BY DEF Masuk, Keluar
<1>2. SlotKerja \in Kerja /\ kerja[SlotKerja] = Kosong
  BY <1>1, SlotBebas DEF MulaiKerja
<1>3. kerja'[SlotKerja].jenis # "segar" /\ \A j \in Kerja : j # SlotKerja => kerja'[j] = kerja[j]
  BY <1>1, <1>2 DEF MulaiKerja, TypeOK
<1>4. \A n \in Laman, j \in Kerja : SegarUntuk(j, n)' <=> SegarUntuk(j, n)
  BY <1>2, <1>3 DEF SegarUntuk
<1>. QED
  BY <1>4, TungguTetap DEF Masuk, Keluar, klien

\* Every step keeps it.
LEMMA NextTunggu == IInv /\ TungguInv /\ [Next]_vars => TungguInv'
<1> SUFFICES ASSUME IInv, TungguInv, [Next]_vars PROVE TungguInv'
  OBVIOUS
<1>0. TypeOK /\ TypeOK'
  BY NextType DEF IInv
<1>1. ASSUME NEW k \in Kerja, LangkahKerja(k) \/ KerjaPutus(k) \/ SegarPutus(k) PROVE TungguInv'
  BY <1>0, <1>1, LangkahTunggu, UsirSemua, SegarJawabTunggu DEF LangkahKerja
<1>2. ASSUME NEW m \in Minta, LangkahMinta(m) \/ MintaPutus(m) PROVE TungguInv'
  BY <1>0, <1>2, MintaTunggu, UsirSemua, TungguSegarTunggu DEF LangkahMinta
<1>. QED
  BY <1>0, <1>1, <1>2, MintaTunggu, MasukKeluarTunggu DEF Next

\* Every request that waits has its refresh under way, the one its page remembers; a
\* page has no other.
PenungguSah ==
    /\ \A m \in Minta : MintaPada(m, "tunggu") =>
          \E k \in Kerja : /\ SegarUntuk(k, minta[m].laman)
                           /\ laman[minta[m].laman].segar = k
                           /\ kerja[k].langkah \in {"periksa", "mulai", "simpan", "jawab"}
    /\ \A l \in Laman : \A j, k \in Kerja : SegarUntuk(j, l) /\ SegarUntuk(k, l) => j = k

\* No wake-up is lost and no refresh is doubled: a request that waits has the refresh
\* its page remembers under way, at a step the server or the client takes next, and a
\* page has no other refresh.
THEOREM PenungguDitepati == Spec => []PenungguSah
<1>1. Init => TungguInv
  <2> SUFFICES ASSUME Init PROVE TungguInv
    OBVIOUS
  <2>1. TypeOK
    BY InitType
  <2>2. /\ \A l \in Laman : laman[l].segar = Kosong
        /\ \A k \in Kerja : kerja[k] = Kosong
        /\ \A m \in Minta : minta[m] = Kosong
    BY DEF Init
  <2>. QED
    BY <2>1, <2>2, Isi DEF TungguInv, SegarUntuk, MintaPada
<1>2. IInv /\ TungguInv => PenungguSah
  <2> SUFFICES ASSUME IInv, TungguInv PROVE PenungguSah
    OBVIOUS
  <2>1. ASSUME NEW m \in Minta, MintaPada(m, "tunggu")
        PROVE  \E k \in Kerja : /\ SegarUntuk(k, minta[m].laman)
                                /\ laman[minta[m].laman].segar = k
                                /\ kerja[k].langkah \in {"periksa", "mulai", "simpan", "jawab"}
    <3>. DEFINE l == minta[m].laman
                k == laman[l].segar
    <3>1. l \in Laman /\ k # Kosong
      BY <2>1 DEF TungguInv
    <3>2. k \in Kerja
      BY <3>1, LainUbah DEF IInv, TypeOK
    <3>3. SegarUntuk(k, l)
      BY <3>1, <3>2 DEF TungguInv
    <3>4. kerja[k].langkah \in {"periksa", "mulai", "simpan", "jawab"}
      BY <3>2, <3>3 DEF IInv, LangkahSah, SegarUntuk
    <3>. QED
      BY <3>2, <3>3, <3>4
  <2>2. \A l \in Laman : \A j, k \in Kerja : SegarUntuk(j, l) /\ SegarUntuk(k, l) => j = k
    BY DEF TungguInv
  <2>. QED
    BY <2>1, <2>2 DEF PenungguSah
<1>. QED
  BY <1>1, <1>2, InvarianSesi, NextTunggu, PTL DEF Spec
=============================================================================
