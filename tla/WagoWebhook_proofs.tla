-------------------------- MODULE WagoWebhook_proofs --------------------------
(***************************************************************************)
(* Whatever the number of instances, callbacks, failures and the values of *)
(* the periods: the messages of a reminder are spaced as PengirimanBerkala *)
(* says, its schedule never goes back, and the deliveries and the inbox    *)
(* agree.  Last, and as long as a lease outlasts the cycle it was taken    *)
(* for: no callback about a recorded submission stays behind.              *)
(***************************************************************************)
EXTENDS WagoWebhook, TLAPS

\* What a worker does with a row it claimed.
Menyerahkan == {"kirim", "tunggu", "catat", "jadwalkan", "gagal"}

\* Processing an event: from its delivery on, and once that is decided.
Dipasangkan == {"transisi", "terbaru", "pengingat", "percepat", "tandai"}
Diputus == {"terbaru", "pengingat", "percepat", "tandai"}

\* What a handler or worker holds of the inbox and the deliveries stays true.
OlahSah(p) ==
    /\ \A e \in olah[p].sisa : e \in DOMAIN kotak /\ e[1] = olah[p].pesan
    /\ olah[p].pc \in Dipasangkan \cup {"cocokkan"} => olah[p].e \in DOMAIN kotak
    /\ olah[p].pc = "cocokkan" => olah[p].e[1] = olah[p].pesan
    /\ olah[p].pc \in Dipasangkan =>
           olah[p].d \in DOMAIN pengiriman /\ pengiriman[olah[p].d].pesan = olah[p].e[1]
    /\ olah[p].pc \in Diputus \/ (olah[p].pc = "transisi" /\ olah[p].status # "PENDING") =>
           pengiriman[olah[p].d].status # "PENDING"
    /\ olah[p].pc \in Diputus \ {"tandai"} => olah[p].e[2] = "REJECTED"

\* One delivery per submission, about the message of that submission if any.
KirimanSah ==
    /\ SatuPengirimanPerKunci
    /\ \A i \in DOMAIN pengiriman : pengiriman[i].pesan \in {pengiriman[i].kunci, Kosong}

SuratSah == KirimanSah /\ (\A p \in Proses : OlahSah(p)) /\ KotakSelaras

BarisSah ==
    /\ baris.id <= barisKe
    /\ baris.terakhir <= jam
    /\ baris.id = 0 => baris.terakhir = 0 /\ baris.kunci = Kosong

PesanSah == \A k \in DOMAIN pesan : k[1] <= barisKe /\ pesan[k] <= jam

\* What a worker knows of the row stays true as long as it holds the row.
LokSah(w) ==
    /\ lok[w].now <= jam
    /\ lok[w].pc \in {"istirahat", "selaraskan", "cari", "klaim", "baca", "lepas", "kirim"} =>
           lok[w].jawab = Kosong
    /\ lok[w].pc \in {"tunggu", "catat", "jadwalkan"} =>
           KunciKirim(w) \in DOMAIN pesan /\ lok[w].jawab \in {KunciKirim(w), Kosong}
    /\ lok[w].pc \in Menyerahkan => lok[w].lihat.id \in 1..barisKe
    /\ lok[w].pc = "gagal" => lok[w].galat \in Galat
    /\ lok[w].pc = "baca" /\ Memegang(w, lok[w].ada) => baris.kirim <= lok[w].now
    /\ lok[w].pc \in Menyerahkan /\ Memegang(w, lok[w].lihat.id) =>
           lok[w].lihat.terakhir = baris.terakhir
    /\ lok[w].pc \in {"catat", "jadwalkan"} /\ Memegang(w, lok[w].lihat.id) =>
           /\ baris.terakhir <= lok[w].sent
           /\ lok[w].sent <= jam
           /\ \A k \in DOMAIN pesan : k[1] = baris.id => pesan[k] <= lok[w].sent

\* At t, reminder r may have its next message.
BolehPada(r, t) ==
    \/ \E e \in DOMAIN kotak : e[2] = "REJECTED" /\ e[1][1] = r /\ t >= kotak[e].terima + JarakTolak
    \/ \A k \in DOMAIN pesan : k[1] = r => t >= pesan[k] + Jarak

\* A worker that may still send a new message.
BelumTerkirim(w) == lok[w].pc \in Menyerahkan /\ KunciKirim(w) \notin DOMAIN pesan

GiliranBaris ==
    baris.id # 0 => \/ <<baris.id, baris.terakhir>> \in DOMAIN pesan
                    \/ BolehPada(baris.id, baris.kirim)

\* Such a worker is in time, and all of them would send the same one.
GiliranSah(w) ==
    BelumTerkirim(w) =>
        /\ BolehPada(lok[w].lihat.id, lok[w].now)
        /\ lok[w].lihat.id = baris.id => lok[w].lihat.terakhir = baris.terakhir
        /\ \A v \in Pekerja : BelumTerkirim(v) /\ lok[v].lihat.id = lok[w].lihat.id =>
               lok[v].lihat.terakhir = lok[w].lihat.terakhir

JadwalSah ==
    /\ BarisSah
    /\ PesanSah
    /\ GiliranBaris
    /\ \A w \in Pekerja : LokSah(w) /\ GiliranSah(w)

IInv == TypeOK /\ SuratSah /\ JadwalSah

-----------------------------------------------------------------------------
(***************************************************************************)
(* Types.                                                                  *)
(***************************************************************************)
LEMMA KosongSah ==
    /\ TanpaBaris \in Baris
    /\ LokKosong \in Lokal
    /\ OlahKosong \in Olahan
<1>1. 0 \in 0..MaxBaris /\ 0 \in 0..MaxJam /\ 0 \in 0..(Len(Mundur) - 1) /\ 0 \in Nat
    BY BatasAssumption, MundurAssumption
<1>2. TanpaBaris \in Baris
    BY <1>1 DEF TanpaBaris, Baris
<1>3. Terlihat(TanpaBaris) \in Lihatan
    BY <1>1 DEF TanpaBaris, Terlihat, Lihatan
<1>4. LokKosong \in Lokal
    BY <1>1, <1>3 DEF LokKosong, Lokal
<1>5. OlahKosong \in Olahan
    BY <1>1 DEF OlahKosong, Olahan
<1> QED
    BY <1>2, <1>4, <1>5

LEMMA InitTipe == Init => TypeOK
<1> SUFFICES ASSUME Init PROVE TypeOK
    OBVIOUS
<1>1. jam \in 1..MaxJam /\ barisKe \in 0..MaxBaris
    BY BatasAssumption DEF Init, InitP
<1>2. pesan \in [DOMAIN pesan -> 1..MaxJam] /\ DOMAIN pesan \subseteq Kunci
    BY DEF Init, InitP
<1>3. kotak \in [DOMAIN kotak -> Laporan] /\ DOMAIN kotak \subseteq Peristiwa
    BY DEF Init
<1>4. baris \in Baris /\ lok \in [Pekerja -> Lokal] /\ olah \in [Proses -> Olahan]
    BY KosongSah DEF Init, InitP
<1>5. pengiriman \in Seq(Kiriman)
    BY DEF Init, InitP
<1> QED
    BY <1>1, <1>2, <1>3, <1>4, <1>5 DEF TypeOK, Init, InitP

\* The steps of a cycle keep the types.
LEMMA SiklusTipe ==
    ASSUME TypeOK, NEW w \in Pekerja, Siklus(w), UNCHANGED <<kotak, olah>>,
           lok[w].pc \in Menyerahkan => lok[w].lihat.id # 0,
           lok[w].pc = "gagal" => lok[w].galat \in Galat
    PROVE  TypeOK'
<1> USE DEF TypeOK
<1>a. lok[w] \in Lokal /\ jam \in 0..MaxJam /\ baris.id \in 0..MaxBaris /\ baris \in Baris
    BY BatasAssumption DEF Baris
<1>b. ASSUME NEW r \in Lokal, lok' = [lok EXCEPT ![w] = r]
      PROVE  lok' \in [Pekerja -> Lokal]
    BY <1>b
<1>c. Terlihat(baris) \in Lihatan /\ Terlihat(TanpaBaris) \in Lihatan
    BY <1>a, KosongSah DEF Terlihat, Lihatan, Baris
<1>d. Usai(w) => lok' \in [Pekerja -> Lokal]
    BY <1>b, KosongSah DEF Usai
<1>1. CASE Mulai(w)
    <2>1. lok' \in [Pekerja -> Lokal]
        <3> DEFINE r1 == [lok[w] EXCEPT !.pc = "selaraskan", !.now = jam, !.perlu = berlaku]
        <3> DEFINE r2 == [lok[w] EXCEPT !.pc = "selaraskan", !.now = jam, !.ada = baris.id]
        <3>1. r1 \in Lokal /\ r2 \in Lokal
            BY <1>1, <1>a DEF Lokal
        <3>2. lok' = [lok EXCEPT ![w] = r1] \/ lok' = [lok EXCEPT ![w] = r2]
            BY <1>1, <1>a DEF Mulai
        <3> QED
            BY <3>1, <3>2, <1>b
    <2> QED
        BY <2>1, <1>1 DEF Mulai
<1>2. CASE BacaTugas(w)
    <2>1. lok' \in [Pekerja -> Lokal]
        BY <1>2, <1>a DEF BacaTugas, Lokal
    <2> QED
        BY <2>1, <1>2 DEF BacaTugas
<1>3. CASE BacaPengingat(w)
    <2>1. lok' \in [Pekerja -> Lokal]
        BY <1>3, <1>a DEF BacaPengingat, Lokal
    <2> QED
        BY <2>1, <1>3 DEF BacaPengingat
<1>4. CASE Selaraskan(w)
    <2>1. [LokKosong EXCEPT !.pc = "cari"] \in Lokal
        BY KosongSah DEF Lokal
    <2>2. lok' \in [Pekerja -> Lokal]
        BY <1>4, <2>1 DEF Selaraskan
    <2>3. baris' \in Baris /\ barisKe' \in 0..MaxBaris
        <3>1. CASE HapusBaris(w)
            BY <3>1, KosongSah DEF HapusBaris
        <3>2. CASE BuatBaris(w) /\ baris.id = 0
            <4>1. barisKe + 1 \in 0..MaxBaris /\ lok[w].now \in Nat
                BY <3>2, <1>a, BatasAssumption DEF BuatBaris, Lokal
            <4>2. BarisBaru(barisKe + 1, lok[w].now) \in Baris
                BY <4>1, KosongSah DEF BarisBaru, Baris
            <4> QED
                BY <3>2, <4>1, <4>2 DEF BuatBaris
        <3>3. CASE BuatBaris(w) /\ baris.id # 0
            BY <3>3 DEF BuatBaris
        <3> QED
            BY <1>4, <3>1, <3>2, <3>3 DEF Selaraskan
    <2> QED
        BY <2>2, <2>3, <1>4 DEF Selaraskan
<1>5. CASE CariJatuhTempo(w)
    <2>1. lok' \in [Pekerja -> Lokal]
        <3> DEFINE r == [lok[w] EXCEPT !.pc = "klaim", !.now = jam, !.ada = baris.id]
        <3>1. r \in Lokal
            BY <1>5, <1>a DEF Lokal
        <3>2. lok' = [lok EXCEPT ![w] = r] \/ Usai(w)
            BY <1>5, <1>a DEF CariJatuhTempo
        <3> QED
            BY <3>1, <3>2, <1>b, <1>d
    <2> QED
        BY <2>1, <1>5 DEF CariJatuhTempo
<1>6. CASE Klaim(w)
    <2>1. lok' \in [Pekerja -> Lokal]
        <3> DEFINE r == [lok[w] EXCEPT !.pc = "baca"]
        <3>1. r \in Lokal
            BY <1>6, <1>a DEF Lokal
        <3>2. lok' = [lok EXCEPT ![w] = r] \/ Usai(w)
            BY <1>6, <1>a DEF Klaim, Ke
        <3> QED
            BY <3>1, <3>2, <1>b, <1>d
    <2>2. lok[w].now + Sewa \in Nat
        BY <1>a, JarakAssumption, BatasAssumption DEF Lokal
    <2>3. baris' \in Baris
        BY <1>6, <2>2 DEF Klaim, Baris
    <2> QED
        BY <2>1, <2>3, <1>6 DEF Klaim
<1>7. CASE BacaKlaim(w)
    <2>1. lok' \in [Pekerja -> Lokal]
        <3> DEFINE r == [lok[w] EXCEPT !.pc = IF berlaku THEN "kirim" ELSE "lepas", !.lihat = Terlihat(baris)]
        <3>1. r \in Lokal
            BY <1>7, <1>a, <1>c DEF Lokal
        <3>2. lok' = [lok EXCEPT ![w] = r] \/ Usai(w)
            BY <1>7, <1>a DEF BacaKlaim
        <3> QED
            BY <3>1, <3>2, <1>b, <1>d
    <2> QED
        BY <2>1, <1>7 DEF BacaKlaim
<1>8. CASE Lepas(w)
    <2>1. baris' \in Baris
        BY <1>8 DEF Lepas, Baris
    <2> QED
        BY <2>1, <1>8, <1>d DEF Lepas
<1>9. CASE Kirim(w) /\ KunciKirim(w) \in Kunci
    <2>1. lok' \in [Pekerja -> Lokal]
        <3> DEFINE r1 == [lok[w] EXCEPT !.pc = "tunggu"]
        <3> DEFINE r2 == [lok[w] EXCEPT !.pc = "tunggu", !.jawab = KunciKirim(w)]
        <3>1. r1 \in Lokal /\ r2 \in Lokal
            BY <1>9, <1>a DEF Lokal
        <3>2. lok' = [lok EXCEPT ![w] = r1] \/ lok' = [lok EXCEPT ![w] = r2]
            <4>1. CASE KunciKirim(w) \in DOMAIN pesan
                BY <4>1, <1>9, <1>a DEF Kirim
            <4>2. CASE KunciKirim(w) \notin DOMAIN pesan
                <5>1. lok' = [lok EXCEPT ![w].pc = "tunggu", ![w].jawab = KunciKirim(w)]
                    BY <4>2, <1>9 DEF Kirim
                <5> QED
                    BY <5>1, <1>a
            <4> QED
                BY <4>1, <4>2
        <3> QED
            BY <3>1, <3>2, <1>b
    <2>2. DOMAIN pesan' \subseteq Kunci /\ pesan' \in [DOMAIN pesan' -> 1..MaxJam]
        BY <1>9 DEF Kirim, Ditambah
    <2> QED
        BY <2>1, <2>2, <1>9 DEF Kirim
<1>10. CASE Ditolak(w)
    <2>1. PICK g \in Galat : lok' = [lok EXCEPT ![w].pc = "gagal", ![w].galat = g]
        BY <1>10 DEF Ditolak
    <2> DEFINE r == [lok[w] EXCEPT !.pc = "gagal", !.galat = g]
    <2>2. r \in Lokal
        BY <1>a DEF Lokal
    <2>3. lok' \in [Pekerja -> Lokal]
        BY <2>1, <2>2, <1>a, <1>b
    <2> QED
        BY <2>3, <1>10 DEF Ditolak, Rusak
<1>11. CASE Jawaban(w)
    <2>1. lok' \in [Pekerja -> Lokal]
        <3> DEFINE r1 == [lok[w] EXCEPT !.pc = "catat", !.jawab = lok[w].jawab, !.sent = jam]
        <3> DEFINE r2 == [lok[w] EXCEPT !.pc = "catat", !.jawab = Kosong, !.sent = jam]
        <3>1. r1 \in Lokal /\ r2 \in Lokal
            BY <1>11, <1>a DEF Lokal
        <3>2. lok' = [lok EXCEPT ![w] = r1] \/ lok' = [lok EXCEPT ![w] = r2]
            BY <1>11, <1>a DEF Jawaban
        <3> QED
            BY <3>1, <3>2, <1>b
    <2> QED
        BY <2>1, <1>11 DEF Jawaban
<1>12. CASE Gangguan(w)
    <2> DEFINE r == [lok[w] EXCEPT !.pc = "gagal", !.galat = "LAIN"]
    <2>1. r \in Lokal
        BY <1>a DEF Lokal, Galat
    <2>2. lok' = [lok EXCEPT ![w] = r]
        BY <1>12, <1>a DEF Gangguan
    <2>3. lok' \in [Pekerja -> Lokal]
        BY <2>1, <2>2, <1>b
    <2> QED
        BY <2>3, <1>12 DEF Gangguan, Rusak
<1>13. CASE Catat(w) /\ KunciKirim(w) \in Kunci
    <2>1. lok' \in [Pekerja -> Lokal]
        <3>1. CASE PengirimanKunci(KunciKirim(w)) = {}
            <4> DEFINE r == [lok[w] EXCEPT !.pc = "jadwalkan"]
            <4>1. r \in Lokal
                BY <1>a DEF Lokal
            <4>2. lok' = [lok EXCEPT ![w] = r]
                BY <3>1, <1>13, <1>a DEF Catat, Ke
            <4> QED
                BY <4>1, <4>2, <1>b
        <3>2. ASSUME NEW i \in DOMAIN pengiriman,
                     lok' = [lok EXCEPT ![w].pc = "jadwalkan", ![w].jawab = pengiriman[i].pesan]
              PROVE  lok' \in [Pekerja -> Lokal]
            <4> DEFINE r == [lok[w] EXCEPT !.pc = "jadwalkan", !.jawab = pengiriman[i].pesan]
            <4>1. pengiriman[i] \in Kiriman
                OBVIOUS
            <4>2. r \in Lokal
                BY <4>1, <1>a DEF Lokal, Kiriman
            <4>3. lok' = [lok EXCEPT ![w] = r]
                BY <3>2, <1>a
            <4> QED
                BY <4>2, <4>3, <1>b
        <3> QED
            BY <3>1, <3>2, <1>13 DEF Catat, PengirimanKunci
    <2>2. [kunci |-> KunciKirim(w), pesan |-> lok[w].jawab, dikirim |-> lok[w].sent,
           status |-> "PENDING", kode |-> Kosong] \in Kiriman
        BY <1>13, <1>a DEF Lokal, Kiriman, Kode
    <2>3. pengiriman' \in Seq(Kiriman)
        <3>1. CASE PengirimanKunci(KunciKirim(w)) = {}
            BY <3>1, <2>2, <1>13 DEF Catat
        <3>2. CASE PengirimanKunci(KunciKirim(w)) # {}
            BY <3>2, <1>13 DEF Catat
        <3> QED
            BY <3>1, <3>2
    <2> QED
        BY <2>1, <2>3, <1>13 DEF Catat
<1>14. CASE Jadwalkan(w)
    <2>1. lok' \in [Pekerja -> Lokal]
        <3> DEFINE r == [lok[w] EXCEPT !.pc = "rekon"]
        <3>1. r \in Lokal
            BY <1>14, <1>a DEF Lokal
        <3>2. lok' = [lok EXCEPT ![w] = r] \/ Usai(w)
            BY <1>14, <1>a DEF Jadwalkan, Ke
        <3> QED
            BY <3>1, <3>2, <1>b, <1>d
    <2>2. lok[w].sent \in 0..MaxJam /\ lok[w].sent + Jarak \in Nat /\ 0 \in 0..(Len(Mundur) - 1)
        BY <1>a, JarakAssumption, BatasAssumption, MundurAssumption DEF Lokal
    <2>3. baris' \in Baris
        <3>1. Terjadwal(w) \in Baris
            BY <2>2 DEF Terjadwal, Baris
        <3> QED
            BY <3>1, <1>14 DEF Jadwalkan
    <2> QED
        BY <2>1, <2>3, <1>14 DEF Jadwalkan
<1>15. CASE Gagal(w) /\ lok[w].galat \in Galat
    <2>1. UpayaBerikut(w) \in Nat
        <3>a. Len(Mundur) \in Nat /\ lok[w].lihat \in Lihatan /\ lok[w].now \in Nat
            BY <1>a, BatasAssumption, MundurAssumption DEF Lokal
        <3>1. lok[w].now \in Nat /\ lok[w].lihat.gagal + 1 \in 1..Len(Mundur)
            BY <3>a DEF Lihatan
        <3>2. Mundur[lok[w].lihat.gagal + 1] \in Nat /\ Jarak \in Nat /\ MundurAtur \in Nat
            BY <3>1, MundurAssumption, JarakAssumption
        <3> QED
            BY ONLY <1>15, <3>1, <3>2 DEF UpayaBerikut, Galat
    <2>2. KaliGagal(baris.gagal + 1) \in 0..(Len(Mundur) - 1)
        <3>1. baris.gagal \in 0..(Len(Mundur) - 1)
            BY ONLY baris \in Baris DEF Baris
        <3>2. Len(Mundur) \in Nat
            BY ONLY BatasAssumption, MundurAssumption
        <3> QED
            BY ONLY <3>1, <3>2 DEF KaliGagal
    <2>3. baris' \in Baris
        BY <1>15, <2>1, <2>2 DEF Gagal, Baris
    <2> QED
        BY <2>3, <1>15, <1>d DEF Gagal
<1> QED
    <2>1. lok[w].pc \in Menyerahkan => KunciKirim(w) \in Kunci
        BY <1>a DEF Lokal, Lihatan, KunciKirim, Kunci
    <2>2. (Kirim(w) => KunciKirim(w) \in Kunci) /\ (Catat(w) => KunciKirim(w) \in Kunci)
        BY <2>1 DEF Kirim, Catat, Menyerahkan
    <2>3. Gagal(w) => lok[w].galat \in Galat
        BY DEF Gagal
    <2> QED
        BY <2>2, <2>3, <1>1, <1>2, <1>3, <1>4, <1>5, <1>6, <1>7, <1>8, <1>9, <1>10, <1>11,
           <1>12, <1>13, <1>14, <1>15 DEF Siklus

\* So do the steps of the inbox.
LEMMA OlahTipe ==
    ASSUME TypeOK, NEW p \in Proses, Olah(p), OlahSah(p)
    PROVE  TypeOK'
<1> USE DEF TypeOK
<1>a. olah[p] \in Olahan /\ (p \in Pekerja => lok[p] \in Lokal)
    OBVIOUS
<1>b. ASSUME NEW r \in Olahan, olah' = [olah EXCEPT ![p] = r]
      PROVE  olah' \in [Proses -> Olahan]
    BY <1>b
<1>c. ASSUME NEW pc, OlahKe(p, pc), [olah[p] EXCEPT !.pc = pc] \in Olahan
      PROVE  olah' \in [Proses -> Olahan]
    BY <1>a, <1>b, <1>c DEF OlahKe
<1>d. ASSUME NEW i \in DOMAIN pengiriman, olah[p].pc = "cocokkan",
             olah' = [olah EXCEPT ![p].pc = "transisi", ![p].d = i, ![p].status = pengiriman[i].status]
      PROVE  olah' \in [Proses -> Olahan]
    <2> DEFINE r == [olah[p] EXCEPT !.pc = "transisi", !.d = i, !.status = pengiriman[i].status]
    <2>1. pengiriman[i] \in Kiriman /\ i \in Nat
        OBVIOUS
    <2>2. r \in Olahan
        BY <1>a, <2>1 DEF Olahan, Kiriman
    <2>3. olah' = [olah EXCEPT ![p] = r]
        BY <1>a, <1>d
    <2> QED
        BY <2>2, <2>3, <1>b
<1>1. CASE Cocokkan(p)
    <2>1. CASE PengirimanPesan(olah[p].pesan) = {}
        <3> DEFINE r == [olah[p] EXCEPT !.pc = "selesai", !.sisa = {}]
        <3>1. r \in Olahan
            BY <1>a DEF Olahan
        <3>2. olah' = [olah EXCEPT ![p] = r]
            BY <1>1, <2>1, <1>a DEF Cocokkan
        <3> QED
            BY <3>1, <3>2, <1>b, <1>1 DEF Cocokkan, varsP
    <2>2. CASE PengirimanPesan(olah[p].pesan) # {}
        <3>1. olah' \in [Proses -> Olahan]
            BY <1>d, <1>1, <2>2 DEF Cocokkan, PengirimanPesan
        <3> QED
            BY <3>1, <1>1 DEF Cocokkan, varsP
    <2> QED
        BY <2>1, <2>2
<1>2. CASE BacaKotak(p)
    <2> DEFINE r == [olah[p] EXCEPT !.pc = "selesai", !.sisa = BelumDiolah(olah[p].pesan)]
    <2>1. BelumDiolah(olah[p].pesan) \in SUBSET Peristiwa
        BY DEF BelumDiolah
    <2>2. r \in Olahan
        BY <1>a, <2>1 DEF Olahan
    <2>3. olah' = [olah EXCEPT ![p] = r]
        BY <1>2, <1>a DEF BacaKotak
    <2> QED
        BY <2>2, <2>3, <1>b, <1>2 DEF BacaKotak, varsP
<1>3. CASE Berikut(p)
    <2>1. PICK e \in olah[p].sisa :
              olah' = [olah EXCEPT ![p].pc = "cocokkan", ![p].e = e, ![p].sisa = @ \ {e}]
        BY <1>3 DEF Berikut
    <2> DEFINE r == [olah[p] EXCEPT !.pc = "cocokkan", !.e = e, !.sisa = olah[p].sisa \ {e}]
    <2>2. r \in Olahan
        BY <1>a DEF Olahan
    <2>3. olah' = [olah EXCEPT ![p] = r]
        BY <2>1, <1>a
    <2> QED
        BY <2>2, <2>3, <1>b, <1>3 DEF Berikut, varsP
<1>4. CASE Selesai(p)
    <2>1. olah' \in [Proses -> Olahan] /\ lok' \in [Pekerja -> Lokal]
        BY <1>4, KosongSah DEF Selesai, Usai
    <2> QED
        BY <2>1, <1>4 DEF Selesai
<1>5. CASE Transisi(p)
    <2>1. olah' \in [Proses -> Olahan]
        <3>1. OlahKe(p, "terbaru") \/ OlahKe(p, "tandai")
            BY <1>5 DEF Transisi, KeSetelahTransisi
        <3>2. [olah[p] EXCEPT !.pc = "terbaru"] \in Olahan /\ [olah[p] EXCEPT !.pc = "tandai"] \in Olahan
            BY <1>a DEF Olahan
        <3> QED
            BY <3>1, <3>2, <1>c
    <2>2. Ditetapkan(p, olah[p].d) \in Seq(Kiriman)
        <3>1. olah[p].e[2] \in Hasil /\ LaporanOleh(p).kode \in Kode /\ olah[p].d \in DOMAIN pengiriman
            BY <1>5 DEF Transisi, OlahSah, Dipasangkan, LaporanOleh, Laporan, Peristiwa
        <3> DEFINE k == [pengiriman[olah[p].d] EXCEPT !.status = olah[p].e[2], !.kode = LaporanOleh(p).kode]
        <3>2. pengiriman[olah[p].d] \in Kiriman
            BY <3>1
        <3>3. k \in Kiriman
            BY <3>1, <3>2 DEF Kiriman
        <3>4. Ditetapkan(p, olah[p].d) = [pengiriman EXCEPT ![olah[p].d] = k]
            BY <3>1, <3>2 DEF Ditetapkan
        <3> QED
            BY <3>1, <3>3, <3>4
    <2>3. pengiriman' \in Seq(Kiriman)
        BY <2>2, <1>5 DEF Transisi
    <2> QED
        BY <2>1, <2>3, <1>5 DEF Transisi
<1>6. CASE BacaTerbaru(p)
    <2>1. OlahKe(p, "pengingat") \/ OlahKe(p, "tandai")
        BY <1>6 DEF BacaTerbaru
    <2>2. [olah[p] EXCEPT !.pc = "pengingat"] \in Olahan /\ [olah[p] EXCEPT !.pc = "tandai"] \in Olahan
        BY <1>a DEF Olahan
    <2> QED
        BY <2>1, <2>2, <1>c, <1>6 DEF BacaTerbaru, varsP
<1>7. CASE BacaJadwal(p)
    <2>1. OlahKe(p, "tandai") \/ OlahKe(p, "selesai") \/ OlahKe(p, "percepat")
        BY <1>7 DEF BacaJadwal
    <2>2. /\ [olah[p] EXCEPT !.pc = "tandai"] \in Olahan
          /\ [olah[p] EXCEPT !.pc = "selesai"] \in Olahan
          /\ [olah[p] EXCEPT !.pc = "percepat"] \in Olahan
        BY <1>a DEF Olahan
    <2> QED
        BY <2>1, <2>2, <1>c, <1>7 DEF BacaJadwal, varsP
<1>8. CASE Percepat(p)
    <2>1. [olah[p] EXCEPT !.pc = "tandai"] \in Olahan
        BY <1>a DEF Olahan
    <2>2. olah' \in [Proses -> Olahan]
        BY <2>1, <1>c, <1>8 DEF Percepat
    <2>3. LaporanOleh(p).terima + JarakTolak \in Nat
        BY <1>8, JarakTolakAssumption, BatasAssumption
           DEF Percepat, OlahSah, Dipasangkan, LaporanOleh, Laporan
    <2>4. baris' \in Baris
        BY <2>3, <1>8 DEF Percepat, Baris
    <2> QED
        BY <2>2, <2>4, <1>8 DEF Percepat
<1>9. CASE Tandai(p)
    <2>1. [olah[p] EXCEPT !.pc = "selesai"] \in Olahan
        BY <1>a DEF Olahan
    <2>2. olah' \in [Proses -> Olahan]
        BY <2>1, <1>c, <1>9 DEF Tandai
    <2>3. DOMAIN kotak' = DOMAIN kotak /\ kotak' \in [DOMAIN kotak' -> Laporan]
        BY <1>9 DEF Tandai, Laporan
    <2> QED
        BY <2>2, <2>3, <1>9 DEF Tandai, varsP
<1> QED
    BY <1>1, <1>2, <1>3, <1>4, <1>5, <1>6, <1>7, <1>8, <1>9 DEF Olah

LEMMA TerimaTipe ==
    ASSUME TypeOK, NEW h \in Penerima, NEW m \in DOMAIN pesan, NEW s \in Hasil, Terima(h, m, s)
    PROVE  TypeOK'
<1> USE DEF TypeOK
<1> DEFINE e == <<m, s>>
<1>1. e \in Peristiwa /\ h \in Proses
    BY DEF Peristiwa, Proses
<1>2. CASE e \notin DOMAIN kotak
    <2>1. PICK k \in IF s = "REJECTED" THEN {"MESSAGE_REJECTED", "LAIN"} ELSE {Kosong} :
              kotak' = Ditambah(kotak, e, [kode |-> k, terima |-> jam, sudah |-> FALSE])
        BY <1>2 DEF Terima
    <2>2. [kode |-> k, terima |-> jam, sudah |-> FALSE] \in Laporan
        BY DEF Laporan, Kode
    <2>3. DOMAIN kotak' \subseteq Peristiwa /\ kotak' \in [DOMAIN kotak' -> Laporan]
        BY <1>1, <2>1, <2>2 DEF Ditambah
    <2>4. [OlahKosong EXCEPT !.pc = "cocokkan", !.pesan = m, !.e = e] \in Olahan
        BY <1>1, KosongSah DEF Olahan
    <2>5. olah' \in [Proses -> Olahan]
        BY <1>1, <1>2, <2>4 DEF Terima
    <2> QED
        BY <2>3, <2>5 DEF Terima, varsP
<1>3. CASE e \in DOMAIN kotak
    <2>1. [OlahKosong EXCEPT !.pc = "rekon", !.pesan = m] \in Olahan
        BY KosongSah DEF Olahan
    <2>2. olah' \in [Proses -> Olahan]
        BY <1>1, <1>3, <2>1 DEF Terima
    <2> QED
        BY <1>3, <2>2 DEF Terima, varsP
<1> QED
    BY <1>2, <1>3

LEMMA WaktuSah ==
    ASSUME TypeOK
    PROVE  /\ jam \in Nat
           /\ \A k \in DOMAIN pesan : pesan[k] \in Nat
           /\ \A e \in DOMAIN kotak : kotak[e].terima \in Nat
           /\ \A w \in Pekerja : lok[w].now \in Nat /\ lok[w].sent \in Nat
<1>1. \A k \in DOMAIN pesan : pesan[k] \in Nat
    BY BatasAssumption DEF TypeOK
<1>2. \A e \in DOMAIN kotak : kotak[e].terima \in Nat
    BY BatasAssumption DEF TypeOK, Laporan
<1>3. \A w \in Pekerja : lok[w].now \in Nat /\ lok[w].sent \in Nat
    BY BatasAssumption DEF TypeOK, Lokal
<1> QED
    BY <1>1, <1>2, <1>3, BatasAssumption DEF TypeOK

-----------------------------------------------------------------------------
(***************************************************************************)
(* The schedule.  Events only come and their times stay.                   *)
(***************************************************************************)
KotakTumbuh ==
    \A e \in DOMAIN kotak : e \in DOMAIN kotak' /\ kotak'[e].terima = kotak[e].terima

LEMMA JadwalTetap ==
    ASSUME TypeOK, JadwalSah, TypeOK', KotakTumbuh, UNCHANGED <<baris, barisKe, pesan, lok>>,
           jam <= jam'
    PROVE  JadwalSah'
<1>1. jam \in Nat /\ jam' \in Nat /\ \A w \in Pekerja : lok[w] \in Lokal
    BY BatasAssumption DEF TypeOK
<1>2. BarisSah' /\ PesanSah'
    BY <1>1, BatasAssumption DEF BarisSah, PesanSah, JadwalSah, TypeOK, Baris
<1>3. GiliranBaris'
    BY DEF GiliranBaris, JadwalSah, BolehPada, KotakTumbuh
<1>4. ASSUME NEW w \in Pekerja PROVE LokSah(w)'
    <2>1. LokSah(w)
        BY DEF JadwalSah
    <2>2. lok[w].now \in Nat /\ lok[w].sent \in Nat
        BY <1>1, BatasAssumption DEF Lokal
    <2> QED
        BY <2>1, <2>2, <1>1 DEF LokSah, Memegang, KunciKirim
<1>5. ASSUME NEW w \in Pekerja PROVE GiliranSah(w)'
    <2>1. GiliranSah(w)
        BY DEF JadwalSah
    <2> QED
        BY <2>1 DEF GiliranSah, BelumTerkirim, KunciKirim, BolehPada, KotakTumbuh
<1> QED
    BY <1>2, <1>3, <1>4, <1>5 DEF JadwalSah

\* A step of the cycle of w that gives it no turn it did not have.
LEMMA JadwalLangkah ==
    ASSUME TypeOK, JadwalSah, TypeOK', NEW w \in Pekerja,
           UNCHANGED <<jam, baris, barisKe, pesan, kotak>>,
           \A v \in Pekerja \ {w} : lok'[v] = lok[v],
           LokSah(w)',
           BelumTerkirim(w)' => /\ BelumTerkirim(w)
                                /\ lok'[w].lihat = lok[w].lihat
                                /\ lok'[w].now = lok[w].now
    PROVE  JadwalSah'
<1>1. BarisSah' /\ PesanSah' /\ GiliranBaris'
    BY DEF BarisSah, PesanSah, JadwalSah, GiliranBaris, BolehPada
<1>2. ASSUME NEW v \in Pekerja PROVE LokSah(v)'
    <2>1. CASE v = w
        BY <2>1
    <2>2. CASE v # w
        <3>1. LokSah(v)
            BY DEF JadwalSah
        <3> QED
            BY <2>2, <3>1 DEF LokSah, Memegang, KunciKirim
    <2> QED
        BY <2>1, <2>2
<1>3. ASSUME NEW v \in Pekerja, BelumTerkirim(v)'
      PROVE  /\ BelumTerkirim(v)
             /\ lok'[v].lihat = lok[v].lihat
             /\ lok'[v].now = lok[v].now
    BY <1>3 DEF BelumTerkirim, KunciKirim
<1>4. ASSUME NEW v \in Pekerja PROVE GiliranSah(v)'
    <2> SUFFICES ASSUME BelumTerkirim(v)'
                 PROVE  /\ BolehPada(lok[v].lihat.id, lok[v].now)'
                        /\ lok'[v].lihat.id = baris'.id => lok'[v].lihat.terakhir = baris'.terakhir
                        /\ \A u \in Pekerja : BelumTerkirim(u)' /\ lok'[u].lihat.id = lok'[v].lihat.id =>
                               lok'[u].lihat.terakhir = lok'[v].lihat.terakhir
        BY DEF GiliranSah
    <2>1. GiliranSah(v) /\ BelumTerkirim(v) /\ lok'[v].lihat = lok[v].lihat /\ lok'[v].now = lok[v].now
        BY <1>3 DEF JadwalSah
    <2>2. BolehPada(lok[v].lihat.id, lok[v].now)'
        BY <2>1 DEF GiliranSah, BolehPada
    <2> QED
        BY <2>1, <2>2, <1>3 DEF GiliranSah
<1> QED
    BY <1>1, <1>2, <1>4 DEF JadwalSah

\* Cycles that neither touch the row nor gain a turn.
LEMMA JadwalLokal ==
    ASSUME TypeOK, JadwalSah, TypeOK', NEW w \in Pekerja, UNCHANGED kotak,
           \/ Mulai(w) \/ BacaTugas(w) \/ BacaPengingat(w) \/ CariJatuhTempo(w)
           \/ Ditolak(w) \/ Jawaban(w) \/ Gangguan(w)
    PROVE  JadwalSah'
<1>a. lok[w] \in Lokal /\ lok \in [Pekerja -> Lokal] /\ jam \in Nat /\ LokSah(w)
    BY BatasAssumption DEF TypeOK, JadwalSah
<1>b. \A v \in Pekerja \ {w} : lok'[v] = lok[v]
    BY <1>a DEF Mulai, BacaTugas, BacaPengingat, CariJatuhTempo, Usai, Ditolak, Jawaban, Gangguan
<1>c. UNCHANGED <<jam, baris, barisKe, pesan>>
    BY DEF Mulai, BacaTugas, BacaPengingat, CariJatuhTempo, Ditolak, Jawaban, Gangguan
<1>1. CASE Mulai(w) \/ BacaTugas(w) \/ BacaPengingat(w)
    <2>1. lok'[w].pc = "selaraskan" /\ lok'[w].jawab = lok[w].jawab /\ lok'[w].now \in {jam, lok[w].now}
        BY <1>1, <1>a DEF Mulai, BacaTugas, BacaPengingat, Lokal
    <2>2. lok[w].jawab = Kosong
        BY <1>1, <1>a DEF Mulai, BacaTugas, BacaPengingat, LokSah
    <2>3. LokSah(w)' /\ ~BelumTerkirim(w)'
        BY <2>1, <2>2, <1>a, <1>c DEF LokSah, BelumTerkirim, Menyerahkan
    <2> QED
        BY <2>3, <1>b, <1>c, JadwalLangkah
<1>2. CASE CariJatuhTempo(w)
    <2>1. /\ lok'[w].pc \in {"klaim", "istirahat"}
          /\ lok'[w].jawab = Kosong
          /\ lok'[w].now \in {jam, 0}
        BY <1>2, <1>a DEF CariJatuhTempo, Lokal, LokSah, Usai, LokKosong
    <2>2. LokSah(w)' /\ ~BelumTerkirim(w)'
        BY <2>1, <1>a, <1>c DEF LokSah, BelumTerkirim, Menyerahkan
    <2> QED
        BY <2>2, <1>b, <1>c, JadwalLangkah
<1>3. CASE Ditolak(w) \/ Gangguan(w)
    <2>1. /\ lok'[w].pc = "gagal" /\ lok'[w].galat \in Galat
          /\ lok'[w].lihat = lok[w].lihat /\ lok'[w].now = lok[w].now
          /\ lok[w].pc \in Menyerahkan
        BY <1>3, <1>a DEF Ditolak, Gangguan, Lokal, Galat, Menyerahkan
    <2>2. LokSah(w)'
        BY <2>1, <1>a, <1>c DEF LokSah, Memegang, Menyerahkan
    <2>3. BelumTerkirim(w)' => BelumTerkirim(w)
        BY <2>1, <1>c DEF BelumTerkirim, KunciKirim
    <2> QED
        BY <2>1, <2>2, <2>3, <1>b, <1>c, JadwalLangkah
<1>4. CASE Jawaban(w)
    <2>1. /\ lok[w].pc = "tunggu" /\ lok'[w].pc = "catat"
          /\ lok'[w].lihat = lok[w].lihat /\ lok'[w].now = lok[w].now
          /\ lok'[w].sent = jam /\ lok'[w].jawab \in {lok[w].jawab, Kosong}
        BY <1>4, <1>a DEF Jawaban, Lokal
    <2>2. LokSah(w)'
        BY <2>1, <1>a, <1>c DEF LokSah, Memegang, Menyerahkan, KunciKirim, JadwalSah, BarisSah, PesanSah
    <2>3. ~BelumTerkirim(w)'
        BY <2>1, <1>a, <1>c DEF BelumTerkirim, KunciKirim, LokSah
    <2> QED
        BY <2>2, <2>3, <1>b, <1>c, JadwalLangkah
<1> QED
    BY <1>1, <1>2, <1>3, <1>4

\* A cycle is over: of a worker that fails, or that has reconciled its callbacks.
LEMMA JadwalUsai ==
    ASSUME TypeOK, JadwalSah, TypeOK', NEW w \in Pekerja, Usai(w),
           UNCHANGED <<jam, baris, barisKe, pesan, kotak>>
    PROVE  JadwalSah'
<1>1. lok'[w] = LokKosong /\ \A v \in Pekerja \ {w} : lok'[v] = lok[v]
    BY DEF Usai, TypeOK
<1>2. jam \in Nat
    BY BatasAssumption DEF TypeOK
<1>3. LokSah(w)' /\ ~BelumTerkirim(w)'
    BY <1>1, <1>2 DEF LokSah, LokKosong, BelumTerkirim, Menyerahkan
<1> QED
    BY <1>1, <1>3, JadwalLangkah

\* A claimed row that is still open gives its worker a turn.
LEMMA JadwalBacaKlaim ==
    ASSUME TypeOK, JadwalSah, TypeOK', NEW w \in Pekerja, BacaKlaim(w), UNCHANGED kotak
    PROVE  JadwalSah'
<1>a. lok[w] \in Lokal /\ lok \in [Pekerja -> Lokal] /\ jam \in Nat /\ LokSah(w) /\ baris \in Baris
    BY BatasAssumption DEF TypeOK, JadwalSah
<1>b. UNCHANGED <<jam, baris, barisKe, pesan>>
    BY DEF BacaKlaim
<1>1. CASE ~Memegang(w, lok[w].ada)
    BY <1>1, <1>b, JadwalUsai DEF BacaKlaim
<1>2. CASE Memegang(w, lok[w].ada)
    <2>1. /\ lok'[w].pc \in {"kirim", "lepas"}
          /\ lok'[w].lihat = Terlihat(baris)
          /\ lok'[w].now = lok[w].now /\ lok'[w].jawab = lok[w].jawab
          /\ \A v \in Pekerja \ {w} : lok'[v] = lok[v]
        BY <1>2, <1>a DEF BacaKlaim, Lokal
    <2>2. baris.id # 0 /\ baris.kirim <= lok[w].now /\ baris.id \in 1..barisKe /\ lok[w].jawab = Kosong
        <3>1. baris.id # 0 /\ baris.id \in Nat /\ baris.id <= barisKe
            BY <1>2, <1>a, KosongAssumption, BatasAssumption DEF Memegang, JadwalSah, BarisSah, Baris
        <3>2. barisKe \in Nat
            BY BatasAssumption DEF TypeOK
        <3> QED
            BY <3>1, <3>2, <1>a, <1>2 DEF BacaKlaim, LokSah
    <2>3. LokSah(w)'
        BY <2>1, <2>2, <1>a, <1>b DEF LokSah, Menyerahkan, Terlihat, Memegang
    <2>4. BelumTerkirim(w)' => BolehPada(lok[w].lihat.id, lok[w].now)'
        <3> SUFFICES ASSUME BelumTerkirim(w)' PROVE BolehPada(lok[w].lihat.id, lok[w].now)'
            OBVIOUS
        <3>1. BolehPada(baris.id, baris.kirim)
            BY <2>1, <2>2, <1>b DEF BelumTerkirim, KunciKirim, Terlihat, JadwalSah, GiliranBaris
        <3>2. /\ lok[w].now \in Nat /\ baris.kirim \in Nat
              /\ \A k \in DOMAIN pesan : pesan[k] \in Nat
              /\ \A e \in DOMAIN kotak : kotak[e].terima \in Nat
            BY <1>a, WaktuSah DEF Baris
        <3>3. lok'[w].lihat.id = baris.id /\ lok'[w].now = lok[w].now
            BY <2>1 DEF Terlihat
        <3> QED
            BY <3>1, <3>2, <3>3, <2>2, <1>b, JarakAssumption, JarakTolakAssumption DEF BolehPada
    <2>5. ASSUME NEW v \in Pekerja, v # w PROVE (BelumTerkirim(v)' <=> BelumTerkirim(v)) /\ lok'[v] = lok[v]
        BY <2>1, <2>5, <1>b DEF BelumTerkirim, KunciKirim
    <2>6. lok'[w].lihat.id = baris.id /\ lok'[w].lihat.terakhir = baris.terakhir
        BY <2>1 DEF Terlihat
    <2>7. ASSUME NEW v \in Pekerja, v # w PROVE LokSah(v)'
        <3>1. LokSah(v)
            BY DEF JadwalSah
        <3> QED
            BY <3>1, <2>5, <2>7, <1>b DEF LokSah, Memegang, KunciKirim
    <2>8. ASSUME NEW v \in Pekerja, v # w PROVE GiliranSah(v)'
        <3>1. GiliranSah(v)
            BY DEF JadwalSah
        <3>2. BelumTerkirim(v)' => BolehPada(lok[v].lihat.id, lok[v].now)'
            BY <3>1, <2>5, <2>8, <1>b DEF GiliranSah, BolehPada
        <3> QED
            BY <3>1, <3>2, <2>5, <2>6, <2>8, <1>b DEF GiliranSah
    <2>9. GiliranSah(w)'
        <3>1. \A v \in Pekerja : GiliranSah(v)
            BY DEF JadwalSah
        <3> QED
            BY <3>1, <2>4, <2>5, <2>6, <1>b DEF GiliranSah
    <2>10. BarisSah' /\ PesanSah' /\ GiliranBaris'
        BY <1>b DEF BarisSah, PesanSah, JadwalSah, GiliranBaris, BolehPada
    <2> QED
        BY <2>3, <2>7, <2>8, <2>9, <2>10 DEF JadwalSah
<1> QED
    BY <1>1, <1>2

\* A step of w on the row that leaves it to nobody else.
LEMMA JadwalBaris ==
    ASSUME TypeOK, JadwalSah, TypeOK', NEW w \in Pekerja, UNCHANGED <<jam, pesan, kotak>>,
           \A v \in Pekerja \ {w} : lok'[v] = lok[v],
           barisKe <= barisKe', BarisSah', GiliranBaris',
           LokSah(w)', ~BelumTerkirim(w)',
           baris' = baris \/ baris'.kunci \in {Kosong, w},
           \A v \in Pekerja : BelumTerkirim(v) /\ lok[v].lihat.id = baris'.id =>
               lok[v].lihat.terakhir = baris'.terakhir
    PROVE  JadwalSah'
<1>a. barisKe \in Nat /\ barisKe' \in Nat
    BY BatasAssumption DEF TypeOK
<1>1. PesanSah'
    <2>1. \A k \in DOMAIN pesan : k[1] \in Nat
        BY BatasAssumption DEF TypeOK, Kunci
    <2> QED
        BY <2>1, <1>a DEF PesanSah, JadwalSah
<1>2. ASSUME NEW v \in Pekerja PROVE LokSah(v)'
    <2>1. CASE v = w
        BY <2>1
    <2>2. CASE v # w
        <3>1. LokSah(v)
            BY DEF JadwalSah
        <3>2. Memegang(v, lok[v].ada)' => baris' = baris /\ Memegang(v, lok[v].ada)
            BY <2>2, KosongAssumption DEF Memegang
        <3>3. Memegang(v, lok[v].lihat.id)' => baris' = baris /\ Memegang(v, lok[v].lihat.id)
            BY <2>2, KosongAssumption DEF Memegang
        <3>4. lok[v].lihat.id \in 1..barisKe => lok[v].lihat.id \in 1..barisKe'
            BY <1>a
        <3> QED
            BY <2>2, <3>1, <3>2, <3>3, <3>4 DEF LokSah, KunciKirim
    <2> QED
        BY <2>1, <2>2
<1>3. ASSUME NEW v \in Pekerja, BelumTerkirim(v)' PROVE BelumTerkirim(v) /\ lok'[v] = lok[v]
    <2>1. v # w
        BY <1>3
    <2> QED
        BY <1>3, <2>1 DEF BelumTerkirim, KunciKirim
<1>4. ASSUME NEW v \in Pekerja PROVE GiliranSah(v)'
    <2> SUFFICES ASSUME BelumTerkirim(v)'
                 PROVE  /\ BolehPada(lok[v].lihat.id, lok[v].now)'
                        /\ lok'[v].lihat.id = baris'.id => lok'[v].lihat.terakhir = baris'.terakhir
                        /\ \A u \in Pekerja : BelumTerkirim(u)' /\ lok'[u].lihat.id = lok'[v].lihat.id =>
                               lok'[u].lihat.terakhir = lok'[v].lihat.terakhir
        BY DEF GiliranSah
    <2>1. GiliranSah(v) /\ BelumTerkirim(v) /\ lok'[v] = lok[v]
        BY <1>3 DEF JadwalSah
    <2>2. BolehPada(lok[v].lihat.id, lok[v].now)'
        BY <2>1 DEF GiliranSah, BolehPada
    <2> QED
        BY <2>1, <2>2, <1>3 DEF GiliranSah
<1> QED
    BY <1>1, <1>2, <1>4 DEF JadwalSah

\* Its four operations on the row: claim, release, failure, success.
LEMMA JadwalKlaim ==
    ASSUME TypeOK, JadwalSah, TypeOK', NEW w \in Pekerja, Klaim(w), UNCHANGED kotak
    PROVE  JadwalSah'
<1>a. lok[w] \in Lokal /\ lok \in [Pekerja -> Lokal] /\ jam \in Nat /\ LokSah(w) /\ baris \in Baris
    BY BatasAssumption DEF TypeOK, JadwalSah
<1>b. UNCHANGED <<jam, barisKe, pesan>> /\ barisKe \in Nat
    BY BatasAssumption DEF Klaim, TypeOK
<1>1. CASE ~(baris.id = lok[w].ada /\ JatuhTempo(lok[w].now))
    BY <1>1, <1>b, JadwalUsai DEF Klaim
<1>2. CASE baris.id = lok[w].ada /\ JatuhTempo(lok[w].now)
    <2>1. /\ baris'.id = baris.id /\ baris'.terakhir = baris.terakhir /\ baris'.kirim = baris.kirim
          /\ baris'.kunci = w
          /\ baris.id # 0 /\ baris.kirim <= lok[w].now
        BY <1>2, <1>a DEF Klaim, JatuhTempo, Baris
    <2>2. /\ lok[w].pc = "klaim" /\ lok'[w].pc = "baca"
          /\ lok'[w].now = lok[w].now /\ lok'[w].jawab = lok[w].jawab
          /\ \A v \in Pekerja \ {w} : lok'[v] = lok[v]
        BY <1>2, <1>a DEF Klaim, Ke, Lokal
    <2>3. LokSah(w)' /\ ~BelumTerkirim(w)'
        BY <2>1, <2>2, <1>a, <1>b DEF LokSah, BelumTerkirim, Menyerahkan
    <2>4. BarisSah' /\ GiliranBaris'
        BY <2>1, <1>b DEF BarisSah, GiliranBaris, JadwalSah, BolehPada
    <2>5. \A v \in Pekerja : BelumTerkirim(v) /\ lok[v].lihat.id = baris'.id =>
               lok[v].lihat.terakhir = baris'.terakhir
        BY <2>1 DEF JadwalSah, GiliranSah
    <2> QED
        BY <2>1, <2>2, <2>3, <2>4, <2>5, <1>b, JadwalBaris
<1> QED
    BY <1>1, <1>2

LEMMA JadwalLepas ==
    ASSUME TypeOK, JadwalSah, TypeOK', NEW w \in Pekerja, Lepas(w), UNCHANGED kotak
    PROVE  JadwalSah'
<1>a. lok \in [Pekerja -> Lokal] /\ jam \in Nat /\ baris \in Baris
    BY BatasAssumption DEF TypeOK
<1>b. UNCHANGED <<jam, barisKe, pesan>> /\ barisKe \in Nat
    BY BatasAssumption DEF Lepas, TypeOK
<1>1. /\ baris'.id = baris.id /\ baris'.terakhir = baris.terakhir /\ baris'.kirim = baris.kirim
      /\ baris' = baris \/ baris'.kunci = Kosong
    BY <1>a DEF Lepas, Baris
<1>2. lok'[w] = LokKosong /\ \A v \in Pekerja \ {w} : lok'[v] = lok[v]
    BY <1>a DEF Lepas, Usai
<1>3. LokSah(w)' /\ ~BelumTerkirim(w)'
    BY <1>2, <1>a, <1>b DEF LokSah, LokKosong, BelumTerkirim, Menyerahkan
<1>4. BarisSah' /\ GiliranBaris'
    BY <1>1, <1>b DEF BarisSah, GiliranBaris, JadwalSah, BolehPada
<1>5. \A v \in Pekerja : BelumTerkirim(v) /\ lok[v].lihat.id = baris'.id =>
           lok[v].lihat.terakhir = baris'.terakhir
    BY <1>1 DEF JadwalSah, GiliranSah
<1> QED
    BY <1>1, <1>2, <1>3, <1>4, <1>5, <1>b, JadwalBaris

\* A failure never brings the next attempt forward.
LEMMA JadwalGagal ==
    ASSUME TypeOK, JadwalSah, TypeOK', NEW w \in Pekerja, Gagal(w), UNCHANGED kotak
    PROVE  JadwalSah'
<1>a. lok[w] \in Lokal /\ lok \in [Pekerja -> Lokal] /\ jam \in Nat /\ LokSah(w) /\ GiliranSah(w) /\ baris \in Baris
    BY BatasAssumption DEF TypeOK, JadwalSah
<1>b. UNCHANGED <<jam, barisKe, pesan>> /\ barisKe \in Nat
    BY BatasAssumption DEF Gagal, TypeOK
<1>2. lok'[w] = LokKosong /\ \A v \in Pekerja \ {w} : lok'[v] = lok[v]
    BY <1>a DEF Gagal, Usai
<1>3. LokSah(w)' /\ ~BelumTerkirim(w)'
    BY <1>2, <1>a, <1>b DEF LokSah, LokKosong, BelumTerkirim, Menyerahkan
<1>4. CASE ~Memegang(w, lok[w].lihat.id)
    <2>1. baris' = baris
        BY <1>4 DEF Gagal
    <2>2. BarisSah' /\ GiliranBaris'
        BY <2>1, <1>b DEF BarisSah, GiliranBaris, JadwalSah, BolehPada
    <2>3. \A v \in Pekerja : BelumTerkirim(v) /\ lok[v].lihat.id = baris'.id =>
              lok[v].lihat.terakhir = baris'.terakhir
        BY <2>1 DEF JadwalSah, GiliranSah
    <2> QED
        BY <2>1, <2>2, <2>3, <1>2, <1>3, <1>b, JadwalBaris
<1>5. CASE Memegang(w, lok[w].lihat.id)
    <2>1. /\ baris'.id = baris.id /\ baris'.terakhir = baris.terakhir
          /\ baris'.kirim = UpayaBerikut(w) /\ baris'.kunci = Kosong
        BY <1>5, <1>a DEF Gagal, Baris
    <2>2. lok[w].pc = "gagal" /\ lok[w].lihat.id = baris.id /\ lok[w].lihat.terakhir = baris.terakhir
        BY <1>5, <1>a DEF Gagal, LokSah, Menyerahkan, Memegang
    <2>3. UpayaBerikut(w) \in Nat /\ lok[w].now \in Nat /\ lok[w].now <= UpayaBerikut(w)
        <3>1. Len(Mundur) \in Nat /\ lok[w].lihat \in Lihatan /\ lok[w].now \in Nat
            BY <1>a, BatasAssumption, MundurAssumption DEF Lokal
        <3>2. lok[w].lihat.gagal + 1 \in 1..Len(Mundur)
            BY <3>1 DEF Lihatan
        <3>3. Mundur[lok[w].lihat.gagal + 1] \in Nat /\ Jarak \in Nat /\ MundurAtur \in Nat
            BY <3>2, MundurAssumption, JarakAssumption
        <3>4. lok[w].galat \in Galat
            BY <2>2, <1>a DEF LokSah
        <3>5. PICK n \in Nat : UpayaBerikut(w) = lok[w].now + n
            BY ONLY <3>3, <3>4 DEF UpayaBerikut, Galat
        <3> QED
            BY ONLY <3>1, <3>5
    <2>4. BarisSah'
        BY <2>1, <1>b DEF BarisSah, JadwalSah
    <2>5. GiliranBaris'
        <3>1. CASE <<baris.id, baris.terakhir>> \in DOMAIN pesan
            BY <3>1, <2>1, <1>b DEF GiliranBaris
        <3>2. CASE <<baris.id, baris.terakhir>> \notin DOMAIN pesan
            <4>1. BolehPada(baris.id, lok[w].now)
                BY <3>2, <2>2, <1>a DEF GiliranSah, BelumTerkirim, KunciKirim, Menyerahkan
            <4>2. /\ \A k \in DOMAIN pesan : pesan[k] \in Nat
                  /\ \A e \in DOMAIN kotak : kotak[e].terima \in Nat
                BY WaktuSah
            <4>3. BolehPada(baris.id, UpayaBerikut(w))
                BY <4>1, <4>2, <2>3, JarakAssumption, JarakTolakAssumption DEF BolehPada
            <4> QED
                BY <4>3, <2>1, <1>b DEF GiliranBaris, BolehPada
        <3> QED
            BY <3>1, <3>2
    <2>6. \A v \in Pekerja : BelumTerkirim(v) /\ lok[v].lihat.id = baris'.id =>
              lok[v].lihat.terakhir = baris'.terakhir
        BY <2>1 DEF JadwalSah, GiliranSah
    <2> QED
        BY <2>1, <2>4, <2>5, <2>6, <1>2, <1>3, <1>b, JadwalBaris
<1> QED
    BY <1>4, <1>5

\* A success moves the schedule past every message of the reminder.
LEMMA JadwalJadwalkan ==
    ASSUME TypeOK, JadwalSah, TypeOK', NEW w \in Pekerja, Jadwalkan(w), UNCHANGED kotak
    PROVE  JadwalSah'
<1>a. lok[w] \in Lokal /\ lok \in [Pekerja -> Lokal] /\ jam \in Nat /\ LokSah(w) /\ baris \in Baris
    BY BatasAssumption DEF TypeOK, JadwalSah
<1>b. UNCHANGED <<jam, barisKe, pesan>> /\ barisKe \in Nat
    BY BatasAssumption DEF Jadwalkan, TypeOK
<1>1. CASE ~Memegang(w, lok[w].lihat.id)
    BY <1>1, <1>b, JadwalUsai DEF Jadwalkan
<1>2. CASE Memegang(w, lok[w].lihat.id)
    <2>1. /\ baris'.id = baris.id /\ baris'.terakhir = lok[w].sent
          /\ baris'.kirim = lok[w].sent + Jarak /\ baris'.kunci = Kosong
        BY <1>2, <1>a DEF Jadwalkan, Terjadwal, Baris
    <2>2. /\ lok[w].pc = "jadwalkan" /\ lok'[w].pc = "rekon" /\ lok'[w].now = lok[w].now
          /\ \A v \in Pekerja \ {w} : lok'[v] = lok[v]
        BY <1>2, <1>a DEF Jadwalkan, Ke, Lokal
    <2>3. /\ lok[w].lihat.id = baris.id /\ lok[w].lihat.terakhir = baris.terakhir
          /\ lok[w].sent <= jam /\ KunciKirim(w) \in DOMAIN pesan
          /\ \A k \in DOMAIN pesan : k[1] = baris.id => pesan[k] <= lok[w].sent
          /\ lok[w].lihat.id \in 1..barisKe
        BY <2>2, <1>2, <1>a DEF LokSah, Menyerahkan, Memegang
    <2>4. LokSah(w)' /\ ~BelumTerkirim(w)'
        BY <2>1, <2>2, <1>a, <1>b DEF LokSah, BelumTerkirim, Menyerahkan
    <2>5. BarisSah'
        BY <2>1, <2>3, <1>b DEF BarisSah, JadwalSah
    <2>6. GiliranBaris'
        <3>1. \A k \in DOMAIN pesan : pesan[k] \in Nat
            BY WaktuSah
        <3>2. lok[w].sent \in Nat
            BY WaktuSah
        <3>3. BolehPada(baris.id, lok[w].sent + Jarak)
            BY <3>1, <3>2, <2>3, JarakAssumption DEF BolehPada
        <3> QED
            BY <3>3, <2>1, <1>b DEF GiliranBaris, BolehPada
    <2>7. ASSUME NEW v \in Pekerja, BelumTerkirim(v), lok[v].lihat.id = baris'.id PROVE FALSE
        <3>1. lok[v].lihat.terakhir = baris.terakhir
            BY <2>1, <2>7 DEF JadwalSah, GiliranSah
        <3>2. KunciKirim(v) = KunciKirim(w)
            BY <3>1, <2>1, <2>3, <2>7 DEF KunciKirim
        <3> QED
            BY <3>2, <2>3, <2>7 DEF BelumTerkirim
    <2> QED
        BY <2>1, <2>2, <2>4, <2>5, <2>6, <2>7, <1>b, JadwalBaris
<1> QED
    BY <1>1, <1>2

\* A new row has an identity that no message and no worker knows.
LEMMA JadwalSelaraskan ==
    ASSUME TypeOK, JadwalSah, TypeOK', NEW w \in Pekerja, Selaraskan(w), UNCHANGED kotak
    PROVE  JadwalSah'
<1>a. lok \in [Pekerja -> Lokal] /\ jam \in Nat /\ baris \in Baris /\ barisKe \in Nat
    BY BatasAssumption DEF TypeOK
<1>b. UNCHANGED <<jam, pesan>>
    BY DEF Selaraskan
<1>1. lok'[w] = [LokKosong EXCEPT !.pc = "cari"] /\ \A v \in Pekerja \ {w} : lok'[v] = lok[v]
    BY <1>a DEF Selaraskan
<1>2. LokSah(w)' /\ ~BelumTerkirim(w)'
    BY <1>1, <1>a, <1>b DEF LokSah, LokKosong, BelumTerkirim, Menyerahkan
<1>3. CASE HapusBaris(w) /\ baris.id = lok[w].ada
    <2>1. baris' = TanpaBaris /\ barisKe' = barisKe
        BY <1>3 DEF HapusBaris
    <2>2. baris'.id = 0 /\ baris'.terakhir = 0 /\ baris'.kunci = Kosong
        BY <2>1 DEF TanpaBaris
    <2>3. BarisSah' /\ GiliranBaris'
        BY <2>1, <2>2, <1>a, <1>b DEF BarisSah, GiliranBaris
    <2>4. ASSUME NEW v \in Pekerja, BelumTerkirim(v) PROVE lok[v].lihat.id # 0
        BY <2>4 DEF BelumTerkirim, JadwalSah, LokSah
    <2> QED
        BY <2>1, <2>2, <2>3, <2>4, <1>1, <1>2, <1>a, <1>b, JadwalBaris
<1>4. CASE BuatBaris(w) /\ baris.id = 0
    <2>1. barisKe' = barisKe + 1 /\ baris' = BarisBaru(barisKe + 1, lok[w].now)
        BY <1>4 DEF BuatBaris
    <2>2. baris'.id = barisKe + 1 /\ baris'.terakhir = 0 /\ baris'.kunci = Kosong
        BY <2>1 DEF BarisBaru, TanpaBaris
    <2>3. \A k \in DOMAIN pesan : k[1] # barisKe + 1
        BY <1>a, BatasAssumption DEF JadwalSah, PesanSah, TypeOK, Kunci
    <2>4. BarisSah'
        BY <2>1, <2>2, <1>a, <1>b DEF BarisSah
    <2>5. BolehPada(baris.id, baris.kirim)'
        BY <2>2, <2>3, <1>b DEF BolehPada
    <2>6. ASSUME NEW v \in Pekerja, BelumTerkirim(v) PROVE lok[v].lihat.id # barisKe + 1
        BY <2>6, <1>a DEF BelumTerkirim, JadwalSah, LokSah
    <2> QED
        BY <2>1, <2>2, <2>4, <2>5, <2>6, <1>1, <1>2, <1>a, <1>b, JadwalBaris DEF GiliranBaris
<1>5. CASE UNCHANGED <<baris, barisKe>>
    <2>1. BarisSah' /\ GiliranBaris'
        BY <1>5, <1>b DEF BarisSah, GiliranBaris, JadwalSah, BolehPada
    <2>2. \A v \in Pekerja : BelumTerkirim(v) /\ lok[v].lihat.id = baris'.id =>
              lok[v].lihat.terakhir = baris'.terakhir
        BY <1>5 DEF JadwalSah, GiliranSah
    <2> QED
        BY <2>1, <2>2, <1>1, <1>2, <1>5, <1>a, <1>b, JadwalBaris
<1> QED
    BY <1>3, <1>4, <1>5 DEF Selaraskan, BuatBaris, HapusBaris

\* A new message takes the turn from everyone who had it.
LEMMA JadwalKirim ==
    ASSUME TypeOK, JadwalSah, TypeOK', NEW w \in Pekerja, Kirim(w), UNCHANGED kotak
    PROVE  JadwalSah'
<1> DEFINE k == KunciKirim(w)
<1>a. lok[w] \in Lokal /\ lok \in [Pekerja -> Lokal] /\ jam \in Nat /\ LokSah(w) /\ lok[w].pc = "kirim"
    BY BatasAssumption DEF TypeOK, JadwalSah, Kirim
<1>b. UNCHANGED <<jam, baris, barisKe>>
    BY DEF Kirim
<1>c. lok[w].jawab = Kosong /\ lok[w].lihat.id \in 1..barisKe
    BY <1>a DEF LokSah, Menyerahkan
<1>1. CASE k \in DOMAIN pesan
    <2>1. /\ UNCHANGED pesan /\ lok'[w].pc = "tunggu" /\ lok'[w].jawab = lok[w].jawab
          /\ lok'[w].lihat = lok[w].lihat /\ lok'[w].now = lok[w].now
          /\ \A v \in Pekerja \ {w} : lok'[v] = lok[v]
        BY <1>1, <1>a DEF Kirim, Lokal
    <2>2. LokSah(w)'
        BY <2>1, <1>1, <1>a, <1>b, <1>c DEF LokSah, Menyerahkan, Memegang, KunciKirim
    <2>3. ~BelumTerkirim(w)'
        BY <2>1, <1>1 DEF BelumTerkirim, KunciKirim
    <2> QED
        BY <2>1, <2>2, <2>3, <1>b, JadwalLangkah
<1>2. CASE k \notin DOMAIN pesan
    <2>1. /\ pesan' = Ditambah(pesan, k, jam) /\ lok'[w].pc = "tunggu" /\ lok'[w].jawab = k
          /\ lok'[w].lihat = lok[w].lihat /\ lok'[w].now = lok[w].now
          /\ \A v \in Pekerja \ {w} : lok'[v] = lok[v]
        BY <1>2, <1>a DEF Kirim, Lokal
    <2>2. /\ DOMAIN pesan' = DOMAIN pesan \cup {k} /\ pesan'[k] = jam
          /\ \A x \in DOMAIN pesan : pesan'[x] = pesan[x]
        BY <2>1, <1>2 DEF Ditambah
    <2>3. BelumTerkirim(w) /\ GiliranSah(w)
        BY <1>2, <1>a DEF BelumTerkirim, Menyerahkan, JadwalSah
    <2>4. k[1] = lok[w].lihat.id /\ k[1] <= barisKe
        BY <1>c DEF KunciKirim
    <2>5. BarisSah' /\ PesanSah'
        BY <2>2, <2>4, <1>a, <1>b DEF BarisSah, PesanSah, JadwalSah
    <2>6. GiliranBaris'
        <3>1. CASE baris.id = lok[w].lihat.id
            <4>1. k = <<baris.id, baris.terakhir>>
                BY <3>1, <2>3 DEF GiliranSah, KunciKirim
            <4> QED
                BY <4>1, <2>2, <1>b DEF GiliranBaris
        <3>2. CASE baris.id # lok[w].lihat.id
            BY <3>2, <2>2, <2>4, <1>b DEF GiliranBaris, BolehPada, JadwalSah
        <3> QED
            BY <3>1, <3>2
    <2>7. LokSah(w)'
        BY <2>1, <2>2, <1>a, <1>b, <1>c DEF LokSah, Menyerahkan, Memegang, KunciKirim
    <2>8. ASSUME NEW v \in Pekerja, v # w PROVE LokSah(v)'
        <3>1. LokSah(v) /\ lok'[v] = lok[v] /\ lok[v] \in Lokal
            BY <2>1, <2>8, <1>a DEF JadwalSah
        <3>2. ASSUME lok[v].pc \in {"catat", "jadwalkan"}, Memegang(v, lok[v].lihat.id)
              PROVE  k[1] # baris.id
            <4>1. lok[v].lihat.id = baris.id /\ lok[v].lihat.terakhir = baris.terakhir
                  /\ KunciKirim(v) \in DOMAIN pesan
                BY <3>1, <3>2 DEF LokSah, Menyerahkan, Memegang
            <4>2. k[1] = baris.id => k = KunciKirim(v)
                BY <4>1, <2>3, <2>4 DEF GiliranSah, KunciKirim
            <4> QED
                BY <4>1, <4>2, <1>2
        <3> QED
            BY <3>1, <3>2, <2>2, <1>b DEF LokSah, Memegang, KunciKirim
    <2>9. ~BelumTerkirim(w)'
        BY <2>1, <2>2 DEF BelumTerkirim, KunciKirim
    <2>10. ASSUME NEW v \in Pekerja, BelumTerkirim(v)'
           PROVE  BelumTerkirim(v) /\ lok'[v] = lok[v] /\ lok[v].lihat.id # k[1]
        <3>1. v # w
            BY <2>9, <2>10
        <3>2. BelumTerkirim(v) /\ lok'[v] = lok[v] /\ KunciKirim(v) # k
            BY <3>1, <2>1, <2>2, <2>10 DEF BelumTerkirim, KunciKirim
        <3> QED
            BY <3>2, <2>3, <2>4 DEF GiliranSah, KunciKirim
    <2>11. ASSUME NEW v \in Pekerja PROVE GiliranSah(v)'
        <3> SUFFICES ASSUME BelumTerkirim(v)'
                     PROVE  /\ BolehPada(lok[v].lihat.id, lok[v].now)'
                            /\ lok'[v].lihat.id = baris'.id => lok'[v].lihat.terakhir = baris'.terakhir
                            /\ \A u \in Pekerja : BelumTerkirim(u)' /\ lok'[u].lihat.id = lok'[v].lihat.id =>
                                   lok'[u].lihat.terakhir = lok'[v].lihat.terakhir
            BY DEF GiliranSah
        <3>1. GiliranSah(v) /\ BelumTerkirim(v) /\ lok'[v] = lok[v] /\ lok[v].lihat.id # k[1]
            BY <2>10 DEF JadwalSah
        <3>2. BolehPada(lok[v].lihat.id, lok[v].now)'
            BY <3>1, <2>2 DEF GiliranSah, BolehPada
        <3> QED
            BY <3>1, <3>2, <2>10, <1>b DEF GiliranSah
    <2> QED
        BY <2>5, <2>6, <2>7, <2>8, <2>11 DEF JadwalSah
<1> QED
    BY <1>1, <1>2

\* Recording the submission.
LEMMA JadwalCatat ==
    ASSUME TypeOK, JadwalSah, TypeOK', KirimanSah, NEW w \in Pekerja, Catat(w), UNCHANGED kotak
    PROVE  JadwalSah'
<1>a. lok[w] \in Lokal /\ lok \in [Pekerja -> Lokal] /\ LokSah(w) /\ lok[w].pc = "catat"
    BY DEF TypeOK, JadwalSah, Catat
<1>b. UNCHANGED <<jam, baris, barisKe, pesan>>
    BY DEF Catat
<1>1. /\ lok'[w].pc = "jadwalkan" /\ lok'[w].lihat = lok[w].lihat
      /\ lok'[w].now = lok[w].now /\ lok'[w].sent = lok[w].sent
      /\ \A v \in Pekerja \ {w} : lok'[v] = lok[v]
    BY <1>a DEF Catat, Ke, Lokal
<1>2. lok'[w].jawab \in {KunciKirim(w), Kosong}
    <2>1. lok[w].jawab \in {KunciKirim(w), Kosong}
        BY <1>a DEF LokSah
    <2>2. CASE PengirimanKunci(KunciKirim(w)) = {}
        BY <2>1, <2>2, <1>a DEF Catat, Ke, Lokal
    <2>3. CASE PengirimanKunci(KunciKirim(w)) # {}
        <3>1. PICK i \in PengirimanKunci(KunciKirim(w)) :
                  lok' = [lok EXCEPT ![w].pc = "jadwalkan", ![w].jawab = pengiriman[i].pesan]
            BY <2>3 DEF Catat
        <3>2. lok'[w].jawab = pengiriman[i].pesan
            BY <3>1, <1>a DEF Lokal
        <3> QED
            BY <3>1, <3>2 DEF PengirimanKunci, KirimanSah
    <2> QED
        BY <2>2, <2>3
<1>3. LokSah(w)'
    BY <1>1, <1>2, <1>a, <1>b DEF LokSah, Menyerahkan, Memegang, KunciKirim
<1>4. ~BelumTerkirim(w)'
    BY <1>1, <1>a, <1>b DEF BelumTerkirim, KunciKirim, LokSah
<1> QED
    BY <1>1, <1>3, <1>4, <1>b, JadwalLangkah

\* A refusal brings the schedule forward, no further than its own delay.
LEMMA JadwalPercepat ==
    ASSUME TypeOK, JadwalSah, TypeOK', KirimanSah, NEW p \in Proses, OlahSah(p), Percepat(p)
    PROVE  JadwalSah'
<1> DEFINE e == olah[p].e
           calon == LaporanOleh(p).terima + JarakTolak
           r == pengiriman[olah[p].d].kunci[1]
<1>a. baris \in Baris /\ UNCHANGED <<jam, barisKe, pesan, lok, kotak>> /\ lok \in [Pekerja -> Lokal]
    BY DEF Percepat, TypeOK
<1>1. CASE ~(baris.id = r /\ baris.kirim > calon)
    BY <1>1, <1>a, JadwalTetap, WaktuSah DEF Percepat, KotakTumbuh
<1>2. CASE baris.id = r /\ baris.kirim > calon
    <2>1. /\ baris'.id = baris.id /\ baris'.terakhir = baris.terakhir /\ baris'.kunci = baris.kunci
          /\ baris'.kirim = calon
        BY <1>2, <1>a DEF Percepat, Baris
    <2>2. /\ e \in DOMAIN kotak /\ e[2] = "REJECTED" /\ olah[p].d \in DOMAIN pengiriman
          /\ pengiriman[olah[p].d].pesan = e[1]
        BY DEF Percepat, OlahSah, Dipasangkan, Diputus
    <2>3. e[1] = pengiriman[olah[p].d].kunci
        BY <2>2, KosongAssumption DEF KirimanSah, TypeOK, Peristiwa
    <2>4. BolehPada(baris.id, calon)
        <3>1. calon \in Nat
            BY <2>2, WaktuSah, JarakTolakAssumption DEF LaporanOleh
        <3> QED
            BY <3>1, <2>2, <2>3, <1>2 DEF BolehPada, LaporanOleh
    <2>5. BarisSah' /\ PesanSah'
        BY <2>1, <1>a DEF BarisSah, PesanSah, JadwalSah
    <2>6. GiliranBaris'
        BY <2>1, <2>4, <1>a DEF GiliranBaris, BolehPada
    <2>7. ASSUME NEW w \in Pekerja PROVE LokSah(w)' /\ GiliranSah(w)'
        <3>1. LokSah(w) /\ GiliranSah(w)
            BY DEF JadwalSah
        <3>2. lok[w].now \in Nat /\ calon \in Nat /\ baris.kirim \in Nat
            BY <2>2, <1>a, WaktuSah, JarakTolakAssumption DEF LaporanOleh, Baris
        <3>3. baris.kirim <= lok[w].now => baris'.kirim <= lok[w].now
            BY <3>2, <2>1, <1>2
        <3>4. LokSah(w)'
            BY <3>1, <3>3, <2>1, <1>a DEF LokSah, Memegang, KunciKirim
        <3>5. GiliranSah(w)'
            BY <3>1, <2>1, <1>a DEF GiliranSah, BelumTerkirim, KunciKirim, BolehPada
        <3> QED
            BY <3>4, <3>5
    <2> QED
        BY <2>5, <2>6, <2>7 DEF JadwalSah
<1> QED
    BY <1>1, <1>2

-----------------------------------------------------------------------------
(***************************************************************************)
(* The deliveries and the inbox.                                           *)
(***************************************************************************)
LEMMA SuratTetap ==
    ASSUME SuratSah, UNCHANGED <<pengiriman, kotak, olah>>
    PROVE  SuratSah'
<1>1. KirimanSah' /\ KotakSelaras'
    BY DEF SuratSah, KirimanSah, SatuPengirimanPerKunci, KotakSelaras, PengirimanPesan
<1>2. \A p \in Proses : OlahSah(p)'
    BY DEF SuratSah, OlahSah
<1> QED
    BY <1>1, <1>2 DEF SuratSah

\* A step of p that writes neither.
LEMMA SuratLangkah ==
    ASSUME SuratSah, NEW p \in Proses, UNCHANGED <<pengiriman, kotak>>,
           \A q \in Proses \ {p} : olah'[q] = olah[q],
           OlahSah(p)'
    PROVE  SuratSah'
<1>1. KirimanSah' /\ KotakSelaras'
    BY DEF SuratSah, KirimanSah, SatuPengirimanPerKunci, KotakSelaras, PengirimanPesan
<1>2. ASSUME NEW q \in Proses PROVE OlahSah(q)'
    <2>1. CASE q = p
        BY <2>1
    <2>2. CASE q # p
        BY <2>2 DEF SuratSah, OlahSah
    <2> QED
        BY <2>1, <2>2
<1> QED
    BY <1>1, <1>2 DEF SuratSah

LEMMA SuratUsai ==
    ASSUME TypeOK, SuratSah, NEW p \in Proses, UNCHANGED <<pengiriman, kotak>>,
           olah' = [olah EXCEPT ![p] = OlahKosong]
    PROVE  SuratSah'
<1>1. olah'[p] = OlahKosong /\ \A q \in Proses \ {p} : olah'[q] = olah[q]
    BY DEF TypeOK
<1>2. OlahSah(p)'
    BY <1>1 DEF OlahSah, OlahKosong, Dipasangkan, Diputus
<1> QED
    BY <1>1, <1>2, SuratLangkah

LEMMA SuratBaca ==
    ASSUME TypeOK, SuratSah, NEW p \in Proses,
           Cocokkan(p) \/ BacaKotak(p) \/ Berikut(p) \/ BacaTerbaru(p) \/ BacaJadwal(p) \/ Percepat(p)
    PROVE  SuratSah'
<1>a. olah[p] \in Olahan /\ olah \in [Proses -> Olahan] /\ OlahSah(p)
    BY DEF TypeOK, SuratSah
<1>b. UNCHANGED <<pengiriman, kotak>>
    BY DEF Cocokkan, BacaKotak, Berikut, BacaTerbaru, BacaJadwal, Percepat, varsP
<1>c. \A q \in Proses \ {p} : olah'[q] = olah[q]
    BY <1>a DEF Cocokkan, BacaKotak, Berikut, BacaTerbaru, BacaJadwal, Percepat, OlahKe
<1>1. CASE Cocokkan(p)
    <2>1. CASE PengirimanPesan(olah[p].pesan) = {}
        <3>1. olah'[p].pc = "selesai" /\ olah'[p].sisa = {}
            BY <1>1, <2>1, <1>a DEF Cocokkan, Olahan
        <3>2. OlahSah(p)'
            BY <3>1 DEF OlahSah, Dipasangkan, Diputus
        <3> QED
            BY <3>2, <1>b, <1>c, SuratLangkah
    <2>2. CASE PengirimanPesan(olah[p].pesan) # {}
        <3>1. PICK i \in PengirimanPesan(olah[p].pesan) :
                  olah' = [olah EXCEPT ![p].pc = "transisi", ![p].d = i, ![p].status = pengiriman[i].status]
            BY <1>1, <2>2 DEF Cocokkan
        <3>2. /\ olah[p].pc = "cocokkan" /\ olah'[p].pc = "transisi" /\ olah'[p].d = i
              /\ olah'[p].status = pengiriman[i].status
              /\ olah'[p].e = olah[p].e /\ olah'[p].sisa = olah[p].sisa /\ olah'[p].pesan = olah[p].pesan
            BY <3>1, <1>1, <1>a DEF Cocokkan, Olahan
        <3>3. i \in DOMAIN pengiriman /\ pengiriman[i].pesan = olah[p].pesan
            BY DEF PengirimanPesan
        <3>4. OlahSah(p)'
            BY <3>2, <3>3, <1>a, <1>b DEF OlahSah, Dipasangkan, Diputus
        <3> QED
            BY <3>4, <1>b, <1>c, SuratLangkah
    <2> QED
        BY <2>1, <2>2
<1>2. CASE BacaKotak(p)
    <2>1. /\ olah'[p].pc = "selesai" /\ olah'[p].sisa = BelumDiolah(olah[p].pesan)
          /\ olah'[p].pesan = olah[p].pesan
        BY <1>2, <1>a DEF BacaKotak, Olahan
    <2>2. OlahSah(p)'
        BY <2>1, <1>b DEF OlahSah, BelumDiolah, Dipasangkan, Diputus
    <2> QED
        BY <2>2, <1>b, <1>c, SuratLangkah
<1>3. CASE Berikut(p)
    <2>1. PICK e \in olah[p].sisa :
              olah' = [olah EXCEPT ![p].pc = "cocokkan", ![p].e = e, ![p].sisa = @ \ {e}]
        BY <1>3 DEF Berikut
    <2>2. /\ olah'[p].pc = "cocokkan" /\ olah'[p].e = e /\ olah'[p].sisa = olah[p].sisa \ {e}
          /\ olah'[p].pesan = olah[p].pesan
        BY <2>1, <1>a DEF Olahan
    <2>3. OlahSah(p)'
        BY <2>2, <1>a, <1>b DEF OlahSah, Dipasangkan, Diputus
    <2> QED
        BY <2>3, <1>b, <1>c, SuratLangkah
<1>4. CASE BacaTerbaru(p) \/ BacaJadwal(p) \/ Percepat(p)
    <2>1. /\ olah[p].pc \in Diputus \ {"tandai"}
          /\ olah'[p].pc \in (Diputus \cup {"selesai"})
          /\ \A q \in Proses : olah'[q].e = olah[q].e /\ olah'[q].sisa = olah[q].sisa
                 /\ olah'[q].pesan = olah[q].pesan /\ olah'[q].d = olah[q].d
        BY <1>4, <1>a DEF BacaTerbaru, BacaJadwal, Percepat, OlahKe, Olahan, Diputus
    <2>2. OlahSah(p)'
        BY <2>1, <1>a, <1>b DEF OlahSah, Dipasangkan, Diputus
    <2> QED
        BY <2>2, <1>b, <1>c, SuratLangkah
<1> QED
    BY <1>1, <1>2, <1>3, <1>4

\* A new event is not processed and changes no other.
LEMMA SuratTerima ==
    ASSUME TypeOK, SuratSah, NEW h \in Penerima, NEW m \in DOMAIN pesan, NEW s \in Hasil, Terima(h, m, s)
    PROVE  SuratSah' /\ KotakTumbuh
<1> DEFINE e == <<m, s>>
<1>a. olah \in [Proses -> Olahan] /\ h \in Proses /\ pengiriman' = pengiriman
    BY DEF TypeOK, Proses, Terima, varsP
<1>1. CASE e \notin DOMAIN kotak
    <2>1. PICK k : kotak' = Ditambah(kotak, e, [kode |-> k, terima |-> jam, sudah |-> FALSE])
        BY <1>1 DEF Terima
    <2>2. /\ DOMAIN kotak' = DOMAIN kotak \cup {e} /\ ~kotak'[e].sudah
          /\ \A x \in DOMAIN kotak : kotak'[x] = kotak[x]
        BY <2>1, <1>1 DEF Ditambah
    <2>3. /\ olah'[h] = [OlahKosong EXCEPT !.pc = "cocokkan", !.pesan = m, !.e = e]
          /\ \A q \in Proses \ {h} : olah'[q] = olah[q]
        BY <1>1, <1>a DEF Terima
    <2>4. OlahSah(h)'
        BY <2>2, <2>3 DEF OlahSah, OlahKosong, Dipasangkan, Diputus
    <2>5. ASSUME NEW q \in Proses, q # h PROVE OlahSah(q)'
        BY <2>2, <2>3, <2>5, <1>a DEF SuratSah, OlahSah
    <2>6. KotakSelaras'
        BY <2>2, <1>a DEF SuratSah, KotakSelaras, PengirimanPesan
    <2>7. KirimanSah'
        BY <1>a DEF SuratSah, KirimanSah, SatuPengirimanPerKunci
    <2> QED
        BY <2>2, <2>4, <2>5, <2>6, <2>7 DEF SuratSah, KotakTumbuh
<1>2. CASE e \in DOMAIN kotak
    <2>1. /\ kotak' = kotak
          /\ olah'[h] = [OlahKosong EXCEPT !.pc = "rekon", !.pesan = m]
          /\ \A q \in Proses \ {h} : olah'[q] = olah[q]
        BY <1>2, <1>a DEF Terima
    <2>2. OlahSah(h)'
        BY <2>1 DEF OlahSah, OlahKosong, Dipasangkan, Diputus
    <2> QED
        BY <2>1, <2>2, <1>a, SuratLangkah DEF KotakTumbuh
<1> QED
    BY <1>1, <1>2

\* A worker turns to the callbacks of its message.
LEMMA SuratRekonsiliasi ==
    ASSUME TypeOK, SuratSah, NEW w \in Pekerja, Rekonsiliasi(w)
    PROVE  SuratSah'
<1>1. CASE lok[w].jawab = Kosong
    BY <1>1, SuratTetap DEF Rekonsiliasi
<1>2. CASE lok[w].jawab # Kosong
    <2>1. /\ olah'[w] = [OlahKosong EXCEPT !.pc = "rekon", !.pesan = lok[w].jawab]
          /\ \A q \in Proses \ {w} : olah'[q] = olah[q]
          /\ UNCHANGED <<pengiriman, kotak>> /\ w \in Proses
        BY <1>2 DEF Rekonsiliasi, TypeOK, Proses
    <2>2. OlahSah(w)'
        BY <2>1 DEF OlahSah, OlahKosong, Dipasangkan, Diputus
    <2> QED
        BY <2>1, <2>2, SuratLangkah
<1> QED
    BY <1>1, <1>2

\* The transition decides a pending delivery as the event says, or nothing.
LEMMA SuratTransisi ==
    ASSUME TypeOK, SuratSah, NEW p \in Proses, Transisi(p)
    PROVE  SuratSah'
<1> DEFINE i == olah[p].d
           e == olah[p].e
<1>a. /\ olah[p] \in Olahan /\ olah \in [Proses -> Olahan] /\ OlahSah(p)
      /\ olah[p].pc = "transisi" /\ kotak' = kotak
    BY DEF TypeOK, SuratSah, Transisi
<1>b. /\ e \in DOMAIN kotak /\ i \in DOMAIN pengiriman /\ pengiriman[i].pesan = e[1]
      /\ olah[p].status # "PENDING" => pengiriman[i].status # "PENDING"
    BY <1>a DEF OlahSah, Dipasangkan
<1>c. e = <<e[1], e[2]>> /\ e[2] # "PENDING"
    BY <1>b DEF TypeOK, Peristiwa, Hasil
<1>d. /\ olah'[p].pc \in {"terbaru", "tandai"}
      /\ olah'[p].pc = "terbaru" => e[2] = "REJECTED"
      /\ olah'[p].e = e /\ olah'[p].sisa = olah[p].sisa /\ olah'[p].pesan = olah[p].pesan
      /\ olah'[p].d = i
      /\ \A q \in Proses \ {p} : olah'[q] = olah[q]
    BY <1>a DEF Transisi, KeSetelahTransisi, OlahKe, Olahan
<1>1. CASE olah[p].status = "PENDING" /\ pengiriman[i].status = "PENDING"
    <2>1. pengiriman[i] \in Kiriman
        BY <1>b DEF TypeOK
    <2>2. /\ DOMAIN pengiriman' = DOMAIN pengiriman
          /\ \A j \in DOMAIN pengiriman \ {i} : pengiriman'[j] = pengiriman[j]
          /\ pengiriman'[i].kunci = pengiriman[i].kunci /\ pengiriman'[i].pesan = pengiriman[i].pesan
          /\ pengiriman'[i].status = e[2] /\ pengiriman'[i].kode = kotak[e].kode
        BY <1>1, <1>b, <2>1 DEF Transisi, Ditetapkan, LaporanOleh, Kiriman
    <2>3. KirimanSah'
        BY <2>2 DEF SuratSah, KirimanSah, SatuPengirimanPerKunci
    <2>4. OlahSah(p)'
        BY <2>2, <1>a, <1>b, <1>c, <1>d DEF OlahSah, Dipasangkan, Diputus
    <2>5. ASSUME NEW q \in Proses, q # p PROVE OlahSah(q)'
        <3>1. OlahSah(q) /\ olah'[q] = olah[q]
            BY <2>5, <1>d DEF SuratSah
        <3> QED
            BY <3>1, <2>2, <1>a, <1>c DEF OlahSah, Dipasangkan, Diputus
    <2>6. KotakSelaras'
        <3>1. ASSUME NEW x \in DOMAIN kotak, kotak[x].sudah
              PROVE  \E j \in DOMAIN pengiriman' : pengiriman'[j].pesan = x[1] /\ pengiriman'[j].status # "PENDING"
            <4>1. PICK j \in DOMAIN pengiriman : pengiriman[j].pesan = x[1] /\ pengiriman[j].status # "PENDING"
                BY <3>1 DEF SuratSah, KotakSelaras, PengirimanPesan
            <4>2. j # i
                BY <4>1, <1>1
            <4> QED
                BY <4>1, <4>2, <2>2
        <3>2. ASSUME NEW j \in DOMAIN pengiriman, pengiriman'[j].status # "PENDING"
              PROVE  /\ <<pengiriman'[j].pesan, pengiriman'[j].status>> \in DOMAIN kotak
                     /\ kotak[<<pengiriman'[j].pesan, pengiriman'[j].status>>].kode = pengiriman'[j].kode
            <4>1. CASE j = i
                BY <4>1, <2>2, <1>b, <1>c
            <4>2. CASE j # i
                BY <4>2, <3>2, <2>2 DEF SuratSah, KotakSelaras
            <4> QED
                BY <4>1, <4>2
        <3> QED
            BY <3>1, <3>2, <2>2, <1>a DEF KotakSelaras, PengirimanPesan
    <2> QED
        BY <2>3, <2>4, <2>5, <2>6 DEF SuratSah
<1>2. CASE ~(olah[p].status = "PENDING" /\ pengiriman[i].status = "PENDING")
    <2>1. pengiriman' = pengiriman
        BY <1>2 DEF Transisi
    <2>2. OlahSah(p)'
        BY <2>1, <1>2, <1>a, <1>b, <1>d DEF OlahSah, Dipasangkan, Diputus
    <2> QED
        BY <2>1, <2>2, <1>a, <1>d, SuratLangkah
<1> QED
    BY <1>1, <1>2

\* An event is processed once its delivery is decided.
LEMMA SuratTandai ==
    ASSUME TypeOK, SuratSah, NEW p \in Proses, Tandai(p)
    PROVE  SuratSah' /\ KotakTumbuh
<1> DEFINE e == olah[p].e
<1>a. /\ olah[p] \in Olahan /\ olah \in [Proses -> Olahan] /\ OlahSah(p)
      /\ olah[p].pc = "tandai" /\ pengiriman' = pengiriman
    BY DEF TypeOK, SuratSah, Tandai, varsP
<1>b. /\ e \in DOMAIN kotak /\ olah[p].d \in DOMAIN pengiriman
      /\ pengiriman[olah[p].d].pesan = e[1] /\ pengiriman[olah[p].d].status # "PENDING"
    BY <1>a DEF OlahSah, Dipasangkan, Diputus
<1>c. /\ olah'[p].pc = "selesai" /\ olah'[p].sisa = olah[p].sisa /\ olah'[p].pesan = olah[p].pesan
      /\ \A q \in Proses \ {p} : olah'[q] = olah[q]
    BY <1>a DEF Tandai, OlahKe, Olahan
<1>d. /\ DOMAIN kotak' = DOMAIN kotak
      /\ \A x \in DOMAIN kotak : kotak'[x].kode = kotak[x].kode /\ kotak'[x].terima = kotak[x].terima
      /\ \A x \in DOMAIN kotak \ {e} : kotak'[x].sudah = kotak[x].sudah
    BY DEF Tandai, TypeOK, Laporan
<1>1. KirimanSah'
    BY <1>a DEF SuratSah, KirimanSah, SatuPengirimanPerKunci
<1>2. OlahSah(p)'
    BY <1>a, <1>c, <1>d DEF OlahSah, Dipasangkan, Diputus
<1>3. ASSUME NEW q \in Proses, q # p PROVE OlahSah(q)'
    BY <1>3, <1>a, <1>c, <1>d DEF SuratSah, OlahSah
<1>4. KotakSelaras'
    <2>1. \A x \in DOMAIN kotak : kotak'[x].sudah =>
              \E j \in PengirimanPesan(x[1]) : pengiriman[j].status # "PENDING"
        BY <1>b, <1>d DEF SuratSah, KotakSelaras, PengirimanPesan
    <2> QED
        BY <2>1, <1>a, <1>d DEF SuratSah, KotakSelaras, PengirimanPesan
<1> QED
    BY <1>1, <1>2, <1>3, <1>4, <1>d DEF SuratSah, KotakTumbuh

\* A submission without a delivery gets one, about its own message.
LEMMA SuratCatat ==
    ASSUME TypeOK, SuratSah, JadwalSah, NEW w \in Pekerja, Catat(w), UNCHANGED <<kotak, olah>>
    PROVE  SuratSah'
<1>1. CASE PengirimanKunci(KunciKirim(w)) # {}
    BY <1>1, SuratTetap DEF Catat
<1>2. CASE PengirimanKunci(KunciKirim(w)) = {}
    <2> DEFINE baru == [kunci |-> KunciKirim(w), pesan |-> lok[w].jawab, dikirim |-> lok[w].sent,
                        status |-> "PENDING", kode |-> Kosong]
               n == Len(pengiriman) + 1
    <2>1. /\ n \notin DOMAIN pengiriman /\ DOMAIN pengiriman' = DOMAIN pengiriman \cup {n}
          /\ pengiriman'[n] = baru
          /\ \A i \in DOMAIN pengiriman : pengiriman'[i] = pengiriman[i]
        <3>1. pengiriman' = Append(pengiriman, baru) /\ pengiriman \in Seq(Kiriman)
            BY <1>2 DEF Catat, TypeOK
        <3> QED
            BY <3>1
    <2>2. \A i \in DOMAIN pengiriman : pengiriman[i].kunci # KunciKirim(w)
        BY <1>2 DEF PengirimanKunci
    <2>3. lok[w].jawab \in {KunciKirim(w), Kosong}
        BY DEF JadwalSah, LokSah, Catat
    <2>4. KirimanSah'
        BY <2>1, <2>2, <2>3 DEF SuratSah, KirimanSah, SatuPengirimanPerKunci
    <2>5. ASSUME NEW q \in Proses PROVE OlahSah(q)'
        BY <2>1 DEF SuratSah, OlahSah, Dipasangkan, Diputus
    <2>6. KotakSelaras'
        BY <2>1 DEF SuratSah, KotakSelaras, PengirimanPesan
    <2> QED
        BY <2>4, <2>5, <2>6 DEF SuratSah
<1> QED
    BY <1>1, <1>2

-----------------------------------------------------------------------------
(***************************************************************************)
(* The invariant.                                                          *)
(***************************************************************************)
LEMMA InitIInv == Init => IInv
<1> SUFFICES ASSUME Init PROVE IInv
    OBVIOUS
<1>1. TypeOK
    BY InitTipe
<1>2. SuratSah
    BY DEF Init, InitP, SuratSah, KirimanSah, SatuPengirimanPerKunci, KotakSelaras, OlahSah,
           OlahKosong, Dipasangkan, Diputus
<1>3. BarisSah /\ PesanSah /\ GiliranBaris
    BY DEF Init, InitP, BarisSah, PesanSah, GiliranBaris, TanpaBaris
<1>4. \A w \in Pekerja : LokSah(w) /\ GiliranSah(w)
    BY DEF Init, InitP, LokSah, GiliranSah, BelumTerkirim, LokKosong, Menyerahkan
<1> QED
    BY <1>1, <1>2, <1>3, <1>4 DEF IInv, JadwalSah

LEMMA SiklusIInv ==
    ASSUME IInv, NEW w \in Pekerja, Siklus(w), UNCHANGED <<kotak, olah>>
    PROVE  IInv'
<1> USE DEF IInv
<1>1. TypeOK'
    <2>1. LokSah(w) /\ barisKe \in Nat
        BY BatasAssumption DEF JadwalSah, TypeOK
    <2> QED
        BY <2>1, SiklusTipe DEF LokSah
<1>2. SuratSah'
    <2>1. CASE Catat(w)
        BY <2>1, SuratCatat
    <2>2. CASE ~Catat(w)
        <3>1. UNCHANGED pengiriman
            BY <2>2 DEF Siklus, Mulai, BacaTugas, BacaPengingat, Selaraskan, CariJatuhTempo, Klaim,
                        BacaKlaim, Lepas, Kirim, Ditolak, Jawaban, Gangguan, Jadwalkan, Gagal
        <3> QED
            BY <3>1, SuratTetap
    <2> QED
        BY <2>1, <2>2
<1>3. JadwalSah'
    BY <1>1, JadwalLokal, JadwalSelaraskan, JadwalKlaim, JadwalBacaKlaim, JadwalLepas, JadwalKirim,
       JadwalCatat, JadwalJadwalkan, JadwalGagal DEF Siklus, SuratSah
<1> QED
    BY <1>1, <1>2, <1>3

\* Ending a cycle or a handler, with or without an error.
LEMMA AkhirIInv ==
    ASSUME IInv, NEW p \in Proses,
           \/ p \in Pekerja /\ (Rekonsiliasi(p) \/ Mogok(p))
           \/ Selesai(p)
           \/ Putus(p)
    PROVE  IInv'
<1> USE DEF IInv
<1>a. UNCHANGED <<jam, berlaku, ubah, baris, barisKe, pesan, pengiriman, kotak>> /\ rusak' \in Nat
    BY DEF Rekonsiliasi, Mogok, Berhenti, Rusak, Selesai, Putus, TypeOK
<1>b. KotakTumbuh /\ jam \in Nat
    BY <1>a, WaktuSah DEF KotakTumbuh
<1>1. CASE p \in Pekerja /\ Rekonsiliasi(p)
    <2>1. lok' \in [Pekerja -> Lokal] /\ (lok' = lok \/ Usai(p))
        <3>1. lok \in [Pekerja -> Lokal] /\ lok[p] \in Lokal /\ lok[p].pc = "rekon"
            BY <1>1 DEF Rekonsiliasi, TypeOK
        <3>2. [lok[p] EXCEPT !.pc = "rekon"] = lok[p]
            BY <3>1 DEF Lokal
        <3>3. Ke(p, "rekon") => lok' = lok
            BY <1>1, <3>1, <3>2 DEF Ke
        <3>4. Usai(p) => lok' \in [Pekerja -> Lokal]
            BY <3>1, KosongSah DEF Usai
        <3> QED
            BY <1>1, <3>1, <3>3, <3>4 DEF Rekonsiliasi
    <2>2. olah' \in [Proses -> Olahan]
        <3>1. CASE lok[p].jawab = Kosong
            BY <1>1, <3>1 DEF Rekonsiliasi, TypeOK
        <3>2. CASE lok[p].jawab # Kosong
            <4>1. lok[p] \in Lokal
                BY <1>1 DEF TypeOK
            <4>2. [OlahKosong EXCEPT !.pc = "rekon", !.pesan = lok[p].jawab] \in Olahan
                BY <4>1, KosongSah DEF Lokal, Olahan
            <4> QED
                BY <1>1, <3>2, <4>2 DEF Rekonsiliasi, TypeOK
        <3> QED
            BY <3>1, <3>2
    <2>3. TypeOK'
        BY <2>1, <2>2, <1>a DEF TypeOK
    <2>4. JadwalSah'
        BY <2>1, <2>3, <1>1, <1>a, <1>b, JadwalTetap, JadwalUsai
    <2> QED
        BY <2>3, <2>4, <1>1, SuratRekonsiliasi
<1>2. CASE Selesai(p) \/ Putus(p) \/ (p \in Pekerja /\ Mogok(p))
    <2>1. olah' = [olah EXCEPT ![p] = OlahKosong]
        BY <1>2 DEF Selesai, Putus, Mogok
    <2>2. lok' = lok \/ (p \in Pekerja /\ Usai(p))
        BY <1>2 DEF Selesai, Putus, Mogok, Berhenti
    <2>3. TypeOK'
        BY <2>1, <2>2, <1>a, KosongSah DEF TypeOK, Usai
    <2>4. JadwalSah'
        BY <2>2, <2>3, <1>a, <1>b, JadwalTetap, JadwalUsai
    <2> QED
        BY <2>1, <2>3, <2>4, <1>a, SuratUsai
<1> QED
    BY <1>1, <1>2

LEMMA OlahIInv ==
    ASSUME IInv, NEW p \in Proses, Olah(p)
    PROVE  IInv'
<1> USE DEF IInv
<1>1. TypeOK'
    BY OlahTipe DEF SuratSah
<1>2. CASE Selesai(p)
    BY <1>2, AkhirIInv
<1>3. CASE Percepat(p)
    <2>1. JadwalSah'
        BY <1>1, <1>3, JadwalPercepat DEF SuratSah
    <2> QED
        BY <2>1, <1>1, <1>3, SuratBaca
<1>4. CASE Cocokkan(p) \/ BacaKotak(p) \/ Berikut(p) \/ BacaTerbaru(p) \/ BacaJadwal(p)
    <2>1. UNCHANGED <<jam, baris, barisKe, pesan, lok, kotak>>
        BY <1>4 DEF Cocokkan, BacaKotak, Berikut, BacaTerbaru, BacaJadwal, varsP
    <2>2. JadwalSah'
        BY <2>1, <1>1, JadwalTetap, WaktuSah DEF KotakTumbuh
    <2> QED
        BY <2>2, <1>1, <1>4, SuratBaca
<1>5. CASE Transisi(p)
    <2>1. UNCHANGED <<jam, baris, barisKe, pesan, lok, kotak>>
        BY <1>5 DEF Transisi
    <2>2. JadwalSah'
        BY <2>1, <1>1, JadwalTetap, WaktuSah DEF KotakTumbuh
    <2> QED
        BY <2>2, <1>1, <1>5, SuratTransisi
<1>6. CASE Tandai(p)
    <2>1. UNCHANGED <<jam, baris, barisKe, pesan, lok>>
        BY <1>6 DEF Tandai, varsP
    <2>2. SuratSah' /\ KotakTumbuh
        BY <1>6, SuratTandai
    <2>3. JadwalSah'
        BY <2>1, <2>2, <1>1, JadwalTetap, WaktuSah
    <2> QED
        BY <2>2, <2>3, <1>1
<1> QED
    BY <1>2, <1>3, <1>4, <1>5, <1>6 DEF Olah

LEMMA LangkahIInv == IInv /\ [Next]_vars => IInv'
<1> SUFFICES ASSUME IInv, [Next]_vars PROVE IInv'
    OBVIOUS
<1> USE DEF IInv
<1>1. CASE (Detik \/ UbahTugas) /\ UNCHANGED <<kotak, olah>>
    <2>1. /\ UNCHANGED <<baris, barisKe, pesan, pengiriman, lok, kotak, olah, rusak>>
          /\ jam \in Nat /\ jam' \in 1..MaxJam /\ jam <= jam'
        BY <1>1, WaktuSah, BatasAssumption DEF Detik, UbahTugas, TypeOK
    <2>a. berlaku' \in BOOLEAN
        BY <1>1 DEF Detik, UbahTugas, TypeOK
    <2>b. ubah' \in Nat
        BY <1>1 DEF Detik, UbahTugas, TypeOK
    <2>2. TypeOK'
        BY <2>1, <2>a, <2>b DEF TypeOK
    <2> QED
        BY <2>1, <2>2, JadwalTetap, SuratTetap DEF KotakTumbuh
<1>2. CASE \E w \in Pekerja : Siklus(w) /\ UNCHANGED <<kotak, olah>>
    BY <1>2, SiklusIInv
<1>3. CASE \E w \in Pekerja : Rekonsiliasi(w) \/ Mogok(w)
    BY <1>3, AkhirIInv DEF Proses
<1>4. CASE \E p \in Proses : Olah(p)
    BY <1>4, OlahIInv
<1>5. CASE \E h \in Penerima : Putus(h)
    BY <1>5, AkhirIInv DEF Proses
<1>6. CASE \E h \in Penerima, m \in DOMAIN pesan, s \in Hasil : Terima(h, m, s)
    <2>1. TypeOK' /\ SuratSah' /\ KotakTumbuh
        BY <1>6, TerimaTipe, SuratTerima
    <2>2. UNCHANGED <<jam, baris, barisKe, pesan, lok>>
        BY <1>6 DEF Terima, varsP
    <2> QED
        BY <2>1, <2>2, JadwalTetap, WaktuSah
<1>7. CASE UNCHANGED vars
    <2>1. /\ UNCHANGED <<jam, berlaku, ubah, baris, barisKe, pesan, rusak, pengiriman, lok, kotak, olah>>
        BY <1>7 DEF vars, varsP
    <2>2. TypeOK'
        BY <2>1 DEF TypeOK
    <2> QED
        BY <2>1, <2>2, JadwalTetap, SuratTetap, WaktuSah DEF KotakTumbuh
<1> QED
    BY <1>1, <1>2, <1>3, <1>4, <1>5, <1>6, <1>7 DEF Next

\* Every reachable state satisfies the invariant.
THEOREM Invarian == Spec => []IInv
<1> QED
    BY InitIInv, LangkahIInv, PTL DEF Spec

\* Types, in every reachable state (TypeOK).
THEOREM TipeBenar == Spec => []TypeOK
<1>1. IInv => TypeOK
    BY DEF IInv
<1> QED
    BY Invarian, <1>1, PTL

\* KotakSelaras: an event is consumed by a decided delivery, and a delivery is
\* decided by an event about it.
THEOREM KotakBenar == Spec => []KotakSelaras
<1>1. IInv => KotakSelaras
    BY DEF IInv, SuratSah
<1> QED
    BY Invarian, <1>1, PTL

-----------------------------------------------------------------------------
(***************************************************************************)
(* Steps.                                                                  *)
(***************************************************************************)
\* Who writes what: the schedule, the messages, the deliveries, the inbox.
LEMMA Penulis ==
    ASSUME Next
    PROVE  /\ \/ UNCHANGED baris
              \/ \E w \in Pekerja : Selaraskan(w) \/ Klaim(w) \/ Lepas(w) \/ Jadwalkan(w) \/ Gagal(w)
              \/ \E p \in Proses : Percepat(p)
           /\ UNCHANGED pesan \/ \E w \in Pekerja : Kirim(w) /\ UNCHANGED <<kotak, olah>>
           /\ \/ UNCHANGED pengiriman
              \/ \E w \in Pekerja : Catat(w)
              \/ \E p \in Proses : Transisi(p)
           /\ \/ UNCHANGED kotak
              \/ \E p \in Proses : Tandai(p)
              \/ \E h \in Penerima, m \in DOMAIN pesan, s \in Hasil : Terima(h, m, s)
           /\ UNCHANGED jam \/ (Detik /\ UNCHANGED <<kotak, olah>>)
<1>1. CASE (Detik \/ UbahTugas) /\ UNCHANGED <<kotak, olah>>
    BY <1>1 DEF Detik, UbahTugas
<1>2. ASSUME NEW w \in Pekerja, Siklus(w), UNCHANGED <<kotak, olah>>
      PROVE  /\ UNCHANGED <<jam, kotak, olah>>
             /\ UNCHANGED baris \/ Selaraskan(w) \/ Klaim(w) \/ Lepas(w) \/ Jadwalkan(w) \/ Gagal(w)
             /\ UNCHANGED pesan \/ Kirim(w)
             /\ UNCHANGED pengiriman \/ Catat(w)
    BY <1>2 DEF Siklus, Mulai, BacaTugas, BacaPengingat, Selaraskan, CariJatuhTempo, Klaim,
                BacaKlaim, Lepas, Kirim, Ditolak, Jawaban, Gangguan, Catat, Jadwalkan, Gagal
<1>3. CASE \E w \in Pekerja : Rekonsiliasi(w) \/ Mogok(w)
    BY <1>3 DEF Rekonsiliasi, Mogok, Berhenti
<1>4. ASSUME NEW p \in Proses, Olah(p)
      PROVE  /\ UNCHANGED <<jam, pesan>>
             /\ UNCHANGED baris \/ Percepat(p)
             /\ UNCHANGED pengiriman \/ Transisi(p)
             /\ UNCHANGED kotak \/ Tandai(p)
    BY <1>4 DEF Olah, Cocokkan, BacaKotak, Berikut, Selesai, Transisi, BacaTerbaru, BacaJadwal,
                Percepat, Tandai, varsP
<1>5. CASE \E h \in Penerima : Putus(h)
    BY <1>5 DEF Putus
<1>6. CASE \E h \in Penerima, m \in DOMAIN pesan, s \in Hasil : Terima(h, m, s)
    BY <1>6 DEF Terima, varsP
<1> QED
    BY <1>1, <1>2, <1>3, <1>4, <1>5, <1>6 DEF Next

\* JadwalMaju: only the holder of the lease commits, and it commits later than
\* whoever committed before.
THEOREM JadwalTakMundur == Spec => JadwalMaju
<1>1. IInv /\ [Next]_vars => [baris'.id = baris.id => baris'.terakhir >= baris.terakhir]_vars
    <2> SUFFICES ASSUME IInv, Next, baris'.id = baris.id
                 PROVE  baris'.terakhir >= baris.terakhir
        OBVIOUS
    <2>0. baris \in Baris /\ baris.terakhir \in Nat /\ lok \in [Pekerja -> Lokal]
        BY BatasAssumption DEF IInv, TypeOK, Baris
    <2>1. CASE UNCHANGED baris
        BY <2>0, <2>1
    <2>2. ASSUME NEW w \in Pekerja, Selaraskan(w) PROVE baris'.terakhir >= baris.terakhir
        <3>1. CASE baris' = TanpaBaris
            BY <3>1, <2>0 DEF TanpaBaris, IInv, JadwalSah, BarisSah
        <3>2. CASE UNCHANGED baris
            BY <3>2, <2>0
        <3>3. CASE baris.id = 0 /\ baris' = BarisBaru(barisKe + 1, lok[w].now)
            BY <3>3, <2>0 DEF BarisBaru, TanpaBaris, IInv, JadwalSah, BarisSah
        <3> QED
            BY <2>2, <3>1, <3>2, <3>3 DEF Selaraskan, BuatBaris, HapusBaris
    <2>3. ASSUME NEW w \in Pekerja, Klaim(w) \/ Lepas(w) \/ Gagal(w) PROVE baris'.terakhir >= baris.terakhir
        <3>1. CASE Klaim(w)
            <4>1. baris'.terakhir = baris.terakhir
                BY <3>1, <2>0 DEF Klaim, Baris
            <4> QED
                BY <4>1, <2>0
        <3>2. CASE Lepas(w)
            BY <3>2, <2>0 DEF Lepas, Baris
        <3>3. CASE Gagal(w)
            BY <3>3, <2>0 DEF Gagal, Baris
        <3> QED
            BY <2>3, <3>1, <3>2, <3>3
    <2>4. ASSUME NEW w \in Pekerja, Jadwalkan(w) PROVE baris'.terakhir >= baris.terakhir
        <3>1. CASE ~Memegang(w, lok[w].lihat.id)
            BY <3>1, <2>4, <2>0 DEF Jadwalkan
        <3>2. CASE Memegang(w, lok[w].lihat.id)
            <4>1. baris'.terakhir = lok[w].sent
                BY <3>2, <2>4, <2>0 DEF Jadwalkan, Terjadwal, Baris
            <4>2. baris.terakhir <= lok[w].sent
                BY <3>2, <2>4 DEF Jadwalkan, IInv, JadwalSah, LokSah
            <4>3. lok[w].sent \in Nat
                BY WaktuSah DEF IInv
            <4> QED
                BY <4>1, <4>2, <4>3, <2>0
        <3> QED
            BY <3>1, <3>2
    <2>5. ASSUME NEW p \in Proses, Percepat(p) PROVE baris'.terakhir >= baris.terakhir
        BY <2>5, <2>0 DEF Percepat, Baris
    <2> QED
        BY <2>1, <2>2, <2>3, <2>4, <2>5, Penulis
<1> QED
    BY Invarian, <1>1, PTL DEF Spec, JadwalMaju

\* HasilTetap: the update of a delivery asks that it is still pending.
THEOREM HasilSekali == Spec => HasilTetap
<1> DEFINE Tetap == \A i \in DOMAIN pengiriman :
                        pengiriman[i].status # "PENDING" =>
                            /\ pengiriman'[i].status = pengiriman[i].status
                            /\ pengiriman'[i].kode = pengiriman[i].kode
<1>1. IInv /\ [Next]_vars => [Tetap]_vars
    <2> SUFFICES ASSUME IInv, Next PROVE Tetap
        OBVIOUS
    <2>0. pengiriman \in Seq(Kiriman)
        BY DEF IInv, TypeOK
    <2>1. CASE UNCHANGED pengiriman
        BY <2>1
    <2>2. ASSUME NEW w \in Pekerja, Catat(w) PROVE Tetap
        <3>1. CASE PengirimanKunci(KunciKirim(w)) # {}
            BY <3>1, <2>2 DEF Catat
        <3>2. CASE PengirimanKunci(KunciKirim(w)) = {}
            <4>1. \A i \in DOMAIN pengiriman : pengiriman'[i] = pengiriman[i]
                BY <3>2, <2>0, <2>2 DEF Catat
            <4> QED
                BY <4>1
        <3> QED
            BY <3>1, <3>2
    <2>3. ASSUME NEW p \in Proses, Transisi(p) PROVE Tetap
        BY <2>0, <2>3 DEF Transisi, Ditetapkan
    <2> QED
        BY <2>1, <2>2, <2>3, Penulis
<1> QED
    BY Invarian, <1>1, PTL DEF Spec, HasilTetap

-----------------------------------------------------------------------------
(***************************************************************************)
(* The abstraction: a new message is Kirim, a first refusal is Tolak.      *)
(***************************************************************************)
LEMMA TolakTetap ==
    ASSUME DOMAIN kotak' = DOMAIN kotak, \A e \in DOMAIN kotak : kotak'[e].terima = kotak[e].terima
    PROVE  UNCHANGED Penolakan
BY DEF Penolakan

LEMMA KirimBoleh ==
    ASSUME IInv, NEW w \in Pekerja, Kirim(w), UNCHANGED <<kotak, olah>>
    PROVE  Berkala!Next \/ UNCHANGED Berkala!vars
<1> DEFINE k == KunciKirim(w)
<1>0. UNCHANGED Penolakan /\ UNCHANGED jam
    BY TolakTetap DEF Kirim
<1>1. CASE k \in DOMAIN pesan
    BY <1>0, <1>1 DEF Kirim, Berkala!vars
<1>2. CASE k \notin DOMAIN pesan
    <2>1. pesan' = [x \in DOMAIN pesan \cup {k} |-> IF x = k THEN jam ELSE pesan[x]]
        BY <1>2 DEF Kirim, Ditambah
    <2>2. BolehPada(k[1], lok[w].now) /\ lok[w].now <= jam
        BY <1>2 DEF IInv, JadwalSah, LokSah, GiliranSah, BelumTerkirim, Kirim, Menyerahkan, KunciKirim
    <2>3. /\ jam \in Nat /\ lok[w].now \in Nat
          /\ \A x \in DOMAIN pesan : pesan[x] \in Nat
          /\ \A e \in DOMAIN kotak : kotak[e].terima \in Nat
        BY WaktuSah DEF IInv
    <2>4. Berkala!Boleh(k[1])
        <3>1. CASE \E e \in DOMAIN kotak :
                       e[2] = "REJECTED" /\ e[1][1] = k[1] /\ lok[w].now >= kotak[e].terima + JarakTolak
            <4>1. PICK e \in DOMAIN kotak :
                       e[2] = "REJECTED" /\ e[1][1] = k[1] /\ lok[w].now >= kotak[e].terima + JarakTolak
                BY <3>1
            <4>2. <<e[1][1], kotak[e].terima>> \in Penolakan
                BY <4>1 DEF Penolakan
            <4>3. jam >= kotak[e].terima + JarakTolak
                BY <4>1, <2>2, <2>3, JarakTolakAssumption
            <4> DEFINE t == <<e[1][1], kotak[e].terima>>
            <4>4. t \in Penolakan /\ t[1] = k[1] /\ jam >= t[2] + JarakTolak
                BY <4>1, <4>2, <4>3
            <4> QED
                BY <4>4 DEF Berkala!Boleh
        <3>2. CASE \A x \in DOMAIN pesan : x[1] = k[1] => lok[w].now >= pesan[x] + Jarak
            <4>1. \A x \in DOMAIN pesan : x[1] = k[1] => jam >= pesan[x] + Jarak
                BY <3>2, <2>2, <2>3, JarakAssumption
            <4> QED
                BY <4>1 DEF Berkala!Boleh
        <3> QED
            BY <3>1, <3>2, <2>2 DEF BolehPada
    <2>5. Berkala!Kirim(k)
        BY <1>0, <1>2, <2>1, <2>4 DEF Berkala!Kirim
    <2>6. k \in (DOMAIN pesan') \ DOMAIN pesan
        BY <1>2, <2>1
    <2> QED
        BY <2>5, <2>6 DEF Berkala!Next
<1> QED
    BY <1>1, <1>2

LEMMA TerimaTolak ==
    ASSUME IInv, NEW h \in Penerima, NEW m \in DOMAIN pesan, NEW s \in Hasil, Terima(h, m, s)
    PROVE  Berkala!Next \/ UNCHANGED Berkala!vars
<1> DEFINE e == <<m, s>>
<1>0. UNCHANGED <<jam, pesan>>
    BY DEF Terima, varsP
<1>1. CASE e \in DOMAIN kotak
    <2>1. UNCHANGED kotak
        BY <1>1 DEF Terima
    <2> QED
        BY <1>0, <2>1, TolakTetap DEF Berkala!vars
<1>2. CASE e \notin DOMAIN kotak
    <2>1. PICK k : kotak' = Ditambah(kotak, e, [kode |-> k, terima |-> jam, sudah |-> FALSE])
        BY <1>2 DEF Terima
    <2>2. /\ DOMAIN kotak' = DOMAIN kotak \cup {e} /\ kotak'[e].terima = jam
          /\ \A x \in DOMAIN kotak : kotak'[x] = kotak[x]
        BY <2>1, <1>2 DEF Ditambah
    <2>3. CASE s = "REJECTED"
        <3>1. Penolakan' = Penolakan \cup {<<m[1], jam>>}
            BY <2>2, <2>3 DEF Penolakan
        <3> QED
            BY <3>1, <1>0 DEF Berkala!Tolak, Berkala!Next
    <2>4. CASE s # "REJECTED"
        <3>1. UNCHANGED Penolakan
            BY <2>2, <2>4 DEF Penolakan
        <3> QED
            BY <3>1, <1>0 DEF Berkala!vars
    <2> QED
        BY <2>3, <2>4
<1> QED
    BY <1>1, <1>2

LEMMA LangkahBerkala == IInv /\ [Next]_vars => [Berkala!Next]_(Berkala!vars)
<1> SUFFICES ASSUME IInv, [Next]_vars PROVE Berkala!Next \/ UNCHANGED Berkala!vars
    OBVIOUS
<1>1. CASE UNCHANGED vars
    <2>1. UNCHANGED <<jam, pesan, kotak>>
        BY <1>1 DEF vars, varsP
    <2> QED
        BY <2>1, TolakTetap DEF Berkala!vars
<1>2. CASE \E w \in Pekerja : Kirim(w) /\ UNCHANGED <<kotak, olah>>
    BY <1>2, KirimBoleh
<1>3. CASE \E h \in Penerima, m \in DOMAIN pesan, s \in Hasil : Terima(h, m, s)
    BY <1>3, TerimaTolak
<1>4. CASE Detik /\ UNCHANGED <<kotak, olah>>
    <2>1. jam' = jam + 1 /\ UNCHANGED pesan /\ UNCHANGED Penolakan
        BY <1>4, TolakTetap DEF Detik
    <2> QED
        BY <2>1 DEF Berkala!Detik, Berkala!Next
<1>5. CASE Next /\ UNCHANGED <<jam, pesan>> /\ (UNCHANGED kotak \/ \E p \in Proses : Tandai(p))
    <2>1. DOMAIN kotak' = DOMAIN kotak /\ \A e \in DOMAIN kotak : kotak'[e].terima = kotak[e].terima
        <3>1. ASSUME NEW p \in Proses, Tandai(p)
              PROVE  DOMAIN kotak' = DOMAIN kotak /\ \A e \in DOMAIN kotak : kotak'[e].terima = kotak[e].terima
            BY <3>1 DEF Tandai, IInv, TypeOK, Laporan
        <3> QED
            BY <1>5, <3>1
    <2> QED
        BY <1>5, <2>1, TolakTetap DEF Berkala!vars
<1> QED
    BY <1>1, <1>2, <1>3, <1>4, <1>5, Penulis

\* JarakAntarPesan: the reminders keep the distance PengirimanBerkala promises.
THEOREM MenerapkanBerkala == Spec => JarakAntarPesan
<1>1. Init => Berkala!Init
    BY DEF Init, InitP, Penolakan, Berkala!Init
<1>2. IInv /\ [Next]_vars => [Berkala!Next]_(Berkala!vars)
    BY LangkahBerkala
<1> QED
    BY Invarian, <1>1, <1>2, PTL DEF Spec, JarakAntarPesan, Berkala!Spec
-----------------------------------------------------------------------------
(***************************************************************************)
(* Nothing stays behind, as long as nothing fails and no instance loses    *)
(* its lease under way: an unprocessed callback about a recorded           *)
(* submission is always somebody's, a handler's or that of the worker that *)
(* has yet to commit the schedule the callback waits for.                  *)
(***************************************************************************)
Tenang == rusak = 0 /\ ubah = 0

\* A free row is claimed, or none.
KlaimBebas(w) == Klaim(w) => baris.kunci = Kosong \/ UNCHANGED baris

\* The lease outlasts a cycle in which nothing fails.
SewaCukup == [][Tenang => \A w \in Pekerja : KlaimBebas(w)]_vars

\* The holder of the row is at work on it, and nobody else is.
Melayani == {"baca", "kirim", "tunggu", "catat", "jadwalkan"}

Terpegang(w) ==
    /\ lok[w].pc \notin {"gagal", "lepas"}
    /\ lok[w].pc \in {"istirahat", "selaraskan"} => lok[w].perlu # FALSE
    /\ lok[w].pc \in Melayani <=> baris.kunci = w
    /\ lok[w].pc = "baca" => lok[w].ada = baris.id
    /\ lok[w].pc \in Melayani \ {"baca"} => lok[w].lihat.id = baris.id
    /\ olah[w].pc # "usai" => lok[w].pc = "rekon"

\* A delivery the schedule does not include yet is about to be committed.
Disusul(i) ==
    \/ pengiriman[i].dikirim <= baris.terakhir
    \/ \E w \in Pekerja :
          /\ lok[w].pc = "jadwalkan"
          /\ lok[w].jawab = pengiriman[i].pesan
          /\ pengiriman[i].dikirim <= lok[w].sent

\* Worker p reconciles message m once it has committed the schedule.
AkanRekonsiliasi(p, m) ==
    /\ p \in Pekerja
    /\ lok[p].jawab = m
    /\ lok[p].pc = "jadwalkan" \/ (lok[p].pc = "rekon" /\ olah[p].pc = "usai")

Menanggung(p, e) ==
    \/ olah[p].pc \in Dipasangkan \cup {"cocokkan"} /\ olah[p].e = e
    \/ olah[p].pc # "usai" /\ e \in olah[p].sisa
    \/ olah[p].pc = "rekon" /\ olah[p].pesan = e[1]
    \/ AkanRekonsiliasi(p, e[1])

Menunggu(e) == e \in DOMAIN kotak /\ ~kotak[e].sudah /\ PengirimanPesan(e[1]) # {}

Tertanggung == \A e \in Peristiwa : Menunggu(e) => \E p \in Proses : Menanggung(p, e)

Selalu ==
    /\ berlaku
    /\ \A w \in Pekerja : Terpegang(w)
    /\ \A i \in DOMAIN pengiriman : Disusul(i)
    /\ Tertanggung

TInv == Tenang => Selalu

LEMMA KosongBukanSalah == Kosong # FALSE /\ \A w \in Pekerja : w # Kosong
BY KosongAssumption

LEMMA InitTInv == Init => TInv
<1> SUFFICES ASSUME Init PROVE Selalu
    BY DEF TInv
<1>1. \A w \in Pekerja : Terpegang(w)
    BY KosongAssumption DEF Init, InitP, Terpegang, LokKosong, OlahKosong, TanpaBaris, Melayani, Proses
<1> QED
    BY <1>1 DEF Init, InitP, Selalu, Tertanggung, Menunggu

\* A step of w leaves what the others hold.
LEMMA TerpegangLain ==
    ASSUME Selalu, NEW w \in Pekerja, Terpegang(w)',
           \A v \in Pekerja \ {w} :
               /\ lok'[v] = lok[v] /\ olah'[v] = olah[v]
               /\ baris'.kunci = v <=> baris.kunci = v
               /\ baris.kunci = v => baris'.id = baris.id
    PROVE  \A v \in Pekerja : Terpegang(v)'
<1> SUFFICES ASSUME NEW v \in Pekerja, v # w PROVE Terpegang(v)'
    OBVIOUS
<1>1. Terpegang(v)
    BY DEF Selalu
<1>2. lok'[v] = lok[v] /\ olah'[v] = olah[v]
    OBVIOUS
<1>3. (baris'.kunci = v <=> baris.kunci = v) /\ (baris.kunci = v => baris'.id = baris.id)
    OBVIOUS
<1> QED
    BY <1>1, <1>2, <1>3 DEF Terpegang, Melayani

\* At rest, w holds nothing.
LEMMA TerpegangUsai ==
    ASSUME NEW w \in Pekerja, lok'[w] = LokKosong, baris'.kunci # w, olah'[w].pc = "usai"
    PROVE  Terpegang(w)'
<1>1. lok'[w].pc = "istirahat" /\ lok'[w].perlu = Kosong
    BY DEF LokKosong
<1>2. lok'[w].perlu # FALSE
    BY <1>1, KosongBukanSalah
<1> QED
    BY <1>1, <1>2 DEF Terpegang, Melayani

\* A step of w before it has recorded its submission disturbs neither part.
LEMMA SebelumCatat ==
    ASSUME TypeOK, Selalu, NEW w \in Pekerja, lok[w].pc \notin {"jadwalkan", "rekon"},
           \A v \in Pekerja \ {w} : lok'[v] = lok[v],
           UNCHANGED <<olah, kotak, pengiriman>>, baris'.terakhir = baris.terakhir
    PROVE  (\A i \in DOMAIN pengiriman' : Disusul(i)') /\ Tertanggung'
<1>1. ASSUME NEW i \in DOMAIN pengiriman' PROVE Disusul(i)'
    <2>1. Disusul(i)
        BY DEF Selalu
    <2> QED
        BY <2>1 DEF Disusul
<1>2. ASSUME NEW e \in Peristiwa, Menunggu(e)' PROVE \E p \in Proses : Menanggung(p, e)'
    <2>1. Menunggu(e)
        BY <1>2 DEF Menunggu, PengirimanPesan
    <2>2. PICK p \in Proses : Menanggung(p, e)
        BY <2>1 DEF Selalu, Tertanggung
    <2>3. AkanRekonsiliasi(p, e[1]) => AkanRekonsiliasi(p, e[1])'
        BY DEF AkanRekonsiliasi
    <2>4. Menanggung(p, e)'
        BY <2>2, <2>3 DEF Menanggung
    <2> QED
        BY <2>4
<1> QED
    BY <1>1, <1>2 DEF Tertanggung

\* The steps of a cycle that write only what the worker remembers.
LEMMA SelaluLokal ==
    ASSUME IInv, Selalu, NEW w \in Pekerja, UNCHANGED <<kotak, olah>>,
           \/ Mulai(w) \/ BacaTugas(w) \/ BacaPengingat(w) \/ CariJatuhTempo(w)
           \/ BacaKlaim(w) \/ Kirim(w) \/ Jawaban(w)
    PROVE  Selalu'
<1>a. /\ lok \in [Pekerja -> Lokal] /\ lok[w] \in Lokal /\ TypeOK
      /\ Terpegang(w) /\ berlaku = TRUE
    BY DEF IInv, TypeOK, Selalu
<1>b. UNCHANGED <<berlaku, baris, pengiriman>>
    BY DEF Mulai, BacaTugas, BacaPengingat, CariJatuhTempo, BacaKlaim, Kirim, Jawaban
<1>c. \A v \in Pekerja \ {w} : lok'[v] = lok[v]
    BY <1>a DEF Mulai, BacaTugas, BacaPengingat, CariJatuhTempo, BacaKlaim, Kirim, Jawaban, Usai
<1>d. lok[w].pc \notin {"jadwalkan", "rekon"}
    BY DEF Mulai, BacaTugas, BacaPengingat, CariJatuhTempo, BacaKlaim, Kirim, Jawaban
<1>e. Usai(w) => lok'[w] = LokKosong
    BY <1>a DEF Usai
<1>1. ASSUME Mulai(w) PROVE Terpegang(w)'
    <2>1. /\ lok[w].pc = "istirahat" /\ lok'[w].pc = "selaraskan"
          /\ lok'[w].perlu \in {TRUE, lok[w].perlu}
        <3>1. \/ lok' = [lok EXCEPT ![w].pc = "selaraskan", ![w].now = jam, ![w].perlu = berlaku]
              \/ lok' = [lok EXCEPT ![w].pc = "selaraskan", ![w].now = jam, ![w].ada = baris.id]
            BY <1>1 DEF Mulai
        <3>2. lok[w].pc = "istirahat"
            BY <1>1 DEF Mulai
        <3>3. CASE lok' = [lok EXCEPT ![w].pc = "selaraskan", ![w].now = jam, ![w].perlu = berlaku]
            <4>1. lok'[w].pc = "selaraskan" /\ lok'[w].perlu = berlaku
                BY <3>3, <1>a DEF Lokal
            <4> QED
                BY <4>1, <3>2, <1>a
        <3>4. CASE lok' = [lok EXCEPT ![w].pc = "selaraskan", ![w].now = jam, ![w].ada = baris.id]
            <4>1. lok'[w].pc = "selaraskan" /\ lok'[w].perlu = lok[w].perlu
                BY <3>4, <1>a DEF Lokal
            <4> QED
                BY <4>1, <3>2
        <3> QED
            BY <3>1, <3>3, <3>4
    <2> QED
        BY <2>1, <1>a, <1>b DEF Terpegang, Melayani
<1>2. ASSUME BacaTugas(w) PROVE Terpegang(w)'
    <2>1. lok[w].pc = "selaraskan" /\ lok'[w].pc = "selaraskan" /\ lok'[w].perlu = TRUE
        BY <1>2, <1>a DEF BacaTugas, Lokal
    <2> QED
        BY <2>1, <1>a, <1>b DEF Terpegang, Melayani
<1>3. ASSUME BacaPengingat(w) PROVE Terpegang(w)'
    <2>1. lok[w].pc = "selaraskan" /\ lok[w].perlu = FALSE
        BY <1>3 DEF BacaPengingat
    <2> QED
        BY <2>1, <1>a DEF Terpegang
<1>4. ASSUME CariJatuhTempo(w) PROVE Terpegang(w)'
    <2>1. lok[w].pc = "cari" /\ (lok'[w].pc = "klaim" \/ lok'[w] = LokKosong)
        BY <1>4, <1>a, <1>e DEF CariJatuhTempo, Lokal
    <2>2. baris'.kunci # w /\ olah'[w].pc = "usai"
        BY <2>1, <1>a, <1>b DEF Terpegang, Melayani
    <2>3. CASE lok'[w].pc = "klaim"
        BY <2>2, <2>3 DEF Terpegang, Melayani
    <2> QED
        BY <2>1, <2>2, <2>3, TerpegangUsai
<1>5. ASSUME BacaKlaim(w) PROVE Terpegang(w)'
    <2>1. Memegang(w, lok[w].ada) /\ lok[w].pc = "baca"
        BY <1>5, <1>a DEF BacaKlaim, Terpegang, Melayani, Memegang
    <2>2. lok'[w].pc = "kirim" /\ lok'[w].lihat = Terlihat(baris)
        BY <2>1, <1>5, <1>a DEF BacaKlaim, Lokal
    <2> QED
        BY <2>1, <2>2, <1>a, <1>b DEF Terpegang, Melayani, Terlihat
<1>6. ASSUME Kirim(w) PROVE Terpegang(w)'
    <2>1. lok[w].pc = "kirim" /\ lok'[w].pc = "tunggu" /\ lok'[w].lihat = lok[w].lihat
        BY <1>6, <1>a DEF Kirim, Lokal
    <2> QED
        BY <2>1, <1>a, <1>b DEF Terpegang, Melayani
<1>7. ASSUME Jawaban(w) PROVE Terpegang(w)'
    <2>1. lok[w].pc = "tunggu" /\ lok'[w].pc = "catat" /\ lok'[w].lihat = lok[w].lihat
        BY <1>7, <1>a DEF Jawaban, Lokal
    <2> QED
        BY <2>1, <1>a, <1>b DEF Terpegang, Melayani
<1>8. Terpegang(w)'
    BY <1>1, <1>2, <1>3, <1>4, <1>5, <1>6, <1>7
<1>9. \A v \in Pekerja : Terpegang(v)'
    BY <1>8, <1>b, <1>c, TerpegangLain
<1> QED
    BY <1>9, <1>a, <1>b, <1>c, <1>d, SebelumCatat DEF Selalu

\* The row is created with nobody holding it, and claimed by one worker.
LEMMA SelaluSelaraskan ==
    ASSUME IInv, Selalu, NEW w \in Pekerja, UNCHANGED <<kotak, olah>>, Selaraskan(w)
    PROVE  Selalu'
<1>a. /\ lok \in [Pekerja -> Lokal] /\ TypeOK /\ BarisSah
      /\ Terpegang(w) /\ berlaku' = TRUE /\ lok[w].pc = "selaraskan"
    BY DEF IInv, TypeOK, JadwalSah, Selalu, Selaraskan
<1>b. /\ lok'[w] = [LokKosong EXCEPT !.pc = "cari"] /\ pengiriman' = pengiriman
      /\ \A v \in Pekerja \ {w} : lok'[v] = lok[v]
    BY <1>a DEF Selaraskan
<1>1. BuatBaris(w)
    BY <1>a DEF Terpegang, Selaraskan, HapusBaris
<1>2. CASE baris.id # 0
    <2>1. baris' = baris
        BY <1>1, <1>2 DEF BuatBaris
    <2>2. Terpegang(w)'
        BY <2>1, <1>a, <1>b DEF Terpegang, Melayani, LokKosong
    <2>3. \A v \in Pekerja : Terpegang(v)'
        BY <2>1, <2>2, <1>b, TerpegangLain
    <2> QED
        BY <2>1, <2>3, <1>a, <1>b, SebelumCatat DEF Selalu
<1>3. CASE baris.id = 0
    <2>1. baris'.kunci = Kosong /\ baris'.terakhir = 0
        BY <1>1, <1>3 DEF BuatBaris, BarisBaru, TanpaBaris
    <2>2. baris.kunci = Kosong /\ baris.terakhir = 0
        BY <1>a, <1>3 DEF BarisSah
    <2>3. Terpegang(w)'
        BY <2>1, <2>2, <1>a, <1>b DEF Terpegang, Melayani, LokKosong
    <2>4. \A v \in Pekerja : Terpegang(v)'
        BY <2>1, <2>2, <2>3, <1>b, KosongAssumption, TerpegangLain
    <2> QED
        BY <2>1, <2>2, <2>4, <1>a, <1>b, SebelumCatat DEF Selalu
<1> QED
    BY <1>2, <1>3

LEMMA SelaluKlaim ==
    ASSUME IInv, Selalu, NEW w \in Pekerja, UNCHANGED <<kotak, olah>>, Klaim(w), KlaimBebas(w)
    PROVE  Selalu'
<1>a. /\ lok \in [Pekerja -> Lokal] /\ lok[w] \in Lokal /\ baris \in Baris /\ TypeOK
      /\ Terpegang(w) /\ berlaku' = TRUE /\ lok[w].pc = "klaim" /\ pengiriman' = pengiriman
      /\ \A v \in Pekerja \ {w} : lok'[v] = lok[v]
    BY DEF IInv, TypeOK, Selalu, Klaim, Ke, Usai
<1>1. CASE baris.id = lok[w].ada /\ JatuhTempo(lok[w].now)
    <2>1. /\ baris'.kunci = w /\ baris'.id = baris.id /\ baris'.terakhir = baris.terakhir
          /\ lok'[w].pc = "baca" /\ lok'[w].ada = lok[w].ada
        <3>1. baris' = [baris EXCEPT !.kunci = w, !.sampai = lok[w].now + Sewa]
            BY <1>1 DEF Klaim
        <3>2. lok' = [lok EXCEPT ![w].pc = "baca"]
            BY <1>1 DEF Klaim, Ke
        <3>3. baris'.kunci = w /\ baris'.id = baris.id /\ baris'.terakhir = baris.terakhir
            BY <3>1, <1>a DEF Baris
        <3>4. lok'[w].pc = "baca" /\ lok'[w].ada = lok[w].ada
            BY <3>2, <1>a DEF Lokal
        <3> QED
            BY <3>3, <3>4
    <2>2. baris.kunci # w
        BY <1>a DEF Terpegang, Melayani
    <2>3. baris.kunci = Kosong
        BY <2>1, <2>2 DEF KlaimBebas
    <2>4. Terpegang(w)'
        BY <2>1, <1>1, <1>a DEF Terpegang, Melayani
    <2>5. \A v \in Pekerja : Terpegang(v)'
        BY <2>1, <2>3, <2>4, <1>a, KosongAssumption, TerpegangLain
    <2> QED
        BY <2>1, <2>5, <1>a, SebelumCatat DEF Selalu
<1>2. CASE ~(baris.id = lok[w].ada /\ JatuhTempo(lok[w].now))
    <2>1. baris' = baris /\ lok'[w] = LokKosong
        BY <1>2, <1>a DEF Klaim, Usai
    <2>2. Terpegang(w)'
        <3>1. baris'.kunci # w /\ olah'[w].pc = "usai"
            BY <2>1, <1>a DEF Terpegang, Melayani
        <3> QED
            BY <2>1, <3>1, TerpegangUsai
    <2>3. \A v \in Pekerja : Terpegang(v)'
        BY <2>1, <2>2, <1>a, TerpegangLain
    <2> QED
        BY <2>1, <2>3, <1>a, SebelumCatat DEF Selalu
<1> QED
    BY <1>1, <1>2

\* Only the holder of the row is about to commit it.
LEMMA SatuPemegang ==
    ASSUME Selalu, NEW w \in Pekerja, lok[w].pc \in {"catat", "jadwalkan"},
           NEW v \in Pekerja, lok[v].pc = "jadwalkan"
    PROVE  v = w
<1>1. Terpegang(w) /\ Terpegang(v)
    BY DEF Selalu
<1>2. baris.kunci = w /\ baris.kunci = v
    BY <1>1 DEF Terpegang, Melayani
<1> QED
    BY <1>2

\* The delivery of w is recorded: w is about to commit the schedule.
LEMMA SelaluCatat ==
    ASSUME IInv, Selalu, NEW w \in Pekerja, UNCHANGED <<kotak, olah>>, Catat(w)
    PROVE  Selalu'
<1> DEFINE baru == [kunci |-> KunciKirim(w), pesan |-> lok[w].jawab, dikirim |-> lok[w].sent,
                    status |-> "PENDING", kode |-> Kosong]
           n == Len(pengiriman) + 1
<1>a. /\ lok \in [Pekerja -> Lokal] /\ lok[w] \in Lokal /\ TypeOK
      /\ Terpegang(w) /\ berlaku' = TRUE /\ lok[w].pc = "catat" /\ baris' = baris
    BY DEF IInv, TypeOK, Selalu, Catat
<1>b. /\ lok'[w].pc = "jadwalkan" /\ lok'[w].lihat = lok[w].lihat /\ lok'[w].sent = lok[w].sent
      /\ \A v \in Pekerja \ {w} : lok'[v] = lok[v]
    BY <1>a DEF Catat, Ke, Lokal
<1>c. \/ pengiriman' = pengiriman
      \/ lok'[w].jawab = lok[w].jawab /\ pengiriman' = Append(pengiriman, baru)
    BY <1>a DEF Catat, Ke, Lokal
<1>d. pengiriman' = Append(pengiriman, baru) =>
          /\ DOMAIN pengiriman' = DOMAIN pengiriman \cup {n}
          /\ pengiriman'[n] = baru
          /\ \A i \in DOMAIN pengiriman : pengiriman'[i] = pengiriman[i]
    <2>1. pengiriman \in Seq(Kiriman)
        BY <1>a DEF TypeOK
    <2> QED
        BY <2>1
<1>1. Terpegang(w)'
    BY <1>a, <1>b DEF Terpegang, Melayani
<1>2. \A v \in Pekerja : Terpegang(v)'
    BY <1>1, <1>a, <1>b, TerpegangLain
<1>3. ASSUME NEW i \in DOMAIN pengiriman PROVE pengiriman[i].dikirim <= baris.terakhir
    <2>1. Disusul(i)
        BY DEF Selalu
    <2>2. ASSUME NEW v \in Pekerja, lok[v].pc = "jadwalkan" PROVE FALSE
        BY <2>2, <1>a, SatuPemegang
    <2> QED
        BY <2>1, <2>2 DEF Disusul
<1>4. ASSUME NEW i \in DOMAIN pengiriman' PROVE Disusul(i)'
    <2>1. CASE i \in DOMAIN pengiriman /\ pengiriman'[i] = pengiriman[i]
        BY <2>1, <1>3, <1>a DEF Disusul
    <2>2. CASE pengiriman' = Append(pengiriman, baru) /\ i = n
        <3>1. pengiriman'[i].pesan = lok[w].jawab /\ pengiriman'[i].dikirim = lok[w].sent
            BY <2>2, <1>d
        <3>2. lok'[w].jawab = lok[w].jawab \/ pengiriman' = pengiriman
            BY <1>c
        <3>3. n \notin DOMAIN pengiriman
            BY <1>a DEF TypeOK
        <3>4. pengiriman' # pengiriman
            BY <2>2, <3>3
        <3>5. lok[w].sent \in Nat
            BY <1>a, BatasAssumption DEF Lokal
        <3> QED
            BY <3>1, <3>2, <3>4, <3>5, <1>b DEF Disusul
    <2> QED
        BY <2>1, <2>2, <1>c, <1>d
<1>5. ASSUME NEW e \in Peristiwa, Menunggu(e)' PROVE \E p \in Proses : Menanggung(p, e)'
    <2>1. CASE Menunggu(e)
        <3>1. PICK p \in Proses : Menanggung(p, e)
            BY <2>1 DEF Selalu, Tertanggung
        <3>2. AkanRekonsiliasi(p, e[1]) => AkanRekonsiliasi(p, e[1])'
            BY <1>a, <1>b DEF AkanRekonsiliasi
        <3> QED
            BY <3>1, <3>2 DEF Menanggung
    <2>2. CASE ~Menunggu(e)
        <3>1. PICK i \in DOMAIN pengiriman' : pengiriman'[i].pesan = e[1]
            BY <1>5 DEF Menunggu, PengirimanPesan
        <3>2. i \notin DOMAIN pengiriman \/ pengiriman'[i] # pengiriman[i]
            BY <2>2, <3>1, <1>5 DEF Menunggu, PengirimanPesan
        <3>3. pengiriman'[i] = baru /\ lok'[w].jawab = lok[w].jawab
            BY <3>2, <1>c, <1>d
        <3>4. lok'[w].jawab = e[1]
            BY <3>1, <3>3
        <3> QED
            BY <3>4, <1>b DEF Menanggung, AkanRekonsiliasi, Proses
    <2> QED
        BY <2>1, <2>2
<1> QED
    BY <1>2, <1>4, <1>5, <1>a DEF Selalu, Tertanggung

\* The schedule is committed: w turns to the callbacks of its message.
LEMMA SelaluJadwalkan ==
    ASSUME IInv, Selalu, NEW w \in Pekerja, UNCHANGED <<kotak, olah>>, Jadwalkan(w)
    PROVE  Selalu'
<1>a. /\ lok \in [Pekerja -> Lokal] /\ lok[w] \in Lokal /\ baris \in Baris /\ TypeOK /\ LokSah(w)
      /\ Terpegang(w) /\ berlaku' = TRUE /\ lok[w].pc = "jadwalkan" /\ pengiriman' = pengiriman
    BY DEF IInv, TypeOK, JadwalSah, Selalu, Jadwalkan
<1>b. Memegang(w, lok[w].lihat.id)
    BY <1>a DEF Terpegang, Melayani, Memegang
<1>c. /\ baris'.terakhir = lok[w].sent /\ baris'.kunci = Kosong /\ baris'.id = baris.id
      /\ lok'[w].pc = "rekon" /\ lok'[w].jawab = lok[w].jawab
      /\ \A v \in Pekerja \ {w} : lok'[v] = lok[v]
    <2>1. baris' = Terjadwal(w)
        BY <1>b DEF Jadwalkan
    <2>2. lok' = [lok EXCEPT ![w].pc = "rekon"]
        BY <1>b DEF Jadwalkan, Ke
    <2>3. baris'.terakhir = lok[w].sent /\ baris'.kunci = Kosong /\ baris'.id = baris.id
        BY <2>1, <1>a DEF Terjadwal, Baris
    <2>4. /\ lok'[w].pc = "rekon" /\ lok'[w].jawab = lok[w].jawab
          /\ \A v \in Pekerja \ {w} : lok'[v] = lok[v]
        BY <2>2, <1>a DEF Lokal
    <2> QED
        BY <2>3, <2>4
<1>d. baris.terakhir <= lok[w].sent /\ baris.terakhir \in Nat /\ lok[w].sent \in Nat
    BY <1>a, <1>b, BatasAssumption DEF LokSah, Memegang, Baris, Lokal
<1>1. Terpegang(w)'
    BY <1>a, <1>c, KosongAssumption DEF Terpegang, Melayani
<1>2. \A v \in Pekerja : Terpegang(v)'
    <2>1. baris.kunci = w
        BY <1>b DEF Memegang
    <2> QED
        BY <1>1, <1>c, <2>1, KosongAssumption, TerpegangLain
<1>3. ASSUME NEW i \in DOMAIN pengiriman' PROVE Disusul(i)'
    <2>1. Disusul(i)
        BY <1>a DEF Selalu
    <2>2. pengiriman[i].dikirim \in Nat
        <3>1. pengiriman[i] \in Kiriman
            BY <1>a DEF TypeOK
        <3> QED
            BY <3>1, BatasAssumption DEF Kiriman
    <2>3. pengiriman[i].dikirim <= lok[w].sent
        BY <2>1, <2>2, <1>a, <1>d, SatuPemegang DEF Disusul
    <2> QED
        BY <2>3, <1>a, <1>c DEF Disusul
<1>4. ASSUME NEW e \in Peristiwa, Menunggu(e)' PROVE \E p \in Proses : Menanggung(p, e)'
    <2>1. Menunggu(e)
        BY <1>4, <1>a DEF Menunggu, PengirimanPesan
    <2>2. PICK p \in Proses : Menanggung(p, e)
        BY <2>1 DEF Selalu, Tertanggung
    <2>3. olah[w].pc = "usai"
        BY <1>a DEF Terpegang
    <2>4. AkanRekonsiliasi(p, e[1]) => AkanRekonsiliasi(p, e[1])'
        BY <2>3, <1>a, <1>c DEF AkanRekonsiliasi
    <2> QED
        BY <2>2, <2>4 DEF Menanggung
<1> QED
    BY <1>2, <1>3, <1>4, <1>a DEF Selalu, Tertanggung

\* A worker turns to the callbacks of its message, or has no message to turn to.
LEMMA SelaluRekonsiliasi ==
    ASSUME IInv, Selalu, NEW w \in Pekerja, Rekonsiliasi(w)
    PROVE  Selalu'
<1>a. /\ lok \in [Pekerja -> Lokal] /\ lok[w] \in Lokal /\ TypeOK /\ olah \in [Proses -> Olahan]
      /\ Terpegang(w) /\ berlaku' = TRUE /\ lok[w].pc = "rekon" /\ olah[w].pc = "usai"
      /\ UNCHANGED <<pengiriman, baris, kotak>> /\ w \in Proses
    BY DEF IInv, TypeOK, Selalu, Rekonsiliasi, Proses
<1>b. \A v \in Pekerja \ {w} : lok'[v] = lok[v] /\ olah'[v] = olah[v]
    BY <1>a DEF Rekonsiliasi, Ke, Usai, Proses
<1>1. ASSUME NEW i \in DOMAIN pengiriman' PROVE Disusul(i)'
    <2>1. Disusul(i)
        BY <1>a DEF Selalu
    <2> QED
        BY <2>1, <1>a, <1>b DEF Disusul
<1>2. CASE lok[w].jawab = Kosong
    <2>1. lok'[w] = LokKosong /\ olah' = olah
        BY <1>2, <1>a DEF Rekonsiliasi, Usai
    <2>2. Terpegang(w)'
        <3>1. baris'.kunci # w /\ olah'[w].pc = "usai"
            BY <2>1, <1>a DEF Terpegang, Melayani
        <3> QED
            BY <2>1, <3>1, TerpegangUsai
    <2>3. \A v \in Pekerja : Terpegang(v)'
        BY <2>2, <1>a, <1>b, TerpegangLain
    <2>4. ASSUME NEW e \in Peristiwa, Menunggu(e)' PROVE \E p \in Proses : Menanggung(p, e)'
        <3>1. Menunggu(e) /\ e[1] # Kosong
            BY <2>4, <1>a, KosongAssumption DEF Menunggu, PengirimanPesan, Peristiwa
        <3>2. PICK p \in Proses : Menanggung(p, e)
            BY <3>1 DEF Selalu, Tertanggung
        <3>3. AkanRekonsiliasi(p, e[1]) => AkanRekonsiliasi(p, e[1])'
            BY <2>1, <3>1, <1>b, <1>2 DEF AkanRekonsiliasi
        <3> QED
            BY <2>1, <3>2, <3>3 DEF Menanggung
    <2> QED
        BY <2>3, <2>4, <1>1, <1>a DEF Selalu, Tertanggung
<1>3. CASE lok[w].jawab # Kosong
    <2>1. /\ lok'[w].pc = "rekon" /\ olah'[w].pc = "rekon" /\ olah'[w].pesan = lok[w].jawab
          /\ \A q \in Proses \ {w} : olah'[q] = olah[q]
        BY <1>3, <1>a DEF Rekonsiliasi, Ke, OlahKosong, Lokal
    <2>2. Terpegang(w)'
        BY <2>1, <1>a DEF Terpegang, Melayani
    <2>3. \A v \in Pekerja : Terpegang(v)'
        BY <2>2, <1>a, <1>b, TerpegangLain
    <2>4. ASSUME NEW e \in Peristiwa, Menunggu(e)' PROVE \E p \in Proses : Menanggung(p, e)'
        <3>1. Menunggu(e)
            BY <2>4, <1>a DEF Menunggu, PengirimanPesan
        <3>2. PICK p \in Proses : Menanggung(p, e)
            BY <3>1 DEF Selalu, Tertanggung
        <3>3. CASE p = w
            <4>1. lok[w].jawab = e[1]
                BY <3>2, <3>3, <1>a DEF Menanggung, AkanRekonsiliasi, Dipasangkan
            <4> QED
                BY <4>1, <2>1, <1>a DEF Menanggung
        <3>4. CASE p # w
            <4>1. AkanRekonsiliasi(p, e[1]) => AkanRekonsiliasi(p, e[1])'
                BY <3>4, <1>b DEF AkanRekonsiliasi
            <4> QED
                BY <4>1, <3>2, <3>4, <2>1 DEF Menanggung
        <3> QED
            BY <3>3, <3>4
    <2> QED
        BY <2>3, <2>4, <1>1, <1>a DEF Selalu, Tertanggung
<1> QED
    BY <1>2, <1>3

-----------------------------------------------------------------------------
\* A step of p with the events keeps the row and what is held of it.
LEMMA OlahBaris ==
    ASSUME IInv, Selalu, NEW p \in Proses, Olah(p)
    PROVE  /\ berlaku' = berlaku
           /\ baris'.kunci = baris.kunci /\ baris'.id = baris.id /\ baris'.terakhir = baris.terakhir
           /\ \A q \in Proses \ {p} : olah'[q] = olah[q]
           /\ olah[p].pc # "usai"
           /\ \/ lok' = lok
              \/ p \in Pekerja /\ Usai(p) /\ lok[p].pc = "rekon" /\ Selesai(p)
<1>a. TypeOK /\ baris \in Baris /\ olah \in [Proses -> Olahan]
    BY DEF IInv, TypeOK
<1>b. berlaku' = berlaku /\ olah[p].pc # "usai" /\ \A q \in Proses \ {p} : olah'[q] = olah[q]
    BY <1>a DEF Olah, Cocokkan, BacaKotak, Berikut, Selesai, Transisi, KeSetelahTransisi, BacaTerbaru,
                BacaJadwal, Percepat, Tandai, OlahKe, varsP
<1>c. baris' = baris \/ Percepat(p)
    BY DEF Olah, Cocokkan, BacaKotak, Berikut, Selesai, Transisi, BacaTerbaru, BacaJadwal, Tandai, varsP
<1>d. baris'.kunci = baris.kunci /\ baris'.id = baris.id /\ baris'.terakhir = baris.terakhir
    BY <1>a, <1>c DEF Percepat, Baris
<1>e. lok' = lok \/ Selesai(p)
    BY DEF Olah, Cocokkan, BacaKotak, Berikut, Transisi, BacaTerbaru, BacaJadwal, Percepat, Tandai, varsP
<1>f. Selesai(p) => lok' = lok \/ (p \in Pekerja /\ Usai(p))
    BY DEF Selesai
<1>g. p \in Pekerja => lok[p].pc = "rekon"
    BY <1>b DEF Selalu, Terpegang
<1> QED
    BY <1>b, <1>d, <1>e, <1>f, <1>g

LEMMA OlahTerpegang ==
    ASSUME IInv, Selalu, NEW p \in Proses, Olah(p)
    PROVE  \A w \in Pekerja : Terpegang(w)'
<1>a. /\ baris'.kunci = baris.kunci /\ baris'.id = baris.id
      /\ \A q \in Proses \ {p} : olah'[q] = olah[q]
      /\ olah[p].pc # "usai" /\ TypeOK
    BY OlahBaris DEF IInv
<1> SUFFICES ASSUME NEW w \in Pekerja PROVE Terpegang(w)'
    OBVIOUS
<1>b. Terpegang(w) /\ w \in Proses
    BY DEF Selalu, Proses
<1>1. CASE lok' = lok
    <2>1. olah'[w].pc # "usai" => lok'[w].pc = "rekon"
        BY <1>1, <1>a, <1>b DEF Terpegang
    <2> QED
        BY <2>1, <1>1, <1>a, <1>b DEF Terpegang, Melayani
<1>2. CASE p \in Pekerja /\ Usai(p) /\ lok[p].pc = "rekon" /\ Selesai(p)
    <2>1. CASE w = p
        <3>1. lok'[w] = LokKosong /\ olah'[w] = OlahKosong
            BY <1>2, <2>1, <1>a DEF Usai, Selesai, TypeOK
        <3>2. baris.kunci # w
            BY <1>2, <2>1, <1>b DEF Terpegang, Melayani
        <3> QED
            BY <3>1, <3>2, <1>a, <2>1, TerpegangUsai DEF OlahKosong
    <2>2. CASE w # p
        <3>1. lok'[w] = lok[w] /\ olah'[w] = olah[w]
            BY <1>2, <2>2, <1>a, <1>b DEF Usai, TypeOK
        <3> QED
            BY <3>1, <1>a, <1>b DEF Terpegang, Melayani
    <2> QED
        BY <2>1, <2>2
<1> QED
    BY <1>1, <1>2, OlahBaris

\* No step of p with the events moves a delivery.
LEMMA OlahKiriman ==
    ASSUME IInv, NEW p \in Proses, Olah(p)
    PROVE  /\ DOMAIN pengiriman' = DOMAIN pengiriman
           /\ \A i \in DOMAIN pengiriman :
                 /\ pengiriman'[i].pesan = pengiriman[i].pesan
                 /\ pengiriman'[i].dikirim = pengiriman[i].dikirim
<1>1. CASE Transisi(p) /\ pengiriman' # pengiriman
    <2>1. pengiriman' = Ditetapkan(p, olah[p].d)
        BY <1>1 DEF Transisi
    <2>2. \A i \in DOMAIN pengiriman : pengiriman[i] \in Kiriman
        BY DEF IInv, TypeOK
    <2>3. DOMAIN pengiriman' = DOMAIN pengiriman
        BY <2>1 DEF Ditetapkan
    <2>4. ASSUME NEW i \in DOMAIN pengiriman
          PROVE  pengiriman'[i].pesan = pengiriman[i].pesan /\ pengiriman'[i].dikirim = pengiriman[i].dikirim
        BY <2>1, <2>2 DEF Ditetapkan, Kiriman
    <2> QED
        BY <2>3, <2>4
<1>2. CASE pengiriman' = pengiriman
    BY <1>2
<1>3. pengiriman' = pengiriman \/ Transisi(p)
    BY DEF Olah, Cocokkan, BacaKotak, Berikut, Selesai, BacaTerbaru, BacaJadwal, Percepat, Tandai, varsP
<1> QED
    BY <1>1, <1>2, <1>3

LEMMA OlahDisusul ==
    ASSUME IInv, Selalu, NEW p \in Proses, Olah(p)
    PROVE  \A i \in DOMAIN pengiriman' : Disusul(i)'
<1> SUFFICES ASSUME NEW i \in DOMAIN pengiriman' PROVE Disusul(i)'
    OBVIOUS
<1>1. /\ i \in DOMAIN pengiriman /\ pengiriman'[i].pesan = pengiriman[i].pesan
      /\ pengiriman'[i].dikirim = pengiriman[i].dikirim
    BY OlahKiriman
<1>2. Disusul(i) /\ baris'.terakhir = baris.terakhir
    BY <1>1, OlahBaris DEF Selalu
<1>3. \A w \in Pekerja : lok[w].pc = "jadwalkan" => lok'[w] = lok[w]
    BY OlahBaris DEF Usai, IInv, TypeOK
<1> QED
    BY <1>1, <1>2, <1>3 DEF Disusul

\* The steps of p with an event leave every other event to whom it was.
LEMMA OlahTanggung ==
    ASSUME IInv, Selalu, NEW p \in Proses, Olah(p)
    PROVE  Tertanggung'
<1>a. /\ TypeOK /\ OlahSah(p) /\ olah \in [Proses -> Olahan] /\ olah[p] \in Olahan
      /\ olah[p].pc # "usai" /\ \A q \in Proses \ {p} : olah'[q] = olah[q]
    BY OlahBaris DEF IInv, TypeOK, SuratSah
<1> SUFFICES ASSUME NEW e \in Peristiwa, Menunggu(e)' PROVE \E q \in Proses : Menanggung(q, e)'
    BY DEF Tertanggung
<1>b. PengirimanPesan(e[1])' = PengirimanPesan(e[1])
    BY OlahKiriman DEF PengirimanPesan
<1>c. Menunggu(e) /\ (Tandai(p) => e # olah[p].e)
    <2>1. CASE Tandai(p)
        <3>1. kotak' = [kotak EXCEPT ![olah[p].e].sudah = TRUE]
            BY <2>1 DEF Tandai
        <3>2. \A x \in DOMAIN kotak : kotak[x] \in Laporan
            BY <1>a DEF TypeOK
        <3>3. e \in DOMAIN kotak /\ ~kotak'[e].sudah
            BY <3>1 DEF Menunggu
        <3>4. e # olah[p].e
            BY <3>1, <3>2, <3>3 DEF Laporan
        <3>5. kotak'[e] = kotak[e]
            BY <3>1, <3>3, <3>4
        <3> QED
            BY <3>3, <3>4, <3>5, <1>b DEF Menunggu
    <2>2. CASE ~Tandai(p)
        <3>1. kotak' = kotak
            BY <2>2 DEF Olah, Cocokkan, BacaKotak, Berikut, Selesai, Transisi, BacaTerbaru, BacaJadwal,
                        Percepat, varsP
        <3> QED
            BY <3>1, <2>2, <1>b DEF Menunggu
    <2> QED
        BY <2>1, <2>2
<1>d. PICK q \in Proses : Menanggung(q, e)
    BY <1>c DEF Selalu, Tertanggung
<1>1. CASE q # p
    <2>1. olah'[q] = olah[q]
        BY <1>1, <1>a
    <2>2. q \in Pekerja => lok'[q] = lok[q]
        BY <1>1, OlahBaris, <1>a DEF Usai, TypeOK
    <2>3. AkanRekonsiliasi(q, e[1]) => AkanRekonsiliasi(q, e[1])'
        BY <2>1, <2>2 DEF AkanRekonsiliasi
    <2> QED
        BY <2>1, <2>3, <1>d DEF Menanggung
<1>2. CASE q = p
    <2>a. \/ olah[p].pc \in Dipasangkan \cup {"cocokkan"} /\ olah[p].e = e
          \/ e \in olah[p].sisa
          \/ olah[p].pc = "rekon" /\ olah[p].pesan = e[1]
        <3>1. ~AkanRekonsiliasi(p, e[1])
            BY <1>a DEF AkanRekonsiliasi, Selalu, Terpegang
        <3> QED
            BY <3>1, <1>d, <1>2 DEF Menanggung
    <2>1. CASE Cocokkan(p)
        <3>1. e[1] = olah[p].pesan
            BY <2>a, <2>1, <1>a DEF Cocokkan, OlahSah
        <3>2. PengirimanPesan(olah[p].pesan) # {}
            BY <3>1, <1>c DEF Menunggu
        <3>3. PICK i \in PengirimanPesan(olah[p].pesan) :
                  olah' = [olah EXCEPT ![p].pc = "transisi", ![p].d = i, ![p].status = pengiriman[i].status]
            BY <2>1, <3>2 DEF Cocokkan
        <3>4. olah'[p].pc = "transisi" /\ olah'[p].e = olah[p].e /\ olah'[p].sisa = olah[p].sisa
            BY <3>3, <1>a DEF Olahan
        <3> QED
            BY <3>4, <2>a, <2>1 DEF Menanggung, Dipasangkan, Cocokkan
    <2>2. CASE BacaKotak(p)
        <3>1. olah[p].pc = "rekon" /\ olah'[p].pc = "selesai" /\ olah'[p].sisa = BelumDiolah(olah[p].pesan)
            BY <2>2, <1>a DEF BacaKotak, Olahan
        <3>2. e[1] = olah[p].pesan
            BY <2>a, <3>1, <1>a DEF Dipasangkan, OlahSah
        <3>3. e \in BelumDiolah(olah[p].pesan)
            BY <3>2, <1>c DEF BelumDiolah, Menunggu
        <3> QED
            BY <3>1, <3>3 DEF Menanggung
    <2>3. CASE Berikut(p)
        <3>1. PICK x \in olah[p].sisa :
                  olah' = [olah EXCEPT ![p].pc = "cocokkan", ![p].e = x, ![p].sisa = @ \ {x}]
            BY <2>3 DEF Berikut
        <3>2. olah'[p].pc = "cocokkan" /\ olah'[p].e = x /\ olah'[p].sisa = olah[p].sisa \ {x}
            BY <3>1, <1>a DEF Olahan
        <3>3. e \in olah[p].sisa
            BY <2>a, <2>3 DEF Berikut, Dipasangkan
        <3> QED
            BY <3>2, <3>3 DEF Menanggung
    <2>4. CASE Selesai(p)
        BY <2>a, <2>4 DEF Selesai, Dipasangkan
    <2>5. CASE Transisi(p) \/ BacaTerbaru(p) \/ Percepat(p)
        <3>1. /\ olah'[p].pc \in Dipasangkan /\ olah[p].pc \in Dipasangkan
              /\ olah'[p].e = olah[p].e /\ olah'[p].sisa = olah[p].sisa
            BY <2>5, <1>a DEF Transisi, KeSetelahTransisi, BacaTerbaru, Percepat, OlahKe, Olahan, Dipasangkan
        <3> QED
            BY <3>1, <2>a DEF Menanggung, Dipasangkan
    <2>6. CASE BacaJadwal(p)
        <3>1. /\ olah[p].pc = "pengingat" /\ olah'[p].sisa = olah[p].sisa /\ olah'[p].e = olah[p].e
              /\ olah'[p].pc \in {"tandai", "selesai", "percepat"}
              /\ olah'[p].pc = "selesai" => BelumTerjadwal(pengiriman[olah[p].d])
            BY <2>6, <1>a DEF BacaJadwal, OlahKe, Olahan
        <3>2. CASE e \in olah[p].sisa \/ olah'[p].pc # "selesai"
            BY <3>1, <3>2, <2>a DEF Menanggung, Dipasangkan
        <3>3. CASE e \notin olah[p].sisa /\ olah'[p].pc = "selesai"
            <4> DEFINE i == olah[p].d
            <4>1. e = olah[p].e /\ i \in DOMAIN pengiriman /\ pengiriman[i].pesan = e[1]
                BY <3>1, <3>3, <2>a, <1>a DEF OlahSah, Dipasangkan
            <4>2. ~(pengiriman[i].dikirim <= baris.terakhir)
                <5>1. pengiriman[i] \in Kiriman /\ baris \in Baris
                    BY <4>1, <1>a DEF TypeOK
                <5>2. pengiriman[i].dikirim \in Nat /\ baris.terakhir \in Nat
                    BY <5>1, BatasAssumption DEF Kiriman, Baris
                <5>3. baris.terakhir < pengiriman[i].dikirim
                    BY <3>1, <3>3 DEF BelumTerjadwal
                <5> QED
                    BY <5>2, <5>3
            <4>3. PICK w \in Pekerja : lok[w].pc = "jadwalkan" /\ lok[w].jawab = pengiriman[i].pesan
                BY <4>1, <4>2 DEF Selalu, Disusul
            <4>4. lok' = lok
                BY <2>6 DEF BacaJadwal, varsP
            <4> QED
                BY <4>1, <4>3, <4>4 DEF Menanggung, AkanRekonsiliasi, Proses
        <3> QED
            BY <3>2, <3>3
    <2>7. CASE Tandai(p)
        <3>1. olah'[p].pc = "selesai" /\ olah'[p].sisa = olah[p].sisa /\ olah[p].pc = "tandai"
            BY <2>7, <1>a DEF Tandai, OlahKe, Olahan
        <3>2. e \in olah[p].sisa
            BY <2>a, <2>7, <3>1, <1>c
        <3> QED
            BY <3>1, <3>2 DEF Menanggung
    <2> QED
        BY <2>1, <2>2, <2>3, <2>4, <2>5, <2>6, <2>7 DEF Olah
<1> QED
    BY <1>1, <1>2

\* A callback arrives at a handler, which takes it up.
LEMMA SelaluTerima ==
    ASSUME IInv, Selalu, NEW h \in Penerima, NEW m \in DOMAIN pesan, NEW s \in Hasil, Terima(h, m, s)
    PROVE  Selalu'
<1>a. /\ TypeOK /\ olah \in [Proses -> Olahan] /\ h \in Proses /\ h \notin Pekerja
      /\ olah[h].pc = "usai" /\ UNCHANGED <<berlaku, baris, pengiriman, lok>>
    BY PenerimaAssumption DEF IInv, TypeOK, Proses, Terima, varsP
<1>b. \A q \in Proses \ {h} : olah'[q] = olah[q]
    BY <1>a DEF Terima
<1>1. \A w \in Pekerja : Terpegang(w)'
    <2> SUFFICES ASSUME NEW w \in Pekerja PROVE Terpegang(w)'
        OBVIOUS
    <2>1. Terpegang(w) /\ olah'[w] = olah[w]
        BY <1>a, <1>b DEF Selalu, Proses
    <2> QED
        BY <2>1, <1>a DEF Terpegang, Melayani
<1>2. \A i \in DOMAIN pengiriman' : Disusul(i)'
    <2> SUFFICES ASSUME NEW i \in DOMAIN pengiriman PROVE Disusul(i)'
        BY <1>a
    <2>1. Disusul(i)
        BY DEF Selalu
    <2> QED
        BY <2>1, <1>a DEF Disusul
<1>3. ASSUME NEW e \in Peristiwa, Menunggu(e)' PROVE \E p \in Proses : Menanggung(p, e)'
    <2>1. CASE Menunggu(e)
        <3>1. PICK p \in Proses : Menanggung(p, e)
            BY <2>1 DEF Selalu, Tertanggung
        <3>2. p # h
            BY <3>1, <1>a DEF Menanggung, AkanRekonsiliasi, Dipasangkan
        <3>3. AkanRekonsiliasi(p, e[1]) => AkanRekonsiliasi(p, e[1])'
            BY <3>2, <1>a, <1>b DEF AkanRekonsiliasi
        <3> QED
            BY <3>1, <3>2, <3>3, <1>b DEF Menanggung
    <2>2. CASE ~Menunggu(e)
        <3>1. kotak' # kotak \/ ~Menunggu(e)'
            BY <2>2, <1>a DEF Menunggu, PengirimanPesan
        <3>2. PICK k : kotak' = Ditambah(kotak, <<m, s>>, [kode |-> k, terima |-> jam, sudah |-> FALSE])
            BY <3>1, <1>3 DEF Terima
        <3>3. <<m, s>> \notin DOMAIN kotak /\ olah'[h].pc = "cocokkan" /\ olah'[h].e = <<m, s>>
            BY <3>1, <1>3, <1>a DEF Terima, OlahKosong
        <3>4. e = <<m, s>>
            BY <2>2, <3>2, <3>3, <1>3, <1>a DEF Menunggu, PengirimanPesan, Ditambah
        <3> QED
            BY <3>3, <3>4, <1>a DEF Menanggung
    <2> QED
        BY <2>1, <2>2
<1> QED
    BY <1>1, <1>2, <1>3, <1>a DEF Selalu, Tertanggung

LEMMA SelaluTetap ==
    ASSUME Selalu, UNCHANGED <<berlaku, baris, pengiriman, lok, kotak, olah>>
    PROVE  Selalu'
<1>1. \A w \in Pekerja : Terpegang(w)'
    BY DEF Selalu, Terpegang
<1>2. \A i \in DOMAIN pengiriman' : Disusul(i)'
    BY DEF Selalu, Disusul
<1>3. Tertanggung'
    BY DEF Selalu, Tertanggung, Menunggu, PengirimanPesan, Menanggung, AkanRekonsiliasi
<1> QED
    BY <1>1, <1>2, <1>3 DEF Selalu

\* What fails, or changes the task, is counted and never forgotten.
LEMMA TenangMundur ==
    ASSUME TypeOK, [Next]_vars, Tenang'
    PROVE  /\ Tenang /\ rusak' = rusak /\ ubah' = ubah
<1>1. /\ rusak \in Nat /\ ubah \in Nat
      /\ rusak' = rusak \/ rusak' = rusak + 1
      /\ ubah' = ubah \/ ubah' = ubah + 1
    <2>1. CASE \E w \in Pekerja : Siklus(w)
        BY <2>1 DEF TypeOK, Siklus, Mulai, BacaTugas, BacaPengingat, Selaraskan, CariJatuhTempo, Klaim,
                    BacaKlaim, Lepas, Kirim, Ditolak, Jawaban, Gangguan, Catat, Jadwalkan, Gagal, Rusak
    <2>2. CASE \E w \in Pekerja : Rekonsiliasi(w) \/ Mogok(w)
        BY <2>2 DEF TypeOK, Rekonsiliasi, Mogok, Berhenti, Rusak
    <2>3. CASE \E p \in Proses : Olah(p)
        BY <2>3 DEF TypeOK, Olah, Cocokkan, BacaKotak, Berikut, Selesai, Transisi, BacaTerbaru,
                    BacaJadwal, Percepat, Tandai, varsP
    <2>4. CASE \E h \in Penerima : Putus(h) \/ \E m \in DOMAIN pesan, s \in Hasil : Terima(h, m, s)
        BY <2>4 DEF TypeOK, Putus, Rusak, Terima, varsP
    <2>5. CASE Detik \/ UbahTugas \/ UNCHANGED vars
        BY <2>5 DEF TypeOK, Detik, UbahTugas, vars, varsP
    <2> QED
        BY <2>1, <2>2, <2>3, <2>4, <2>5 DEF Next
<1> QED
    BY <1>1 DEF Tenang

LEMMA LangkahTInv ==
    ASSUME IInv, TInv, [Next]_vars, Tenang => \A w \in Pekerja : KlaimBebas(w)
    PROVE  TInv'
<1> SUFFICES ASSUME Tenang' PROVE Selalu'
    BY DEF TInv
<1>a. Selalu /\ (\A w \in Pekerja : KlaimBebas(w)) /\ rusak' = rusak /\ ubah' = ubah
      /\ rusak = 0 /\ ubah = 0
    BY TenangMundur DEF TInv, IInv, Tenang
<1>1. CASE (Detik \/ UbahTugas) /\ UNCHANGED <<kotak, olah>>
    BY <1>1, <1>a, SelaluTetap DEF Detik, UbahTugas
<1>2. ASSUME NEW w \in Pekerja, Siklus(w), UNCHANGED <<kotak, olah>> PROVE Selalu'
    <2>1. ~Ditolak(w) /\ ~Gangguan(w)
        BY <1>a DEF Ditolak, Gangguan, Rusak
    <2>2. ~Lepas(w) /\ ~Gagal(w)
        BY <1>a DEF Selalu, Terpegang, Lepas, Gagal
    <2> QED
        BY <1>2, <1>a, <2>1, <2>2, SelaluLokal, SelaluSelaraskan, SelaluKlaim, SelaluCatat, SelaluJadwalkan
           DEF Siklus
<1>3. CASE \E w \in Pekerja : Rekonsiliasi(w)
    BY <1>3, <1>a, SelaluRekonsiliasi
<1>4. CASE (\E w \in Pekerja : Mogok(w)) \/ (\E h \in Penerima : Putus(h))
    BY <1>4, <1>a DEF Mogok, Berhenti, Putus, Rusak
<1>5. ASSUME NEW p \in Proses, Olah(p) PROVE Selalu'
    <2>1. berlaku'
        BY <1>5, <1>a, OlahBaris DEF Selalu
    <2> QED
        BY <2>1, <1>5, <1>a, OlahTerpegang, OlahDisusul, OlahTanggung DEF Selalu
<1>6. CASE \E h \in Penerima, m \in DOMAIN pesan, s \in Hasil : Terima(h, m, s)
    BY <1>6, <1>a, SelaluTerima
<1>7. CASE UNCHANGED vars
    BY <1>7, <1>a, SelaluTetap DEF vars, varsP
<1> QED
    BY <1>1, <1>2, <1>3, <1>4, <1>5, <1>6, <1>7 DEF Next

LEMMA TInvTuntas == IInv /\ TInv => TiadaTertinggal
<1> SUFFICES ASSUME IInv, Selalu, \A p \in Proses : olah[p].pc = "usai",
                    \A w \in Pekerja : lok[w].pc = "istirahat",
                    NEW e \in DOMAIN kotak, PengirimanPesan(e[1]) # {}, ~kotak[e].sudah
             PROVE  FALSE
    BY DEF TInv, Tenang, TiadaTertinggal
<1>1. e \in Peristiwa /\ Menunggu(e)
    BY DEF IInv, TypeOK, Menunggu
<1>2. PICK p \in Proses : Menanggung(p, e)
    BY <1>1 DEF Selalu, Tertanggung
<1> QED
    BY <1>2 DEF Menanggung, AkanRekonsiliasi, Dipasangkan

\* While the lease outlasts the cycles, a callback about a recorded submission is
\* never left behind, however the handlers and the workers meet (TiadaTertinggal).
THEOREM TuntasBilaSewaCukup == Spec /\ SewaCukup => []TiadaTertinggal
<1>1. Spec /\ SewaCukup => []TInv
    <2>1. IInv /\ TInv /\ [Next]_vars /\ [Tenang => \A w \in Pekerja : KlaimBebas(w)]_vars => TInv'
        <3> SUFFICES ASSUME IInv, TInv, [Next]_vars, [Tenang => \A w \in Pekerja : KlaimBebas(w)]_vars
                     PROVE  TInv'
            OBVIOUS
        <3>1. CASE UNCHANGED vars
            BY <3>1, SelaluTetap DEF TInv, Tenang, vars, varsP
        <3>2. CASE Tenang => \A w \in Pekerja : KlaimBebas(w)
            BY <3>2, LangkahTInv
        <3> QED
            BY <3>1, <3>2
    <2> QED
        BY <2>1, InitTInv, Invarian, PTL DEF Spec, SewaCukup
<1> QED
    BY <1>1, TInvTuntas, Invarian, PTL

\* One instance has nobody to lose its lease to: nothing is left behind, without a
\* word about the lease (the setting of the run, for every value of the bounds).
COROLLARY TuntasSatuPekerja ==
    ASSUME NEW v, Pekerja = {v}
    PROVE  Spec => []TiadaTertinggal
<1>1. IInv /\ TInv /\ [Next]_vars => TInv'
    <2> SUFFICES ASSUME IInv, TInv, [Next]_vars PROVE TInv'
        OBVIOUS
    <2>1. ASSUME Tenang, NEW w \in Pekerja, Klaim(w) PROVE baris.kunci = Kosong
        <3>1. lok[w].pc = "klaim" /\ Terpegang(w)
            BY <2>1 DEF Klaim, TInv, Selalu
        <3>2. baris.kunci # w /\ baris.kunci \in Pekerja \cup {Kosong}
            BY <3>1 DEF Terpegang, Melayani, IInv, TypeOK, Baris
        <3> QED
            BY <3>2
    <2> QED
        BY <2>1, LangkahTInv DEF KlaimBebas
<1>2. Spec => []TInv
    BY <1>1, InitTInv, Invarian, PTL DEF Spec
<1> QED
    BY <1>2, TInvTuntas, Invarian, PTL

=============================================================================
