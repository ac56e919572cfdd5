------------------------------ MODULE Organisasi ------------------------------
(***************************************************************************)
(* OPDs and the accounts of their people: the services of penyusun,        *)
(* kepala-opd and opd.  A request reads and checks outside any             *)
(* transaction, then writes a row by its key; between the two any other    *)
(* request may commit.  No unique key or trigger guards the slots of       *)
(* Kepala OPD and PJ Penyusun.  A null field of a PATCH is left as it is.  *)
(***************************************************************************)
EXTENDS FiniteSets

CONSTANTS
    Opd,
    Pengguna,       \* ids of accounts
    Permintaan,     \* requests that can be served at a time
    Kosong          \* null

PeranPenyusun == {"PENYUSUN", "PJ_PENYUSUN"}
Peran == PeranPenyusun \cup {"KEPALA_OPD"}
Status == {"AKTIF", "NONAKTIF"}

\* The row of an account.
Akun == [peran : Peran, opd : Opd, aktif : BOOLEAN]

ASSUME KosongAssumption == Kosong \notin Opd \cup Pengguna \cup Akun

VARIABLES
    opd,            \* opd[o]: "belum" (no row), "aktif" or "terhapus" (deletedAt)
    akun,           \* akun[u]: peran, opdId and deletedAt IS NULL
    riwayat,        \* riwayat[u]: OPDs with a RiwayatOpdPengguna, and with isAktif
    tx,             \* tx[p]: what p has checked and will write
    tumpang         \* history: two requests have been served at the same time

vars == <<opd, akun, riwayat, tx, tumpang>>

TanpaRiwayat == [baris |-> {}, aktif |-> {}]

Init ==
    /\ opd = [o \in Opd |-> "belum"]
    /\ akun = [u \in Pengguna |-> Kosong]
    /\ riwayat = [u \in Pengguna |-> TanpaRiwayat]
    /\ tx = [p \in Permintaan |-> Kosong]
    /\ tumpang = FALSE

Terdaftar(u, peran) == akun[u] # Kosong /\ akun[u].peran \in peran

Pejabat(peran, o) ==
    {u \in Pengguna : Terdaftar(u, {peran}) /\ akun[u].aktif /\ akun[u].opd = o}

\* assertNoOtherPjPenyusunInOpd, assertNoOtherKepalaAktifInOpd.
SlotKosong(peran, o, kecuali) == Pejabat(peran, o) \subseteq kecuali

\* resolveDeletedAtFromStatus.
AktifSetelah(aktif, st) == IF st = Kosong THEN aktif ELSE st = "AKTIF"

\* Mutant: the upsert does not reactivate the row of an OPD one returns to.
SinkronTanpaUlang(r, o) ==
    [baris |-> r.baris \cup {o}, aktif |-> IF o \in r.baris THEN {} ELSE {o}]

\* syncActiveRiwayatOpd.
Sinkron(r, o) == [baris |-> r.baris \cup {o}, aktif |-> {o}]

\* markRiwayatOpdTidakAktif.
TidakAktif(r, o) == [baris |-> r.baris \cup {o}, aktif |-> r.aktif \ {o}]

Mulai(p, t) ==
    /\ tx[p] = Kosong
    /\ tx' = [tx EXCEPT ![p] = t]
    /\ tumpang' = (tumpang \/ \E q \in Permintaan \ {p} : tx[q] # Kosong)
    /\ UNCHANGED <<opd, akun, riwayat>>

Usai(p) == tx' = [tx EXCEPT ![p] = Kosong] /\ UNCHANGED tumpang

\* The request fails or its transaction is rolled back.
Batal(p) ==
    /\ tx[p] # Kosong
    /\ Usai(p)
    /\ UNCHANGED <<opd, akun, riwayat>>

-----------------------------------------------------------------------------
(***************************************************************************)
(* create of penyusun and of kepala OPD.                                   *)
(***************************************************************************)
MulaiBuat(p, u, peran, o) ==
    /\ akun[u] = Kosong
    /\ opd[o] = "aktif"
    /\ peran # "PENYUSUN" => SlotKosong(peran, o, {})
    /\ Mulai(p, [op |-> "buat", u |-> u, peran |-> peran, opd |-> o])

\* createWithRiwayatOpd.
Buat(p) ==
    /\ tx[p] # Kosong /\ tx[p].op = "buat"
    /\ LET t == tx[p] IN
       /\ akun[t.u] = Kosong
       /\ akun' = [akun EXCEPT ![t.u] = [peran |-> t.peran, opd |-> t.opd, aktif |-> TRUE]]
       /\ riwayat' = [riwayat EXCEPT ![t.u] = Sinkron(TanpaRiwayat, t.opd)]
    /\ Usai(p)
    /\ UNCHANGED opd

-----------------------------------------------------------------------------
(***************************************************************************)
(* update, nonaktifkan and aktifkan of penyusun, remove of kepala OPD:     *)
(* one row is updated by its id.                                           *)
(***************************************************************************)
Ubahan(u, peran, st) == [op |-> "ubah", u |-> u, peran |-> peran, st |-> st]

\* The slot is looked at only when the role becomes PJ_PENYUSUN.
MulaiUbahPenyusun(p, u, peran, st) ==
    /\ Terdaftar(u, PeranPenyusun)
    /\ LET jadiPj == peran = "PJ_PENYUSUN" /\ akun[u].peran # "PJ_PENYUSUN"
       IN  jadiPj => /\ AktifSetelah(akun[u].aktif, st)
                     /\ SlotKosong("PJ_PENYUSUN", akun[u].opd, {u})
    /\ Mulai(p, Ubahan(u, peran, st))

MulaiNonaktifkan(p, u) ==
    /\ Terdaftar(u, PeranPenyusun) /\ akun[u].aktif
    /\ Mulai(p, Ubahan(u, Kosong, "NONAKTIF"))

MulaiAktifkan(p, u) ==
    /\ Terdaftar(u, PeranPenyusun) /\ ~akun[u].aktif
    /\ akun[u].peran = "PJ_PENYUSUN" => SlotKosong("PJ_PENYUSUN", akun[u].opd, {u})
    /\ Mulai(p, Ubahan(u, Kosong, "AKTIF"))

MulaiHapusKepala(p, u) ==
    /\ Terdaftar(u, {"KEPALA_OPD"})
    /\ Mulai(p, Ubahan(u, Kosong, "NONAKTIF"))

Perbarui(a, peran, st) ==
    [a EXCEPT !.peran = IF peran = Kosong THEN @ ELSE peran, !.aktif = AktifSetelah(@, st)]

Ubah(p) ==
    /\ tx[p] # Kosong /\ tx[p].op = "ubah"
    /\ akun' = [akun EXCEPT ![tx[p].u] = Perbarui(@, tx[p].peran, tx[p].st)]
    /\ Usai(p)
    /\ UNCHANGED <<opd, riwayat>>

-----------------------------------------------------------------------------
(***************************************************************************)
(* pindah of penyusun; update of kepala OPD, which moves, changes the      *)
(* status, or both.                                                        *)
(***************************************************************************)
Pindahan(u, asal, tujuan, st, sinkron) ==
    [op |-> "pindah", u |-> u, asal |-> asal, tujuan |-> tujuan, st |-> st, sinkron |-> sinkron]

MulaiPindah(p, u, o) ==
    /\ Terdaftar(u, PeranPenyusun) /\ akun[u].aktif
    /\ opd[o] = "aktif" /\ o # akun[u].opd
    /\ akun[u].peran = "PJ_PENYUSUN" => SlotKosong("PJ_PENYUSUN", o, {})
    /\ Mulai(p, Pindahan(u, akun[u].opd, o, Kosong, Kosong))

\* Mutant: a Kepala OPD comes back whoever holds the office by now.
KembaliBebas(u, st) == TRUE

\* Coming back needs the slot of the OPD the account belongs to.
BolehKembali(u, st) ==
    st = "AKTIF" /\ ~akun[u].aktif => SlotKosong("KEPALA_OPD", akun[u].opd, {u})

MulaiUbahKepala(p, u, o, st) ==
    /\ Terdaftar(u, {"KEPALA_OPD"})
    /\ LET pindah == o \notin {Kosong, akun[u].opd}
       IN  /\ pindah => /\ akun[u].aktif
                        /\ opd[o] = "aktif"
                        /\ SlotKosong("KEPALA_OPD", o, {u})
           /\ BolehKembali(u, st)
           /\ Mulai(p, Pindahan(u, akun[u].opd, IF pindah THEN o ELSE Kosong, st,
                                IF st = "AKTIF" /\ ~akun[u].aktif THEN akun[u].opd ELSE Kosong))

Pindahkan(a, o, st) ==
    [a EXCEPT !.opd = IF o = Kosong THEN @ ELSE o, !.aktif = AktifSetelah(@, st)]

\* pindahPenyusun and persistUpdate.
Pindah(p) ==
    /\ tx[p] # Kosong /\ tx[p].op = "pindah"
    /\ LET t == tx[p]
           r == IF t.tujuan = Kosong THEN riwayat[t.u]
                ELSE Sinkron(TidakAktif(riwayat[t.u], t.asal), t.tujuan)
       IN  /\ akun' = [akun EXCEPT ![t.u] = Pindahkan(@, t.tujuan, t.st)]
           /\ riwayat' = [riwayat EXCEPT ![t.u] = IF t.sinkron = Kosong THEN r
                                                  ELSE Sinkron(r, t.sinkron)]
    /\ Usai(p)
    /\ UNCHANGED opd

-----------------------------------------------------------------------------
(***************************************************************************)
(* create and softDelete of an OPD.                                        *)
(***************************************************************************)
BuatOpd(o) ==
    /\ opd[o] = "belum"
    /\ opd' = [opd EXCEPT ![o] = "aktif"]
    /\ UNCHANGED <<akun, riwayat, tx, tumpang>>

\* Mutant: only the people who are there now are in the way.
TanpaOrang(o) == \A u \in Pengguna : akun[u] # Kosong /\ akun[u].opd = o => ~akun[u].aktif

\* summarizeBlockingRelations, as far as people go.
TanpaRelasi(o) ==
    \A u \in Pengguna :
        /\ akun[u] # Kosong /\ akun[u].opd = o => ~akun[u].aktif
        /\ o \notin riwayat[u].baris

MulaiHapusOpd(p, o) ==
    /\ opd[o] = "aktif"
    /\ TanpaRelasi(o)
    /\ Mulai(p, [op |-> "hapusOpd", opd |-> o])

HapusOpd(p) ==
    /\ tx[p] # Kosong /\ tx[p].op = "hapusOpd"
    /\ opd' = [opd EXCEPT ![tx[p].opd] = "terhapus"]
    /\ Usai(p)
    /\ UNCHANGED <<akun, riwayat>>

-----------------------------------------------------------------------------
MulaiAkun(p, u) ==
    \/ \E peran \in Peran, o \in Opd : MulaiBuat(p, u, peran, o)
    \/ \E peran \in PeranPenyusun \cup {Kosong}, st \in Status \cup {Kosong} :
           MulaiUbahPenyusun(p, u, peran, st)
    \/ MulaiNonaktifkan(p, u) \/ MulaiAktifkan(p, u) \/ MulaiHapusKepala(p, u)
    \/ \E o \in Opd : MulaiPindah(p, u, o)
    \/ \E o \in Opd \cup {Kosong}, st \in Status \cup {Kosong} : MulaiUbahKepala(p, u, o, st)

Tulis(p) == Buat(p) \/ Ubah(p) \/ Pindah(p) \/ HapusOpd(p)

Next ==
    \/ \E o \in Opd : BuatOpd(o)
    \/ \E p \in Permintaan :
           \/ \E u \in Pengguna : MulaiAkun(p, u)
           \/ \E o \in Opd : MulaiHapusOpd(p, o)
           \/ Tulis(p)
           \/ Batal(p)

Spec == Init /\ [][Next]_vars

-----------------------------------------------------------------------------
(***************************************************************************)
(* Properties.                                                             *)
(***************************************************************************)
\* What a request may be about to write.
Transaksi ==
    [op : {"buat"}, u : Pengguna, peran : Peran, opd : Opd]
    \cup [op : {"ubah"}, u : Pengguna, peran : PeranPenyusun \cup {Kosong},
          st : Status \cup {Kosong}]
    \cup [op : {"pindah"}, u : Pengguna, asal : Opd, tujuan : Opd \cup {Kosong},
          st : Status \cup {Kosong}, sinkron : Opd \cup {Kosong}]
    \cup [op : {"hapusOpd"}, opd : Opd]

\* Types of the tables.
TypeOK ==
    /\ opd \in [Opd -> {"belum", "aktif", "terhapus"}]
    /\ akun \in [Pengguna -> Akun \cup {Kosong}]
    /\ riwayat \in [Pengguna -> [baris : SUBSET Opd, aktif : SUBSET Opd]]
    /\ tx \in [Permintaan -> Transaksi \cup {Kosong}]
    /\ tumpang \in BOOLEAN

\* The history of an account has one active row, that of its OPD: for penyusun
\* under any interleaving, for a Kepala OPD while requests come one at a time.
RiwayatSelaras ==
    \A u \in Pengguna :
        Terdaftar(u, IF tumpang THEN PeranPenyusun ELSE Peran)
            => riwayat[u].aktif = {akun[u].opd}

\* BUSINESS-SPEC.md:631: one active Kepala OPD per OPD, while requests come one
\* at a time (create, move, reactivation and combinations of them).
SatuKepalaPerOpd ==
    ~tumpang => \A o \in Opd : \A u, v \in Pejabat("KEPALA_OPD", o) : u = v

\* Requests one at a time: nobody is active in a deleted OPD, although no
\* reactivation asks whether the OPD still exists.
AktifDiOpdHidup ==
    ~tumpang => \A u \in Pengguna :
        akun[u] # Kosong /\ akun[u].aktif => opd[akun[u].opd] = "aktif"
=============================================================================
