--------------------------------- MODULE Sesi ---------------------------------
(***************************************************************************)
(* The session of one account: the row of the account, the two cookies of  *)
(* each browser, and the API client of each page, which answers a 401 with *)
(* one refresh and one retry.  Login, refresh and logout read the row,     *)
(* start or revoke the session and store the new token in statements of    *)
(* their own, with no transaction around them.                             *)
(*                                                                         *)
(* A token is the version of the session it was signed for, 0 when there   *)
(* is none.  The secrets hashed are JWTs of one account, whose first 72    *)
(* bytes, all that bcrypt reads, are the same: a refresh token matches     *)
(* whatever hash the row has (Cocok).                                      *)
(***************************************************************************)
EXTENDS Integers, FiniteSets

CONSTANTS
    Peramban,       \* browsers: a jar of cookies each
    Laman,          \* pages open in them
    Milik,          \* the browser of each page
    Minta,          \* slots for API requests in flight
    Kerja,          \* slots for logins, refreshes and logouts in flight
    MaxUlah,        \* bound on logins, logouts and requests
    MaxRusak,       \* bound on answers that never come
    Kosong          \* null

ASSUME SesiAssumption ==
    /\ Milik \in [Laman -> Peramban]
    /\ MaxUlah \in Nat /\ MaxRusak \in Nat
    /\ Kosong \notin Laman \cup Kerja \cup Peramban

VARIABLES
    akun,           \* sesiTokenVersion, and whether refreshTokenHash is set
    kuki,           \* kuki[b]: access_token and refresh_token
    laman,          \* laman[l]: a user in the store, and refreshPromise
    minta,          \* requests that pass the JwtAuthGuard
    kerja,          \* /auth/login, /auth/refresh and /auth/logout
    ulah, rusak,    \* what is left of the bounds
    riwayat         \* history: the session of a browser is "hidup" (opened and
                    \* disturbed by nothing), "mati" (ended, and nothing under
                    \* way that could bring it back) or "usik"

vars == <<akun, kuki, laman, minta, kerja, ulah, rusak, riwayat>>
server == <<akun, riwayat>>
klien == <<kuki, laman, minta>>
batas == <<ulah, rusak>>

PermintaanApi == [laman : Laman \cup {Kosong}, tahap : {"server", "401", "tulis", "tunggu"},
                  akses : Nat, ulang : BOOLEAN]
KerjaAkun == [jenis : {"masuk", "segar", "keluar"}, laman : Laman \cup {Kosong},
              langkah : {"periksa", "mulai", "simpan", "cabut", "jawab"},
              token : Nat, versi : Nat, akses : Nat, bersih : BOOLEAN]

Baris == [versi : Nat, hash : BOOLEAN]
Kuki == [akses : Nat, segar : Nat]
Halaman == [masuk : BOOLEAN, segar : Kerja \cup {Kosong}]
Nasib == {"hidup", "mati", "usik"}

ASSUME KosongAssumption == Kosong \notin PermintaanApi \cup KerjaAkun

TypeOK ==
    /\ akun \in Baris
    /\ kuki \in [Peramban -> Kuki]
    /\ laman \in [Laman -> Halaman]
    /\ minta \in [Minta -> PermintaanApi \cup {Kosong}]
    /\ kerja \in [Kerja -> KerjaAkun \cup {Kosong}]
    /\ ulah \in Nat /\ rusak \in Nat
    /\ riwayat \in [Peramban -> Nasib]

TanpaKuki == [akses |-> 0, segar |-> 0]

\* The session is open in one browser, in all its pages.
Init ==
    /\ akun = [versi |-> 1, hash |-> TRUE]
    /\ \E b \in Peramban :
       /\ kuki = [x \in Peramban |-> IF x = b THEN [akses |-> 1, segar |-> 1] ELSE TanpaKuki]
       /\ laman = [l \in Laman |-> [masuk |-> Milik[l] = b, segar |-> Kosong]]
       /\ riwayat = [x \in Peramban |-> IF x = b THEN "hidup" ELSE "mati"]
    /\ minta = [m \in Minta |-> Kosong]
    /\ kerja = [k \in Kerja |-> Kosong]
    /\ ulah = MaxUlah /\ rusak = MaxRusak

\* A page that has given up, or was left, waits for no answer.
Ditunggu(f, x) == f[x] # Kosong /\ f[x].laman # Kosong
MintaDari(b) == {m \in Minta : Ditunggu(minta, m) /\ Milik[minta[m].laman] = b}
KerjaDari(b) == {k \in Kerja : Ditunggu(kerja, k) /\ Milik[kerja[k].laman] = b}
Penunggu(l) == {m \in Minta : minta[m] # Kosong /\ minta[m].laman = l /\ minta[m].tahap = "tunggu"}

\* JwtAccessStrategy.validate.
AksesSah(t) == t # 0 /\ t = akun.versi

\* bcrypt.compare of a refresh token with refreshTokenHash.
Cocok(t) == t # 0 /\ akun.hash

\* The checks of refreshSession.
SegarSah(t) == Cocok(t) /\ t = akun.versi

-----------------------------------------------------------------------------
(***************************************************************************)
(* The row of the account.  Whoever raises the version ends every session  *)
(* but the one it is for; k is the job that does, or Kosong.               *)
(***************************************************************************)
RiwayatNaik(k, pemilik) ==
    [b \in Peramban |->
        IF KerjaDari(b) \ {k} # {} THEN "usik"
        ELSE IF b # pemilik THEN "mati"
        ELSE IF \E m \in MintaDari(b) : minta[m].ulang THEN "usik"
        ELSE riwayat[b]]

\* Jobs under way when another raises the version are no longer alone.
Tersela(k) ==
    [j \in Kerja |-> IF j = k \/ kerja[j] = Kosong THEN kerja[j]
                     ELSE [kerja[j] EXCEPT !.bersih = FALSE]]

\* startSession, revokeSession and updateKataSandi.
Naik(k, pemilik) ==
    /\ akun' = [versi |-> akun.versi + 1, hash |-> FALSE]
    /\ riwayat' = RiwayatNaik(k, pemilik)

-----------------------------------------------------------------------------
(***************************************************************************)
(* Jobs on the session.  A job takes the refresh token along when it is    *)
(* sent.                                                                   *)
(***************************************************************************)
SlotKerja == CHOOSE k \in Kerja : kerja[k] = Kosong
AdaSlotKerja == \E k \in Kerja : kerja[k] = Kosong

MulaiKerja(jenis, l, langkah, token) ==
    LET b == Milik[l] IN
    /\ AdaSlotKerja
    /\ kerja' = [kerja EXCEPT ![SlotKerja] =
                    [jenis |-> jenis, laman |-> l, langkah |-> langkah,
                     token |-> token, versi |-> 0, akses |-> 0,
                     bersih |-> KerjaDari(b) = {} /\ (jenis = "keluar" => token # 0)]]
    /\ riwayat' = IF riwayat[b] = "hidup" /\ KerjaDari(b) # {}
                  THEN [riwayat EXCEPT ![b] = "usik"] ELSE riwayat

Pada(k, jenis, langkah) ==
    kerja[k] # Kosong /\ kerja[k].jenis = jenis /\ kerja[k].langkah = langkah

Ke(k, langkah) == kerja' = [kerja EXCEPT ![k].langkah = langkah, ![k].token = 0]

\* A login whose password is right; a page has one under way at most.
Masuk(l) ==
    /\ ulah > 0
    /\ ~laman[l].masuk
    /\ \A k \in Kerja : kerja[k] # Kosong => ~(kerja[k].jenis = "masuk" /\ kerja[k].laman = l)
    /\ MulaiKerja("masuk", l, "mulai", 0)
    /\ ulah' = ulah - 1
    /\ UNCHANGED <<akun, klien, rusak>>

Keluar(l) ==
    /\ ulah > 0
    /\ laman[l].masuk
    /\ MulaiKerja("keluar", l, "periksa", kuki[Milik[l]].segar)
    /\ ulah' = ulah - 1
    /\ UNCHANGED <<akun, klien, rusak>>

\* refreshSession up to bcrypt.compare.
SegarPeriksa(k) ==
    /\ Pada(k, "segar", "periksa")
    /\ Ke(k, IF SegarSah(kerja[k].token) THEN "mulai" ELSE "jawab")
    /\ UNCHANGED <<server, klien, batas>>

\* Mutant: a refresh keeps the version it was asked with.
MulaiSesiTanpaRotasi(k) ==
    /\ kerja[k] # Kosong /\ kerja[k].langkah = "mulai"
    /\ IF kerja[k].jenis = "segar" THEN UNCHANGED server ELSE Naik(k, Kosong)
    /\ kerja' = [Tersela(k) EXCEPT ![k].langkah = "simpan", ![k].versi = akun'.versi]
    /\ UNCHANGED <<klien, batas>>

\* startSession: the refresh token is signed for the version it returns.
MulaiSesi(k) ==
    /\ kerja[k] # Kosong /\ kerja[k].langkah = "mulai"
    /\ Naik(k, IF kerja[k].jenis = "segar" /\ kerja[k].laman # Kosong
               THEN Milik[kerja[k].laman] ELSE Kosong)
    /\ kerja' = [Tersela(k) EXCEPT ![k].langkah = "simpan", ![k].versi = akun'.versi]
    /\ UNCHANGED <<klien, batas>>

\* Mutant: the access token is signed for the row read by the check.
SimpanTokenBarisLama(k) ==
    /\ kerja[k] # Kosong /\ kerja[k].langkah = "simpan"
    /\ akun' = [akun EXCEPT !.hash = TRUE]
    /\ kerja' = [kerja EXCEPT ![k].langkah = "jawab", ![k].akses = kerja[k].versi - 1]
    /\ UNCHANGED <<klien, batas, riwayat>>

\* storeRefreshToken: the access token is signed for the version of the row it
\* returns.
SimpanToken(k) ==
    /\ kerja[k] # Kosong /\ kerja[k].langkah = "simpan"
    /\ akun' = [akun EXCEPT !.hash = TRUE]
    /\ kerja' = [kerja EXCEPT ![k].langkah = "jawab", ![k].akses = akun.versi]
    /\ UNCHANGED <<klien, batas, riwayat>>

\* logout up to bcrypt.compare; the version is not compared.
KeluarPeriksa(k) ==
    /\ Pada(k, "keluar", "periksa")
    /\ Ke(k, IF Cocok(kerja[k].token) THEN "cabut" ELSE "jawab")
    /\ UNCHANGED <<server, klien, batas>>

\* Mutant: a revocation that drops the refresh token and leaves the version.
CabutSegarSaja(k) ==
    /\ Pada(k, "keluar", "cabut")
    /\ akun' = [akun EXCEPT !.hash = FALSE]
    /\ riwayat' = RiwayatNaik(k, Kosong)
    /\ kerja' = [Tersela(k) EXCEPT ![k].langkah = "jawab"]
    /\ UNCHANGED <<klien, batas>>

\* revokeSession.
Cabut(k) ==
    /\ Pada(k, "keluar", "cabut")
    /\ Naik(k, Kosong)
    /\ kerja' = [Tersela(k) EXCEPT ![k].langkah = "jawab"]
    /\ UNCHANGED <<klien, batas>>

\* Nobody waits for the answer: the job stops, at its end or with its server.
Hilang(k) ==
    /\ kerja[k] # Kosong /\ kerja[k].laman = Kosong
    /\ kerja' = [kerja EXCEPT ![k] = Kosong]
    /\ UNCHANGED <<server, klien, batas>>

-----------------------------------------------------------------------------
(***************************************************************************)
(* The API client of a page.                                               *)
(***************************************************************************)
KirimMinta(l) ==
    /\ ulah > 0
    /\ laman[l].masuk
    /\ \E m \in Minta : minta[m] = Kosong
    /\ minta' = [minta EXCEPT ![CHOOSE m \in Minta : minta[m] = Kosong] =
                    [laman |-> l, tahap |-> "server", akses |-> kuki[Milik[l]].akses,
                     ulang |-> FALSE]]
    /\ ulah' = ulah - 1
    /\ UNCHANGED <<server, kuki, laman, kerja, rusak>>

MintaPada(m, tahap) == minta[m] # Kosong /\ minta[m].tahap = tahap

Akhiri(m) == minta' = [minta EXCEPT ![m] = Kosong]

Tahap(m, t) == minta' = [minta EXCEPT ![m].tahap = t, ![m].akses = 0]

\* JwtAuthGuard.  A request let through is answered at once, unless its handler
\* compares a secret of the user first.
Layani(m) ==
    /\ MintaPada(m, "server")
    /\ IF AksesSah(minta[m].akses) THEN Akhiri(m) \/ Tahap(m, "tulis") ELSE Tahap(m, "401")
    /\ UNCHANGED <<server, kuki, laman, kerja, batas>>

\* changePassword.
TulisSandi(m) ==
    /\ MintaPada(m, "tulis")
    /\ Naik(Kosong, Kosong)
    /\ kerja' = Tersela(Kosong)
    /\ Akhiri(m)
    /\ UNCHANGED <<kuki, laman, batas>>

\* changePassword and the PINs of tte-profil answer a wrong secret with 401 too.
RahasiaSalah(m) ==
    /\ MintaPada(m, "tulis")
    /\ Tahap(m, "401")
    /\ riwayat' = [b \in Peramban |->
                      IF m \in MintaDari(b) /\ riwayat[b] = "hidup" THEN "usik" ELSE riwayat[b]]
    /\ UNCHANGED <<akun, kuki, laman, kerja, batas>>

\* waitForRefresh: join the refresh of the page, or start it.
TungguSegar(m) ==
    /\ MintaPada(m, "401") /\ ~minta[m].ulang
    /\ LET l == minta[m].laman IN
       /\ l # Kosong
       /\ Tahap(m, "tunggu")
       /\ IF laman[l].segar # Kosong
          THEN UNCHANGED <<laman, kerja, riwayat>>
          ELSE /\ MulaiKerja("segar", l, "periksa", kuki[Milik[l]].segar)
               /\ laman' = [laman EXCEPT ![l].segar = SlotKerja]
    /\ UNCHANGED <<akun, kuki, batas>>

\* handleUnauthorizedSession: unless the page is at the login already, it is loaded
\* anew and waits for nothing it has sent.
Dimuat(l) ==
    IF laman[l].masuk THEN {TRUE}
    ELSE IF \E k \in Kerja : kerja[k] # Kosong /\ kerja[k].jenis = "masuk" /\ kerja[k].laman = l
    THEN {FALSE} ELSE BOOLEAN

\* The requests of W end with the page l put on the login; r is left of the job k.
Usir(l, W, k, r, muat) ==
    LET lepas(f, x) == f[x] # Kosong /\ f[x].laman = l /\ muat
    IN  /\ minta' = [m \in Minta |->
                       IF m \in W THEN Kosong
                       ELSE IF ~lepas(minta, m) THEN minta[m]
                       ELSE IF minta[m].tahap = "tunggu" THEN Kosong
                       ELSE [minta[m] EXCEPT !.laman = Kosong]]
        /\ kerja' = [j \in Kerja |->
                       IF j = k THEN r
                       ELSE IF ~lepas(kerja, j) THEN kerja[j]
                       ELSE [kerja[j] EXCEPT !.laman = Kosong]]
        /\ laman' = [laman EXCEPT ![l] =
                       [masuk |-> FALSE,
                        segar |-> IF muat \/ laman[l].segar = k THEN Kosong ELSE laman[l].segar]]

\* The retry is refused as well.
UlangDitolak(m) ==
    /\ MintaPada(m, "401") /\ minta[m].ulang
    /\ LET l == minta[m].laman IN
       /\ l # Kosong
       /\ \E muat \in Dimuat(l) : Usir(l, {m}, Kosong, Kosong, muat)
    /\ UNCHANGED <<server, kuki, batas>>

\* The answer to a request nobody waits for.
MintaHilang(m) ==
    /\ MintaPada(m, "401") /\ minta[m].laman = Kosong
    /\ Akhiri(m)
    /\ UNCHANGED <<server, kuki, laman, kerja, batas>>

\* Mutant: refreshPromise is not set back to null.
LamanSegarTertahan(l) == laman

\* finally of waitForRefresh.
LamanSegarUsai(l) == [laman EXCEPT ![l].segar = Kosong]

\* Both cookies are set, then the waiting requests are sent again.
SegarJawab(k) ==
    /\ Pada(k, "segar", "jawab") /\ kerja[k].laman # Kosong
    /\ kerja[k].versi # 0
    /\ LET l == kerja[k].laman IN
       /\ kuki' = [kuki EXCEPT ![Milik[l]] = [akses |-> kerja[k].akses, segar |-> kerja[k].versi]]
       /\ laman' = LamanSegarUsai(l)
       /\ minta' = [m \in Minta |->
                      IF m \in Penunggu(l)
                      THEN [minta[m] EXCEPT !.tahap = "server", !.akses = kerja[k].akses,
                                            !.ulang = TRUE]
                      ELSE minta[m]]
    /\ kerja' = [kerja EXCEPT ![k] = Kosong]
    /\ UNCHANGED <<server, batas>>

SegarDitolak(k) ==
    /\ Pada(k, "segar", "jawab") /\ kerja[k].laman # Kosong
    /\ kerja[k].versi = 0
    /\ LET l == kerja[k].laman
       IN  \E muat \in Dimuat(l) : Usir(l, Penunggu(l), k, Kosong, muat)
    /\ UNCHANGED <<server, kuki, batas>>

MasukJawab(k) ==
    /\ Pada(k, "masuk", "jawab") /\ kerja[k].laman # Kosong
    /\ LET l == kerja[k].laman
           b == Milik[l]
           tenang == /\ kerja[k].bersih /\ KerjaDari(b) = {k}
                     /\ \A m \in MintaDari(b) : ~minta[m].ulang
       IN  /\ kuki' = [kuki EXCEPT ![b] = [akses |-> kerja[k].akses, segar |-> kerja[k].versi]]
           /\ laman' = [laman EXCEPT ![l].masuk = TRUE]
           /\ riwayat' = [riwayat EXCEPT ![b] = IF tenang THEN "hidup" ELSE "usik"]
    /\ kerja' = [kerja EXCEPT ![k] = Kosong]
    /\ UNCHANGED <<akun, minta, batas>>

\* clearCookie, then the store.
KeluarJawab(k) ==
    /\ Pada(k, "keluar", "jawab") /\ kerja[k].laman # Kosong
    /\ LET l == kerja[k].laman
           b == Milik[l]
           tuntas == kerja[k].bersih /\ KerjaDari(b) = {k}
       IN  /\ kuki' = [kuki EXCEPT ![b] = TanpaKuki]
           /\ laman' = [laman EXCEPT ![l].masuk = FALSE]
           /\ riwayat' = [riwayat EXCEPT ![b] =
                             IF tuntas \/ riwayat[b] = "mati" THEN "mati" ELSE "usik"]
    /\ kerja' = [kerja EXCEPT ![k] = Kosong]
    /\ UNCHANGED <<akun, minta, batas>>

-----------------------------------------------------------------------------
(***************************************************************************)
(* Answers that never come, tokens that expire, and navigation.            *)
(***************************************************************************)
TerusDiServer(k) == [kerja[k] EXCEPT !.laman = Kosong]

Rusak(b) ==
    /\ rusak > 0 /\ rusak' = rusak - 1
    /\ riwayat' = [riwayat EXCEPT ![b] = IF @ = "hidup" THEN "usik" ELSE @]

\* The page gives up on a login or a logout (REQUEST_TIMEOUT, a network error),
\* which may go on at the server; a logout is finished in the page all the same.
KerjaPutus(k) ==
    /\ Ditunggu(kerja, k) /\ kerja[k].jenis # "segar"
    /\ LET l == kerja[k].laman IN
       /\ Rusak(Milik[l])
       /\ IF kerja[k].jenis = "keluar"
          THEN laman' = [laman EXCEPT ![l].masuk = FALSE] ELSE UNCHANGED laman
    /\ kerja' = [kerja EXCEPT ![k] = TerusDiServer(k)]
    /\ UNCHANGED <<akun, kuki, minta, ulah>>

\* A refresh has no timeout; if its fetch fails it counts as refused.
SegarPutus(k) ==
    /\ Ditunggu(kerja, k) /\ kerja[k].jenis = "segar"
    /\ LET l == kerja[k].laman IN
       /\ Rusak(Milik[l])
       /\ \E muat \in Dimuat(l) : Usir(l, Penunggu(l), k, TerusDiServer(k), muat)
    /\ UNCHANGED <<akun, kuki, ulah>>

\* The fetch of a request fails or times out.
MintaPutus(m) ==
    /\ rusak > 0
    /\ Ditunggu(minta, m) /\ minta[m].tahap \in {"server", "tulis"}
    /\ \/ minta' = [minta EXCEPT ![m].laman = Kosong]
       \/ Akhiri(m)
    /\ rusak' = rusak - 1
    /\ UNCHANGED <<server, kuki, laman, kerja, ulah>>

\* The access token lives much longer than the retry that follows its issue.
AksesHabis(b) ==
    /\ kuki[b].akses # 0
    /\ \A m \in MintaDari(b) : ~minta[m].ulang
    /\ kuki' = [kuki EXCEPT ![b].akses = 0]
    /\ minta' = [m \in Minta |-> IF m \in MintaDari(b) /\ minta[m].tahap = "server"
                                 THEN [minta[m] EXCEPT !.akses = 0] ELSE minta[m]]
    /\ UNCHANGED <<server, laman, kerja, batas>>

\* The refresh token expires long after the access token, in a browser left alone.
SegarHabis(b) ==
    /\ kuki[b].akses = 0 /\ kuki[b].segar # 0
    /\ MintaDari(b) = {} /\ KerjaDari(b) = {}
    /\ kuki' = [kuki EXCEPT ![b].segar = 0]
    /\ riwayat' = [riwayat EXCEPT ![b] = IF riwayat[b] = "hidup" THEN "mati" ELSE @]
    /\ UNCHANGED <<akun, laman, minta, kerja, batas>>

\* syncAuthFromCookie before a route is entered: /auth/me never refreshes.
Navigasi(l) ==
    /\ laman[l].masuk # AksesSah(kuki[Milik[l]].akses)
    /\ laman' = [laman EXCEPT ![l].masuk = ~@]
    /\ UNCHANGED <<server, kuki, minta, kerja, batas>>

-----------------------------------------------------------------------------
LangkahKerja(k) ==
    \/ SegarPeriksa(k) \/ MulaiSesi(k) \/ SimpanToken(k) \/ KeluarPeriksa(k) \/ Cabut(k)
    \/ SegarJawab(k) \/ SegarDitolak(k) \/ MasukJawab(k) \/ KeluarJawab(k) \/ Hilang(k)
LangkahMinta(m) ==
    \/ Layani(m) \/ TulisSandi(m) \/ RahasiaSalah(m)
    \/ TungguSegar(m) \/ UlangDitolak(m) \/ MintaHilang(m)

Next ==
    \/ \E k \in Kerja : LangkahKerja(k) \/ KerjaPutus(k) \/ SegarPutus(k)
    \/ \E m \in Minta : LangkahMinta(m) \/ MintaPutus(m)
    \/ \E b \in Peramban : AksesHabis(b) \/ SegarHabis(b)
    \/ \E l \in Laman : \/ Masuk(l) \/ Keluar(l) \/ Navigasi(l)
                        \/ KirimMinta(l)

\* The server works and answers are delivered: something of what is under way goes
\* on.  Users, expiry and failures are free.
Spec ==
    /\ Init /\ [][Next]_vars
    /\ WF_vars(\/ \E k \in Kerja : LangkahKerja(k)
               \/ \E m \in Minta : LangkahMinta(m))

-----------------------------------------------------------------------------
\* At most one browser holds, or is about to be given, a refresh token that the
\* server would accept: startSession hands each version out once and a rotation
\* takes the old token out of use, however logins and refreshes overlap.
SatuSesi ==
    LET pemegang == {b \in Peramban : kuki[b].segar = akun.versi}
        bakal == {k \in Kerja : Ditunggu(kerja, k) /\ kerja[k].versi = akun.versi}
    IN  Cardinality(pemegang) + Cardinality(bakal) <= 1

\* A session that was ended (by its logout, by a change of the password, or by a
\* login or refresh elsewhere), while nothing of its browser was under way, stays
\* ended until the next login there: no request already sent is let through, no
\* cookie left behind opens anything, and no refresh brings it back.
PutusTuntas ==
    \A b \in Peramban : riwayat[b] = "mati" =>
        /\ ~AksesSah(kuki[b].akses) /\ ~SegarSah(kuki[b].segar)
        /\ \A m \in MintaDari(b) : minta[m].tahap = "server" => ~AksesSah(minta[m].akses)
        /\ \A k \in KerjaDari(b) : kerja[k].jenis = "segar" =>
              kerja[k].versi = 0 /\ (kerja[k].langkah = "periksa" => ~SegarSah(kerja[k].token))

\* The repair of a 401 (one refresh, one retry) never costs a page a session that is
\* alive and that nothing disturbs, however many requests wait for it: a page of such
\* a session forgets its user at a navigation only, whose check (/auth/me) refreshes
\* nothing, and only with an access token that expired or is being replaced.  Two
\* refreshes of one browser at a time disturb a session ("usik").
UsirBeralasan ==
    [][\A l \in Laman :
          LET b == Milik[l] IN
          /\ riwayat[b] = "hidup" /\ riwayat'[b] = "hidup"
          /\ laman[l].masuk /\ ~laman'[l].masuk
          => /\ Navigasi(l)
             /\ kuki[b].akses = 0 \/ \E k \in KerjaDari(b) : kerja[k].jenis = "segar"]_vars

\* Every request ends: answered, given up, or with its page put on the login; none
\* waits for ever for a refresh, and none is repeated for ever.
MintaBerakhir == \A m \in Minta : minta[m] # Kosong ~> minta[m] = Kosong
=============================================================================
