# SOPFlow in TLA+

SOPFlow manages the standard operating procedures (SOP) of the organisational
units (OPD) of a local government: authors write an SOP in versions, evaluators
score the versions submitted to them, officials sign them electronically, and
the signed version in force is published. This directory holds TLA+ modules of
the server's workflow, of the reminders it sends, of the sessions, and of the
editor that runs in the browser, the TLC configurations that check them on small instances, and
proofs checked by TLAPS. All paths below are relative to the
repository (`src/`); the names of states, fields and actions are those of the
code where TLA+ allows it, so most are Indonesian.

## 1. The system

The server (`server/src`, NestJS with Prisma on MariaDB 11.4) holds all the
durable state; the client (`client/src`, React) is a view over its HTTP
interface, with the editor's autosave, the layout of the diagrams and the repair
of refused requests as its only logic of weight.

| Component | State | Operations | Modelled in |
|---|---|---|---|
| SOP catalogue (`modules/sop/catalog`) | `SOP`, `DetailSOP` (`status`, `versi`) | create, clone into a revision, change status, revoke, send again after a revision, delete | `SopStatus`, `SopCatalog` |
| Evaluation (`modules/evaluation`) | `PengajuanEvaluasi` (`status`, `version`), `NilaiEvaluasi` (`hasil`, `statusTindakLanjut`, `version`) | open a submission, score, close a remark, finish, reject | `Evaluasi` |
| Signing (`modules/tte`) | `DokumenTte`, `RiwayatTte` | sign the Berita Acara (two roles), sign all versions of a submission | `Tte` |
| Official PDF files (`modules/sop/pdf`) | files of the storage directory, `DokumenTte.pdfPath` | write, publish, compensate, sweep | `SopPdf` |
| Reminders and webhooks (`modules/notifications`) | `PengingatWhatsApp` with its lease, `PengirimanNotifikasiWhatsApp`, `WagoWebhookEvent` | reconcile, claim, send, record, schedule, fail, receive a callback, reconcile callbacks | `Pengingat`, `WagoWebhook` |
| Editor and autosave (`modules/sop/prosedur`, `diagram`; `client/.../editor`) | `DetailSOP.prosedurRevision`, `diagramRevision`, steps, overrides; in the browser rows, baseline, timers, query cache | open, type, autosave, flush, hand over, edit a diagram, change the tab | `SopEditor`, `DiagramEditor` |
| Organisation (`modules/organisasi`, users) | `OPD`, `Pengguna`, `RiwayatOpdPengguna` | create, change, move, deactivate, reactivate, delete | `Organisasi` |
| BPMN layout (`client/.../diagram`) | columns of the shapes | connect, rank, push, make distinct, straighten, reset | `TataLetak` |
| PDF rendering and PKCS#7 | none | pure functions of bytes | no |
| Sessions (`modules/core/auth`; `client/.../shared/api`, `authStore`) | `Pengguna.sesiTokenVersion`, `refreshTokenHash`; cookies; in the page the user of the store and `refreshPromise` | login, refresh, logout, change of password; request, wait for a refresh, retry, give up | `Sesi` |
| Reference data, reports, public site | single rows, read-only queries | CRUD behind role checks | no |
| Rest of the client | view state | none the server relies on | no |

The components share the database. The catalogue and the editor work on a
version until it is handed in (`MENUNGGU_PENGAJUAN_EVALUASI`); a submission
takes versions of one OPD into evaluation and keeps the OPD busy until it ends;
a remark (`PERLU_PERBAIKAN`) sends a version back to its authors, who send it
again; a finished submission is signed by the PJ Evaluator, the PJ Penyusun and
the Kepala OPD, whose signature puts every version of it into force and
archives the versions they replace. The signing writes files before it commits.
The reminders read the submissions and never change them. The editor and the
catalogue meet in `DetailSOP.status`: a version that was handed in is no longer
editable. The diagrams refer to the steps of the procedure by id, and a save of the
procedure that sends the steps gives all of them new ids. The slots of the organisation (one
Kepala OPD, one PJ Penyusun per OPD) decide who may sign. Every request of a page
passes the guard of its session, and a refused one is repaired by the page.

What is hard in it is concurrency. The server runs many requests at a time, and
an operation reads and checks before it writes, in a service outside any
transaction or in a transaction at REPEATABLE READ whose plain reads see a
snapshot and whose writes act on the current rows. Some writes compare what was
read (`updateMany` with a status or a version, a unique key), some name a row by
its key only. One row is ever locked explicitly: `SELECT ... FOR UPDATE` of the
OPD when a submission is opened. Files and rows cannot be written atomically.
The reminders run in every server instance on a timer and are kept apart by
leases that may run out while the provider is called; the provider reports the
fate of a message by a callback that can overtake the answer to the call. In the
browser, timers, answers, renders and the user interleave. A session is checked,
raised and stored in separate statements, and one account may be used from several
pages and browsers.
`PROJECT.json` lists the hazards one by one, at their lines.

What makes each component correct:

- catalogue: one revision of an SOP at a time, terminal versions stay terminal,
  a version in force is not revoked under a revision in progress;
- evaluation: one active submission per OPD, finished only with every score
  `SESUAI`, rejected means rejected for every version, no score overwritten
  unseen, a version sent again only after its remarks are dealt with, and every
  submission past evaluation can be signed on;
- signing: signatures in order, at most one version of an SOP in force, none
  without its signatures and its published PDF, never back from the archive;
- files: a published file is there, only unreferenced files are deleted, and
  all of these in the end;
- reminders: a recipient never gets two messages of a reminder closer than the
  interval unless one was rejected; no callback lost, or consumed for nothing; an
  outcome decided once;
- editor: no edit left behind without a timer, a write or a shown failure; a
  write replaces only what its author had been shown by the server; the hand-over
  never silently skips an edit; overrides of a diagram name steps that exist;
- organisation: the placement history follows the account; one active Kepala OPD
  per OPD; nobody active in a deleted OPD;
- sessions: one refresh token accepted at a time, an ended session stays ended, the
  repair of a refused request costs no page a session that is alive, every request
  ends;
- layout: no two shapes in one place, a lane read from left to right.

## 2. Modules

`SopStatus` holds the enumerations and the transition table of
`sop-status-policy.ts`. Every rule of that table is open to some role, so the
model leaves the roles out; which user sends a request is open throughout.

`SopData` declares the shared tables as variables and the shape of the
transactions. A version row is named `<<sop, k>>`, `k` its order of creation
(`status[d]`, `versi[d]`, `pdf[d]`); `pengajuan[pg]` is a submission,
`nilai[pg][d]` the score of `d` in it; `ttdBa[pg]` and `ttdSop` are the
`RiwayatTte` rows of the Berita Acara and of the SOP documents. `tx[p]` is the
operation request `p` has begun, with what it read and will still use. Every
operation is therefore two actions: `MulaiX` (start: the reads and the checks)
and `X` (the writes, the checks at commit and the commit). Between the two any
other request may commit. `Batal` ends an operation without effect: an error
answer, a rollback, a deadlock victim, a lost connection or a crash; nothing but
the rows survives, so one action stands for all of them.

`SopCatalog`, `Evaluasi` and `Tte` hold the actions; each names its handler in a
comment and `PROJECT.json` maps it to its lines. Three of them deserve a word:

- `KirimUlang` takes three steps, since the service checks the status before a
  transaction whose snapshot (`BacaUmpanBalik`) is later again. The code passes
  through `MENUNGGU_PENGAJUAN_EVALUASI` inside the transaction; nobody sees it.
- `MulaiBuatPengajuan` waits for the lock on the OPD row (`OpdBebas`); the
  workspace of the evaluator and the PJ Penyusun reach the same code.
- The signing of the Kepala OPD has two transactions (`SiapkanPengesahan`, then
  `MulaiFinalisasi`/`Finalisasi`). The loop over the batch signs one version
  after another and each replaces the others of its SOP in force; the action
  picks the version of each SOP that comes last (`TerakhirPerSop`). The PDF
  status of the replaced versions is set from the snapshot, their version status
  from the current rows, and so is the model.

`SopFlow` composes the three (`Next`: any request takes a step) and states the
properties. `ArsipSop` is the abstract specification: the archive the public
sees, where a version is unpublished, in force, then archived for ever. The
refinement mapping `Keadaan` reads it off `status` and `ttdSop`.

`SopBalapan` adds to the workflow the history variable `balapan`, the races that have
happened so far. There are four, since four operations commit on what they read before
without looking again: a version is sent back to its evaluator after its evaluation
ended (`KIRIM_ULANG_BASI`), an SOP is revoked while its final signing is between
snapshot and commit (`CABUT_MENYELA`), a remark is committed while the evaluation is
being finished (`NILAI_MENYELA`), a score is written over one its author has not read
(`NILAI_TERTIMPA`). The properties that a race breaks are stated in it up to the first
race that matters to them (`...TanpaBalapan`). A single request at a time cannot race,
so they contain what holds of such a server.

`SopPdf` is a module of its own: what the signing does to files between its two
transactions, and the sweeper. A signing attempt is an element of `Upaya`; its
file for version `d` is `<<u, d>>`, since every path holds a random attempt id,
and `rujukan[d]` names the attempt whose file is `pdfPath` of `d`. `Finalisasi`
here is the same commit as `Finalisasi` of `Tte`, seen from the files; the
compare-and-set on the submission makes it one step. `CommitAmbigu` says whether
a commit can succeed while the caller gets an error (a connection lost during
COMMIT). A file becomes stale (`Menua`) only when its attempt is over: the grace
period is at least two hours and must exceed the longest attempt
(`.agents/engineering.md:86`).

Not modelled in these components: header edits and the copying of content (they
change no status), whether the content of a version is complete (both outcomes
are open), PIN, certificate and role checks (guards on one user), the audit
logs.

`Pengingat` is one reminder, that is one `(submission, user, kind)`, since
reminders of different tasks share nothing. `baris` is its row (or none),
`lok[w]` the cycle of server instance `w`: `reconcile` reads the task and the row
in two queries, then creates or deletes; `processDue` finds, claims (`Klaim`, the
compare-and-set on the lease), reads again, sends, records and schedules. Time is
an integer that `Detik` advances; every comparison with the clock is the code's.
The provider is external: `pesan[k]` is when it accepted idempotency key `k`, and
a second call with the same key is answered `DUPLICATE_MESSAGE`. `Gangguan`,
`Ditolak` and `Berhenti` are the ways a call or an instance fails. In-app
notifications and the message texts are left out.

`WagoWebhook` adds the callbacks: `kotak` is the durable inbox, `olah[p]` the
events that a callback handler or a worker is applying. A worker reconciles the
inbox after it committed a schedule, a handler applies what it can at once and
leaves the rest. The check of the signature is left out. `PengirimanBerkala` is
the abstract specification of both: messages spaced by `Jarak`, or after a
reported rejection by `JarakTolak`. The mapping takes `jam` and `pesan` as they
are and reads the rejections off the inbox.

`SopEditor` is one version with several editors. The server part (`prosedur`,
`diagram`, `minta`) has the steps of a PATCH: the status check outside the
transaction, the transaction with its claim on the revision, the read of the
workbench for the answer. The browser part (`pn[c]`) is `useSingleWriterAutosave`
as a state machine over rows `draf`, baseline `dasar`, the timer `tick`, the loop
under way `kirim`; `Kuras` is the head of its loop, `Efek` the effect of a
render. `wb[c]` is the query cache, whose revision every save sends. A procedure has
two sections (`Ruas`): the actors (`pelaksana`) and the steps (`langkah`). A save
sends the sections that differ from the baseline (`Berubah`) and the server replaces
those and leaves the others as they are, so two editors of different sections do not
replace each other's rows, though they compete for the one revision. An edit changes
one section. What a procedure may name (actors of the OPD, steps of the same list) is
not modelled; such a save may be refused at any time (`Periksa`). A workbench response
reads the row of the version before its sections; except at the opening of the page
(`Buka`, `Muat`) the model reads them together. The
autosave of the header, the edit log, the transparent retry of a serialisation
error (P2034) and the flash "saved" are left out; a page is opened once per
editor. `Selesaikan` and `Serahkan` are `handleComplete` before and after its
flush.

`DiagramEditor` adds the two diagrams (`dg[c]`): their own autosave, which does
not wait for a save under way, and the tabs. The overrides are those of arrows. They
name the generation of steps (`gen`) they were drawn on; a save drops those of steps
that are gone, and a save of the steps deletes the rest with the steps they join
(`onDelete: Cascade`, `schema.prisma:669`); a save of the actors alone deletes none.
Overrides of labels are left out because none can be stored: the positions a page
sends are those it loaded (`use-penyusun-diagram-config.ts:224`), a save keeps only
labels whose key is that of an arrow it keeps (`diagram-edge-key.util.ts:213`), and such
a key, made of two ids of steps, does not fit the column (`kunciLabel`, 8 characters,
`schema.prisma:698`). A row another program left in that table has no foreign key to the
steps: it outlives a save of the steps, and the next save of its diagram deletes it.
What is proved of overrides is not said of them.

`Organisasi` has the accounts (`akun`), the placement history (`riwayat`) and the
OPDs; every service reads and checks (`MulaiX`) and then writes by key (`X`).
Evaluators, names and e-mail addresses, permanent deletion and the other reasons
not to delete an OPD are left out.

`TataLetak` computes the columns of a BPMN diagram, one action per pass of
`computeBpmnLayout`. Lanes are numbered as the page orders them, by first use.
Decisions stand between the first and the last row, which the editor keeps as
terminators; their branches may point anywhere, themselves and nowhere included,
because neither the editor nor the server refuses it. A decision that is made a task
again (`JadikanTugas`), or comes to stand at an end because a row was deleted
(`HapusBaris`), keeps its branches in the rows of the page, and the diagram follows its
Ya instead of going on to the next row, forward or back. Its Tidak draws nothing and is
forgotten in the model. Widths in pixels are left
out: the two passes that depend on them move nothing once a lane has one shape
per column. `hashId`, which orders edges that are otherwise alike, is the constant
`Sidik`; `MCTataLetak` gives it the values of identifiers with one digit. Routing of
arrows and the flowchart are not modelled.

`Sesi` is one account, used from the browsers `Peramban` and their pages `Laman`.
`akun` is its row, `kuki[b]` the two cookies of a browser, where a token stands for
the version it was signed for. `kerja[k]` is a call of `/auth/login`,
`/auth/refresh` or `/auth/logout`, which goes through its statements one by one
(`SegarPeriksa`, `MulaiSesi`, `SimpanToken`; `KeluarPeriksa`, `Cabut`) until its
answer sets or clears the cookies (`...Jawab`, `SegarDitolak`). `minta[m]` is any
other request: `Layani` is the guard, `TungguSegar` the shared refresh of the page,
`SegarJawab` repeats what waited for it, `UlangDitolak` gives up; `Usir` is
`handleUnauthorizedSession`, whose navigation drops what the page was waiting for
unless it is at the login already (`Dimuat`). `Naik` is the statement that
`startSession`, `revokeSession` and `updateKataSandi` share. `riwayat[b]` is a
history variable: what became of the session of a browser, as far as its own calls
and those of others tell. Left out: logins with a wrong password, deactivated
accounts, roles, and the details of expiry, which may come at any time except, for
the access token, between its issue and the retry that follows, and, for the refresh
token, while its browser is busy. The logout compares no version, and the hash
function reads a prefix that all refresh tokens of an account share, so `Cocok` asks
only whether a hash is stored; the refresh compares the version as well
(`SegarSah`).

The `MC...` modules give the constants their values; the `..._proofs` modules
hold the theorems. Definitions named after a comment "mutant" are wrong variants
of the operator that follows them; no specification uses them, and each shows
that a property notices the bug it stands for.

## 3. Runs

| Run | Instance | What it shows |
|---|---|---|
| `Bersamaan` | 1 SOP, 3 rows, 2 submissions, 2 requests at a time | under concurrency `SatuBerlakuPerSop`, `PengesahanLengkap` and the refinement `ArsipTerjaga`; up to the races they name `SatuRevisiTanpaBalapan`, `SatuAktifTanpaBalapan`, `PdfSelarasTanpaBalapan`, `TerminalTanpaBalapan` |
| `DuaSop` | 2 SOPs of 1 row, 1 submission, 2 requests at a time, scores filled in twice | up to the races they name `DapatDitandatanganiTanpaBalapan`, `SelesaiSesuaiTanpaBalapan`, `TolakTetapTanpaBalapan`, `MajuTanpaBalapan` |
| `Pdf` | 2 versions, 2 attempts, 1 crash, sweeps of 4 files | while no commit reports an error: `PublikasiTersedia`, `SapuAman`, and under fairness `YatimTerhapus` |
| `Sewa` | 2 instances, leases of 1, 2 rows, 3 messages, 1 failure | the refinement `JarakAntarPesan`, and `JadwalMaju`: an instance that lost its lease takes nothing back |
| `Webhook` | 1 instance, 1 handler, 2 messages, 2 events, 1 failure | `KotakSelaras`, `TiadaTertinggal`, `HasilTetap`, and `JarakAntarPesan` with rejections |
| `Editor` | 2 editors, one of both sections and one of the steps, 1 failure, a late read of the workbench | `TiadaUbahanTerlantar`, `TersimpanDiServer`, `TimpaYangTerkirim`, `SerahJujur` |
| `Diagram` | 1 editor, both diagrams, 1 edit of the steps, 2 edits of a diagram, 1 failure | `OverrideSesuaiLangkah`, `DiagramTakMundur`, and under fairness `TakMenggantung`, `SiramBerakhir`, `DiagramTakMenggantung` |
| `Organisasi` | 2 OPDs, 2 accounts, 2 requests | `RiwayatSelaras`; while requests come one at a time `SatuKepalaPerOpd` and `AktifDiOpdHidup` |
| `TataLetak` | up to 5 rows in any lanes, rows plus rows with branches (decisions, and tasks that kept a Ya) at most 6, 2 seeds | `DorongTuntas`, `SatuPerKolom`, `ArahBaca` |
| `Sesi` | 2 browsers, 3 pages, 2 requests and 3 calls at a time, 2 logins, logouts or requests, 1 lost answer | `SatuSesi`, `PutusTuntas`, `UsirBeralasan`, and under fairness `MintaBerakhir` |
| `Temuan_nilai` | 2 requests on one score | violation: two evaluators of the same version of a score both succeed, though BUSINESS-SPEC.md:384 promises an optimistic lock |
| `Temuan_timpa` | 2 editors | violation: a save replaces a procedure its author never saw, though `docs/concurrency-testing-sop.md:13` promises an explicit conflict |

Bounds. `MaxBaris` of `SopFlow` limits the rows of an SOP: two give a version in
force and its revision, and the third is needed for two clones of one version at
once. `MaxVersiNilai` limits how often a score is filled in: two is enough for a remark
and its correction (`DuaSop`), and `Bersamaan`, where rows and submissions matter,
makes do with one. Two requests let every pair of operations race. What a third adds
is a race that leaves a stale operation behind for another to run into, as in the third
row of the next table; the instance with 3 requests, 1 SOP of 1 row, 2 submissions and
scores filled in twice was checked once (1.1 million states): all its properties hold
up to the races they name, which is what `SopUrut_proofs` shows for any number of them. `MaxMati` counts crashes; `BatasSapu` is
100 in the code and 4 in `Pdf` (every file). `MaxJam` ends the clock of the
reminders: 3 instants with `Sewa` 1, `Jarak` 2 and `JarakTolak` 1 let a lease run
out during a call, a message become due again and a rejection bring one forward.
`MaxRusak` counts failed calls and stops: one is enough for each of them to fall
between any two steps. `MaxPesan`, `MaxPeristiwa`, `MaxUbah` and `MaxSegar` count
what the provider accepts and reports, changes of a task or edits, and reads of
the workbench. `MaxUbah[c][u]` of the editors says among how many of the first edits of
`c` one of section `u` may be: the first editor of `Editor` edits the actors or the
steps and then the steps, the second the steps, which makes saves of one section and
of both, over a revision of the other (1.8 million states). In `Diagram` only the steps
are edited, which is what overrides depend on. `MaxUlah` of `Sesi` counts logins, logouts and requests, a refresh
follows from them; the instance with 3 of them, no lost answer and 2 calls at a time
was checked once (about 2 million states). `MaxBobot` of `TataLetak` counts rows plus rows with branches of
their own.
Requests, submissions, instances and accounts are interchangeable, so most runs
without liveness use symmetry. The inductive invariants of section 4 (`IInv` of
each component) were checked on the same instances before they were proved.

`CHECK_DEADLOCK FALSE`: requests come from users, timers and the provider; an
instance runs out of rows, submissions, attempts, edits or time.

Fairness. Nothing obliges users to act, so `SopFlow`, `Organisasi` and the
reminders have no fairness. `SpecAdil` of `SopPdf` assumes that a started request
ends, that time passes, that the timer of the sweeper fires, and that the
database and the disk, asked about the same file again and again, answer at some
time (strong fairness per file): the sweeper is a `setInterval` whose `tick`
survives errors and starts anew at boot. `FairE` and `FairD` of the editors
assume that a timer that is armed fires (`setTimeout`), that a request somebody
waits for is served and its answer handled (the client gives up after a timeout,
which is an answer too), and that `handleComplete` goes on once its flush has
returned. Nothing is assumed of a request the client gave up on. `Sesi` has one weak
fairness condition on all steps of calls and requests together: as long as something
is under way, something of it goes on (the server works and answers are delivered);
logins, expiry, lost answers and navigation are free.

### What does not hold

These statements of documents or comments are broken by the code. Each was a
counterexample of TLC on the instance given, or is visible in one action.

| Statement | Instance | The code does |
|---|---|---|
| finished only if every score is `SESUAI` (DB-INVARIANTS.md:40) | `SelesaiBerartiSesuai` (without the condition of `SelesaiSesuaiTanpaBalapan`): as `Temuan_nilai`, 2 requests | a score committed between the read and the commit of `selesai` stays (`evaluasi-nilai.service.ts:413`) |
| a rejected version is final (DB-INVARIANTS.md:27) | `TerminalTetap` (without the condition of `TerminalTanpaBalapan`): as `Temuan_nilai`, 2 requests | a resubmission whose status was checked earlier brings it back (`sop-catalog.repository.ts:635`) |
| optimistic locking on `PengajuanEvaluasi.version` (DB-INVARIANTS.md:45) | `PengajuanMaju` and `SatuPengajuanAktifPerOpd` (without the condition of `MajuTanpaBalapan` and `SatuAktifTanpaBalapan`): `Bersamaan` with `MaxBaris = 2`, `Proses <- TigaProses`, 3 requests | a version sent back late lets a stale `selesai` through, which puts a signed submission back (`evaluasi-nilai.service.ts:414`), even one of an OPD that has another by now |
| a version is sent again after its remarks are dealt with (BUSINESS-SPEC.md:447) | `KirimUlang` | the request closes the open remark itself (`sop-catalog.repository.ts:602`) |
| `DIAJUKAN_EVALUASI` comes before a submission (BUSINESS-SPEC.md:105) | `MulaiBuatPengajuan` | no operation accepts a version in that status |
| no revocation under a revision (BUSINESS-SPEC.md:327) | 2 requests | a revision is cloned between the search and the commit (`sop-catalog.service.ts:126`) |
| published files are not deleted by accident (`.agents/engineering.md:79`) | `PublikasiTersedia`: `Pdf` with `Dokumen <- SatuDokumen`, `CommitAmbigu = TRUE` | an error of a commit that succeeded deletes them (`tte-penandatanganan.service.ts:274`) |
| unreferenced files are cleaned up (same line) | `YatimTerhapus`: `Pdf` with `Paket <- PaketTerpisah`, `BatasSapu = 1` | published files that come first use up the limit of every sweep (`sop-pdf-storage.service.ts:100`) |
| no callback is consumed against an uncommitted schedule (`.agent/specs/2026-08-13-wago-delivery-webhook-design.md:120`) | `PenolakanTakTertimpa`: as `Webhook` | after a failed `markSuccess`, `markFailure` releases the lease; a rejection is consumed against the schedule of the failure and the retry writes over it |
| one PJ Penyusun per OPD (BUSINESS-SPEC.md:632) | `MulaiUbahPenyusun` | a PATCH to `AKTIF` does not look at the slot (`penyusun.service.ts:114`) |
| one active Kepala OPD per OPD | `SatuKepalaPerOpd` without the condition on `tumpang`, 2 requests | both find the slot empty (`kepala-opd.service.ts:45`) |
| an edit is refused once a version was handed over (BUSINESS-SPEC, 4.2) | `TulisProsedur` | a save that passed the check before the hand-over commits after it (`sop-prosedur.service.ts:50`) |
| loopbacks are left out of the ranking (`bpmn-graph-layer.util.ts:102`, `:218`) | `GeserSatu` | the target of a branch that points back is moved right of its decision as well, and everything behind it follows |
| branches of a decision advance (`bpmn-graph-layer.util.ts:101`) | rows in lanes 1, 1, 1, 2, row 2 a decision to 1 and 4 | so they do until the columns of a lane are made distinct, which may move the decision and not its target: `ArahBaca` is about edges within a lane |
| token refresh is handled before a route is entered (comment at `__root.tsx:101`) | `Navigasi` | `/auth/me` is excluded from the repair of a 401 (`api-client.ts:151`), so a page loaded after the access token expired goes to the login although its refresh token is good |
| a wrong old password shows an error (`docs/end-to-end-test.md:83`) | `RahasiaSalah` | it is answered 401 (`auth.service.ts:101`; the PIN likewise, `tte-profil.service.ts:73`), which the client takes for an expired session: it refreshes, sends the request again and puts the page on the login |
| after a logout the session is over (`docs/usecase-scenario/logout.md`) | `PutusTuntas` without the condition on what is under way | a refresh of the same browser under way raises the version after the logout, or the logout reads the row between `startSession` and `storeRefreshToken`, where there is no hash, and does nothing (`auth.service.ts:157`) |

Behaviours a reader should know, none of them against a document: a flush returns
normally after a failed write, so `handleComplete` goes on with unsaved edits,
though the failure is on the screen (`SerahJujur` says that much); a refused save
of a diagram is later shown as saved, and a change of tab within the debounce
drops the edits of the other diagram; two pages of one browser that refresh at
the same time end each other's retry, and one of them goes to the login
(`UsirBeralasan` is about sessions that nothing disturbs, and counts this as a
disturbance, like a lost answer or a 401 for a wrong secret); a page loaded or
navigated to with an expired access token goes to the login as well (`Navigasi`), and
`UsirBeralasan` says that nothing else does that to an undisturbed session;
`DiagramTakMundur` is about one editor, two
overwrite each other: a page that took over an older slice may store it again with a
newer revision; the distance of reminders is kept per row, so a task that
closes and opens again may be reminded of at once.

Of the workflow's properties only those of a version in force (`SatuBerlakuPerSop`,
`PengesahanLengkap`, `ArsipTerjaga`) hold however requests interleave. The other eight
break in the ways the table shows, and are claimed up to the race that breaks them.
The history of the placement is likewise claimed of a Kepala OPD only while requests
come one at a time: a reactivation that read the account before another request moved it
synchronises the history with an OPD that is no longer its own
(`kepala-opd.service.ts:159`).

`TiadaTertinggal` holds as long as no instance loses its lease while it is alive.
With two instances and a lease that ends during a call, both send the message; the
one that claimed later may be answered earlier and commit first, the commit of the
other is refused, and its delivery is then later than `lastSentAt`. A rejection of
that delivery which arrives while the row is claimed again is put off to whoever holds
the claim, who never looks at it (TLC finds this with 2 instances).

## 4. Proofs

`SopFlow_proofs` proves, for every set of SOPs, versions, submissions and
requests, from the assumptions on the constants alone:

- `Invarian`: `Spec => []IInv`, with type correctness (`TipeBenar`);
- `BerlakuTunggal`: at most one version of an SOP in force;
- `BerlakuDisahkan`: none in force without three signatures and a published PDF;
- `TandaTanganBerurutan`: the signatures of a submission come in order;
- `MenerapkanArsip`: `SopFlow` implements `ArsipSop`.

None of these is inductive alone, since an operation commits on the strength of
what it read earlier. `IInv` adds what of it stays true: `TransaksiSah` (a begun
change of status never leads to `BERLAKU`; a begun score or follow-up is of an
item of its submission; a begun signature of the PJ Penyusun follows that of the
PJ Evaluator, which nobody takes back; a submission once read exists) and
`PengajuanKosong` (a submission that does not exist has no items and no
signatures). The other direction is the interesting one: `IInv` says nothing
about the *status* read in the first step, because no proof needs it; what the
concurrent properties rest on are the compare-and-set on `status` in
`UbahStatus`, the claim of the submission in `Finalisasi`, and the fact that
`gantikanVersiBerlakuLain` acts on the current rows. The step lemma is split by
module and action; the refinement maps `Finalisasi` to `Terbit`, a revocation to
`Tarik` and everything else to a stutter.

`SopUrut_proofs` proves the remaining properties of the workflow for any number of
concurrent requests, each from the absence of the races that break it. It does so
twice: of `SopBalapan`, whose properties name the races by its history
(`SatuAktifBalapan`, `DapatDitandatanganiBalapan`, `MajuBalapan`, `TerminalBalapan`,
`SatuRevisiBalapan`, `PdfSelarasBalapan`, `SelesaiSesuaiBalapan`, `TolakTetapBalapan`:
what the runs `Bersamaan` and `DuaSop` check), and of `Spec` with the race excluded as
a condition on steps, so that a system which excludes it, by a comparison in the
writing transaction for instance, has the property:

| Hypothesis | What it excludes | Proved from it |
|---|---|---|
| `KirimUlangSegar` | a version sent back to its evaluator after its evaluation ended (`kirimUlangKeEvaluatorSetelahRevisi` writes without comparing the status) | `SatuPengajuanAktifPerOpd`, `PengajuanDapatDitandatangani`, `PengajuanMaju`, `TerminalTetap`, `SatuRevisiBerjalan` |
| with `CabutSendiri` | a revocation of an SOP between the snapshot and the commit of its final signature | `PdfSelarasStatus` |
| with `NilaiTidakMenyela` | a remark committed after the check of `selesai` | `SelesaiBerartiSesuai` |
| `NilaiTidakTertimpa` | a score written over a version of it that its author did not read | `TolakBerartiDitolak` |

None of the four can be dropped: without them TLC violates the properties of their row
with two or three requests. Both halves use the same step lemmas, which ask only that
the step at hand is free of the race. `BergiliranTanpaBalapan` shows that requests that come one
at a time (`Bergiliran`: at most one process works) are free of all four, so
`UrutBenar` has all eight properties for every instance, and `SatuPermintaanBenar` for
a server with one process.

The argument: every step is of one of four kinds (`DiLuarPengajuan`, `Dibuka`,
`Dimajukan`, `Disahkan`) according to what it does to submissions, and each kind keeps
`DataUrut`, which relates a submission to its versions. `Kini` says what a begun
request read and is still true, `KunciOpd` that the lock on the row of the OPD lets
one request at a time open a submission of it. The inductive invariant of all this is
`KInv`. `RInv` adds revisions: two clones of one version would get the same number, and
the unique key on the SOP and the number lets only one commit. `NInv`, `PInv` and
`SInv` follow a score, a final signature and a `selesai` under way; `BInv` says that
what a lone request read is still so.

`SopPdf_proofs` proves `Invarian` for the files, and from it

- `PenyapuAman`: the sweeper is never about to delete a file that a document
  refers to or a running attempt may publish, ambiguous commits or not;
- `PublikasiTerjaga`: if no commit reports an error, every published file exists.

Its invariant says that an attempt not yet begun has no files (`UpayaBelum`),
that stale files belong to attempts that are over (`UsangSelesai`), that the
sweep holds stale files only (`SapuSah`), that a running attempt still has all
it wrote (`ArtefakAda`) and that what is published was finished
(`TerbitSelesai`).

`WagoWebhook_proofs` proves the reminders for any number of instances, callbacks,
leases, failures and any values of the periods: `MenerapkanBerkala` (the
refinement of `PengirimanBerkala`), `JadwalTakMundur`, `HasilSekali` and
`KotakBenar`. The refinement needs to know when a worker may
still send something new, long after it read the row: `GiliranSah` says that every
worker whose key the provider has not seen is in time, and that all of them would
send the same key, so that the first takes the turn from the others. It holds
because a schedule is committed only by the instance whose token is on the row
(`LokSah`: what the holder read is still there, and it answers for every message
of the reminder so far), because the row is due no earlier than the distance or a
refusal allows (`GiliranBaris`) and because a new row has an identity no message
has (`BarisSah`, `PesanSah`). The times of a lease appear nowhere in that: leases that
run out too early cost calls, never a message. `OlahSah` keeps what a handler holds of
the inbox true until it acts on it.

`TuntasBilaSewaCukup` is `TiadaTertinggal`, for any number of instances and handlers,
from `SewaCukup`: as long as nothing failed, only a free row is claimed, so no living
instance loses its lease. `TuntasSatuPekerja` needs no such hypothesis with one
instance, the setting of the run `Webhook`. The invariant `TInv` says that while
nothing failed and no task changed, the holder of the row is at work (`Terpegang`), a
delivery the schedule does not include yet is about to be committed by its sender
(`Disusul`), and every unprocessed event whose delivery is known is somebody's: a
handler has it, or the sender will reconcile it after its commit (`Tertanggung`). The
last is what makes deferring a callback right, and what a lost lease destroys.

`Organisasi_proofs` proves `RiwayatSelaras` and `AktifDiOpdHidup`
(`RiwayatDanOpd`, `OpdTerjaga`) and `SatuKepalaPerOpd` (`SatuKepala`) for any OPDs, accounts and
requests. `Induktif` is their invariant: types, every account's OPD has a row in
its history (`BarisAda`), the history follows the account (`RiwayatSelaras`), and
as long as requests never overlapped (`Tunggal`, by the history variable
`tumpang`) nobody is active in a deleted OPD, no OPD has two Kepala OPD, and what
a begun request checked is still so (`TxSah`). That last part is what the code
lacks in general: with two requests the checks are stale, and only what does not
depend on them is left.

`DiagramEditor_proofs` proves first, for any number of editors, edits and failures,
`TiadaUbahanTerlantar`, `SatuTulisan`, `TimpaYangTerkirim` and `SerahJujur`. The
invariant adds to them that a cached workbench is what the server held at its
revision (`TampakSelaras`), that a request carries the rows it was made from and
an answer a workbench (`PermintaanSah`), that each page is in one of the phases of
the autosave (`SemuaLaman`), that an editor waits for a write exactly while
its loop runs (`Tunggal`), and that a section a write does not send is as the page last
saved it (`SisaSama`), which is why the baseline may move to the whole of what was
sent. `TimpaYangTerkirim` rests on the first: equal revisions
mean equal contents, so a claim that compares revisions compares contents.
`TersimpanSungguh` is `TersimpanDiServer`: its invariant (`SInv`) says that, absent
failures, somebody waits for every write, and that of every section its last writer
has, either in a write that is answered or in the baseline of the page, what the server
holds (`Tercatat`); a write of another section in between leaves it so.

It then carries the invariant over to the composition with the diagram and proves
`OverrideSesuaiLangkah`: overrides of arrows are stored only for the generation of steps
they name, the next generation deletes them, and a save of the actors starts none. `GambarTakMundur` is
`DiagramTakMundur` for one editor, with any number of saves of the diagram under way,
late or given up on. `UInv` orders them by the edit they hold: what is stored is no
later than what is sent with the current revision, and that no later than what the
page has by now (`SimpananUrut`, `SliceUrut`); a commit raises `diagramRevision` past
all that were sent before it. It rests on `IsiAssumption`, that null is not a content,
and on the page taking its slices over once, before anything of it is stored.
`PenantianBersebab` is the safety half of `SiramBerakhir` and `DiagramTakMenggantung`,
for any number of editors, with writes lost, late and given up on: handleComplete
waits only while a write of its page is under way, a diagram says it is saving only
while a save of it is, and that it is about to only with its timer armed and edits not
saved. `PInv` puts the first through the flag of the autosave's loop (`SiramSah`):
whatever ends the loop, a drain or a failure, wakes the flush; a write under way for
every loop that runs is `Tunggal` again.

`Sesi_proofs` proves `SatuSesi`, `PutusTuntas` and `UsirBeralasan` for any browsers,
pages and numbers of requests and calls (`SatuSesiSelalu`, `PutusTuntasSelalu`,
`UsirHanyaBeralasan`). The invariant has four parts: the versions at large, in
cookies or in calls that will answer, are at most that of the row, and no two holders
have the same one, which is what makes `SatuSesi` inductive; a call that has started a
session or will answer is where its fields say; a session that is dead (`"mati"`) has
nothing under way that could revive it; and one that is alive (`"hidup"`, `HidupSah`,
`Terang`) holds the current version in its cookies, but for an access token that
expired, or is being given it by its only refresh. Hence its repairs succeed, and
`UsirHanyaBeralasan` goes through the steps that take the user out of a page
(`LepasNavigasi`): every one but a navigation ends the session or disturbs it. Steps
fall into three groups, each with a lemma: those that raise the version (`Naik`),
those that start a call (`MulaiKerja`), and those that only let something go
(`Surut`), which is most of them. `PenungguDitepati` adds that no wake-up is lost: a
request that waits for a new session has the refresh its page remembers under way, at
a step that goes on, and a page never has two (`TungguInv`). That is the safety half
of `MintaBerakhir`.

`TataLetak_proofs` proves `DorongTuntas`, `SatuPerKolom` and `ArahBaca`
(`DorongTuntasBenar`, `SatuPerKolomBenar`, `ArahBacaBenar`) for procedures of any
length, in any lanes, with decisions anywhere but at the ends, tasks anywhere that
follow a branch they kept, any seed and any hash of the edges (`SidikAssumption` only says that it is a number). The passes are folds
over the edges and functions that recurse along a rank, so the module first shows
that these have the values their equations say. `InduksiHimpunan` is induction over
the natural numbers for a set instead of a predicate, from the well-founded order of
the finite sets (`0 .. i` for the least `i` missing); `RekursiAda` builds the solution
of a recursion that descends by a bounded rank, and `LipatAda` applies it to folds.
The invariant then says:

- `TypeOK`: all edges are there, in some order (`UrutKoneksi` is a sorted list, since
  `Mendahului` is a strict total order, and a rotation of it: `PutarPenuh`), and every
  shape has a column.
- `DorongMajuInv`: after `p` passes every forward edge that ends at the shapes 1 .. p
  is satisfied. A pass keeps these and settles one shape more (`DorongMaju`), because
  a forward edge starts at a shape already at rest. So n + 1 passes are enough in any
  order of the edges; the code allows n + 2, and the pass the loop ends with is one
  that changed nothing (`DorongBerhentiTenang`).
- `DorongInv` and `RapiInv`: from there on lanes read from left to right. `Unik` only
  needs that its order of a lane puts a lower column first (`UnikSifat`).
  Straightening moves the target of an edge that is its only one in and comes from
  another lane, to the left and onto a free place (`LurusSatuSifat`); compaction is
  strictly monotone (`PadatSifat`).
- `RapatInv`: the finished diagram has no empty column (`TanpaKolomKosong`).

`SisiSekali` adds that the order of the edges loses none and doubles none.

Only model-checked: the findings, which are violations, and everything under
fairness (`YatimTerhapus`, `TakMenggantung`, `SiramBerakhir`,
`DiagramTakMenggantung`, `MintaBerakhir`), since liveness is beyond the prover. Of the
last three it is proved that there is always something to wait for
(`PenantianBersebab`, `PenungguDitepati`); that it comes is what TLC checks.
The invariants of all proofs (`KInv` to `BInv`, `TInv`, `SInv`, `UInv`, `PInv` and
`TungguInv` as well) were
checked by TLC on the instances of the runs, under their hypotheses, before they were
proved.

## 5. Plan

1. Corrected variants, with the hypotheses of `SopUrut_proofs` proved of them:
   the resubmission compared to its status, `selesai` to the scores it read.
2. The routers of the arrows: which segments a later arrow may use, and the pages
   of the printed flowchart with their connectors.
3. The edit log sessions and the autosave of the header beside that of the
   procedure.

## 6. Not modelled

- Of the sessions: the profile, the deactivation of an account, which roles may open
  what, and the contents of tokens beyond the version.
- PDF rendering and the cryptographic signature: functions of bytes.
- Reference data, reports and the public site: single rows and read-only queries.
- Most of the client: views, forms, the flowchart and the geometry of the arrows
  (coordinates, collisions, path search over pixels), which have no state beyond
  one render.
- The transport under all of it: HTTP, Prisma and MariaDB are taken at their word,
  with the isolation level the code asks for.
