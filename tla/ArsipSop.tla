------------------------------- MODULE ArsipSop -------------------------------
(***************************************************************************)
(* What the workflow promises to the public: the archive of official       *)
(* versions.  A version is unpublished, then in force, then archived, and  *)
(* never comes back; an SOP has at most one version in force; a version    *)
(* that goes into force archives the one it replaces in the same step.     *)
(***************************************************************************)
EXTENDS FiniteSets

CONSTANTS
    Dokumen,    \* versions
    Induk       \* the SOP of a version

VARIABLE arsip  \* arsip[d]: "BELUM", "BERLAKU" or "ARSIP"

ArsipInit == arsip = [d \in Dokumen |-> "BELUM"]

\* A version in force gives way to any version of its SOP that is published.
Tergantikan(d, batch) == arsip[d] = "BERLAKU" /\ \E t \in batch : Induk[t] = Induk[d]

\* A batch is published; of several versions of one SOP the one in terakhir stays.
Terbit(batch, terakhir) ==
    /\ batch # {}
    /\ \A d \in batch : arsip[d] = "BELUM"
    /\ \A d \in batch : \E t \in terakhir : Induk[t] = Induk[d]
    /\ \A t, u \in terakhir : Induk[t] = Induk[u] => t = u
    /\ arsip' = [d \in Dokumen |->
          IF d \in terakhir THEN "BERLAKU"
          ELSE IF d \in batch \/ Tergantikan(d, batch) THEN "ARSIP"
          ELSE arsip[d]]

\* A version in force is withdrawn.
Tarik(d) ==
    /\ arsip[d] = "BERLAKU"
    /\ arsip' = [arsip EXCEPT ![d] = "ARSIP"]

ArsipNext ==
    \/ \E batch \in SUBSET Dokumen : \E terakhir \in SUBSET batch : Terbit(batch, terakhir)
    \/ \E d \in Dokumen : Tarik(d)

ArsipSpec == ArsipInit /\ [][ArsipNext]_arsip
=============================================================================
