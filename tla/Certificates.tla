---------------------------- MODULE Certificates ----------------------------
(***************************************************************************)
(* The pair of certificate and key that every TLS listener serves          *)
(* (tls.rs), while a renewal rewrites the two files one after the other    *)
(* and the watch re-reads them, also one after the other.                  *)
(*                                                                         *)
(* A file holds a version, or Torn while it is being written.  A version   *)
(* in Usable is in date, covers the hosts and fits the buffer budget.      *)
(***************************************************************************)
EXTENDS Naturals

CONSTANTS
    Versions,     \* of the pair; the first is loaded at the start
    Usable,       \* the versions that validation and the budget accept
    Torn

\* A version is a positive number, and a torn file holds none.
ASSUME CertificatesAssumption == Versions \subseteq Nat /\ Torn \notin Versions \cup {1}

VARIABLES
    files,        \* what each file holds
    renewal,      \* the version being written, and the files still to write
    read,         \* the reload under way: its step and what it read
    current,      \* the pair served
    handshake,    \* the version whose handshake is budgeted
    settled       \* a reload began after the files settled, and ended

pair == <<files, renewal, read, current, handshake, settled>>

Idle == [step |-> "Idle", cert |-> Torn, key |-> Torn, fresh |-> FALSE]
Still == [version |-> 0, left |-> {}]

CertificatesInit ==
    /\ files = [cert |-> 1, key |-> 1] /\ renewal = Still /\ read = Idle
    /\ current = [cert |-> 1, key |-> 1] /\ handshake = 1 /\ settled = FALSE

(***************************************************************************)
(* The renewal, external: each file is torn, then whole, in either order.  *)
(***************************************************************************)
Renew(version) ==
    /\ renewal.left = {} /\ version > renewal.version /\ version > 1
    /\ renewal' = [version |-> version, left |-> {"cert", "key"}]
    /\ settled' = FALSE /\ read' = [read EXCEPT !.fresh = FALSE]
    /\ UNCHANGED <<files, current, handshake>>

Write(file) ==
    /\ file \in renewal.left
    /\ IF files[file] = Torn
       THEN files' = [files EXCEPT ![file] = renewal.version] /\ renewal' = [renewal EXCEPT !.left = @ \ {file}]
       ELSE files' = [files EXCEPT ![file] = Torn] /\ UNCHANGED renewal
    /\ UNCHANGED <<read, current, handshake, settled>>

(***************************************************************************)
(* The watch.                                                              *)
(***************************************************************************)
Begin ==
    /\ read.step = "Idle"
    /\ read' = [Idle EXCEPT !.step = "Cert", !.fresh = renewal.left = {}]
    /\ UNCHANGED <<files, renewal, current, handshake, settled>>

ReadCert ==
    /\ read.step = "Cert" /\ read' = [read EXCEPT !.step = "Key", !.cert = files.cert]
    /\ UNCHANGED <<files, renewal, current, handshake, settled>>

ReadKey ==
    /\ read.step = "Key" /\ read' = [read EXCEPT !.step = "Pair", !.key = files.key]
    /\ UNCHANGED <<files, renewal, current, handshake, settled>>

CompleteUnmatched(cert, key) == cert # Torn /\ key # Torn /\ cert \in Usable

\* A pair that does not match, is out of date, covers too little or exceeds the
\* budget is refused, and the current one kept.
Complete(cert, key) == cert # Torn /\ key # Torn /\ cert = key /\ cert \in Usable

Reload ==
    /\ read.step = "Pair"
    /\ IF Complete(read.cert, read.key)
       THEN /\ current' = [cert |-> read.cert, key |-> read.key]
            /\ read' = [read EXCEPT !.step = "Budget"]
            /\ UNCHANGED settled
       ELSE /\ read' = Idle /\ settled' = (settled \/ read.fresh)
            /\ UNCHANGED current
    /\ UNCHANGED <<files, renewal, handshake>>

\* The figure follows the pair, which readers of the figure need no lock to see.
Budget ==
    /\ read.step = "Budget" /\ handshake' = read.cert
    /\ read' = Idle /\ settled' = (settled \/ read.fresh)
    /\ UNCHANGED <<files, renewal, current>>

CertificatesNext ==
    \/ \E version \in Versions : Renew(version)
    \/ \E file \in {"cert", "key"} : Write(file)
    \/ Begin \/ ReadCert \/ ReadKey \/ Reload \/ Budget

CertificatesSpec == CertificatesInit /\ [][CertificatesNext]_pair

(***************************************************************************)
(* Properties.                                                             *)
(***************************************************************************)
\* However a renewal's writes fall among a reload's reads, the pair served matches
\* and is one the server accepts, its handshake is the one budgeted but for the
\* moment of the change, and a usable renewal is served after the first reload
\* that begins once it is whole.
CertificatesSound ==
    /\ current.cert = current.key /\ current.cert \in Usable \cup {1}
    /\ read.step # "Budget" => handshake = current.cert
    /\ settled /\ files.cert \in Usable => current.cert = files.cert
==============================================================================
