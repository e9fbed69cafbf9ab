------------------------------- MODULE HotTls -------------------------------
(***************************************************************************)
(* HotTlsAcceptor of src/src/tls.rs and POST /reload/tls of admin.rs.  The *)
(* operator replaces the certificate file and the key file, one after the  *)
(* other; a reload reads them, one after the other, builds an acceptor and *)
(* swaps it in.  Reloads of different admin connections run in parallel.   *)
(***************************************************************************)
EXTENDS Integers, Sequences, FiniteSets

CONSTANTS
    Certs,     \* certificates the operator installs
    KeyOf,     \* KeyOf[x]: the private key of certificate x
    Admins,    \* admin connections
    Bad        \* a file that is missing, half written or no PEM

PrivateKeys == {KeyOf[x] : x \in Certs}

ASSUME BadAssumption == Bad \notin Certs \cup PrivateKeys

VARIABLES
    certFile,   \* what cfg.cert holds
    keyFile,    \* what cfg.key holds
    acceptor,   \* HotTlsAcceptor.inner: the pair in use, or NoTls
    job         \* job[a]: the reload of a: the files read so far

tlsVars == <<certFile, keyFile, acceptor, job>>

NoTls == [cert |-> Bad, key |-> Bad]          \* tls_acceptor is None

Pairs == [cert : Certs, key : PrivateKeys]

(* A reload is not there, or has got some of the two files' contents. *)
Jobs == [step : {"idle", "reading"}, cert : Certs \cup {Bad}, key : PrivateKeys \cup {Bad}]

Idle == [step |-> "idle", cert |-> Bad, key |-> Bad]
Begun == [Idle EXCEPT !.step = "reading"]

BuildsAnyPair(x, k) == x # Bad /\ k # Bad     \* mutant: the pair is not checked

(* build_acceptor succeeds: both files parse, and with_single_cert finds   *)
(* (external) that the key is the certificate's.                           *)
Builds(x, k) == x # Bad /\ k # Bad /\ k = KeyOf[x]

(* main: HotTlsAcceptor::new, or HTTP only for the life of the process. *)
TlsInit ==
    /\ certFile \in Certs \cup {Bad}
    /\ keyFile \in PrivateKeys \cup {Bad}
    /\ acceptor = IF Builds(certFile, keyFile) THEN [cert |-> certFile, key |-> keyFile] ELSE NoTls
    /\ job = [a \in Admins |-> Idle]

-----------------------------------------------------------------------------
(* External: the operator writes a file, at any time. *)
WriteCert(x) ==
    /\ certFile # x /\ certFile' = x
    /\ UNCHANGED <<keyFile, acceptor, job>>

WriteKey(k) ==
    /\ keyFile # k /\ keyFile' = k
    /\ UNCHANGED <<certFile, acceptor, job>>

(* POST /reload/tls; without an acceptor the answer is an error. *)
Begin(a) ==
    /\ job[a] = Idle /\ acceptor # NoTls
    /\ job' = [job EXCEPT ![a] = Begun]
    /\ UNCHANGED <<certFile, keyFile, acceptor>>

(* Reload a still has to get a content, f being what it has of the file. *)
Unread(a, f) == job[a].step = "reading" /\ f = Bad

(* There is no acceptor to build yet, or it builds. *)
Fits(x, k) == Bad \in {x, k} \/ Builds(x, k)

(* What a file holds when its content is fixed for this reload: on the     *)
(* open, if the operator renames a new file over the old one, on the read, *)
(* if he writes into it.  build_acceptor opens both files before it reads  *)
(* either, so a key that is renamed and a certificate that is overwritten  *)
(* come in the order opposite to that of the code's lines.  The second of  *)
(* the two reads builds as well.                                           *)
ReadCert(a) ==
    /\ Unread(a, job[a].cert) /\ certFile # Bad /\ Fits(certFile, job[a].key)
    /\ job' = [job EXCEPT ![a].cert = certFile]
    /\ UNCHANGED <<certFile, keyFile, acceptor>>

ReadKey(a) ==
    /\ Unread(a, job[a].key) /\ keyFile # Bad /\ Fits(job[a].cert, keyFile)
    /\ job' = [job EXCEPT ![a].key = keyFile]
    /\ UNCHANGED <<certFile, keyFile, acceptor>>

(* One of the `?' of build_acceptor: the error is the answer, and the      *)
(* acceptor in use stays.                                                  *)
BuildFails(a) ==
    /\ \/ Unread(a, job[a].cert) /\ (certFile = Bad \/ ~Fits(certFile, job[a].key))
       \/ Unread(a, job[a].key) /\ (keyFile = Bad \/ ~Fits(job[a].cert, keyFile))
    /\ job' = [job EXCEPT ![a] = Idle]
    /\ UNCHANGED <<certFile, keyFile, acceptor>>

StoreFirst(a) ==                              \* mutant: set once, like a OnceCell
    /\ job[a].cert # Bad /\ job[a].key # Bad
    /\ acceptor' = IF acceptor = NoTls THEN [cert |-> job[a].cert, key |-> job[a].key] ELSE acceptor
    /\ job' = [job EXCEPT ![a] = Idle]
    /\ UNCHANGED <<certFile, keyFile>>

(* self.inner.store(..): the last one to get here wins. *)
Store(a) ==
    /\ job[a].cert # Bad /\ job[a].key # Bad
    /\ acceptor' = [cert |-> job[a].cert, key |-> job[a].key]
    /\ job' = [job EXCEPT ![a] = Idle]
    /\ UNCHANGED <<certFile, keyFile>>

Reload(a) == ReadCert(a) \/ ReadKey(a) \/ BuildFails(a) \/ Store(a)

Operator ==
    \/ \E x \in Certs \cup {Bad} : WriteCert(x)
    \/ \E k \in PrivateKeys \cup {Bad} : WriteKey(k)
=============================================================================
