----------------------------- MODULE CertStore -----------------------------
(***************************************************************************)
(* The certificate of a domain: obtained, saved and renewed by mylego for  *)
(* every node that uses the domain (getCertFile when an inbound is built,  *)
(* certMonitor afterwards), read back when the inbound is built and        *)
(* watched by its TLS configuration.  The files are written in place, one  *)
(* after the other; the process may be killed between any two steps.       *)
(* Nodes are started in order, and share the account and the files.        *)
(***************************************************************************)
EXTENDS Integers, Sequences

CONSTANTS
  N,          \* number of nodes
  Domains,    \* values of CertDomain: "plain", "wildcard"
  Lifetime,   \* days a new certificate is valid
  Days,       \* the 30 days of renewForDomains
  MaxTime,    \* bound: days
  MaxCerts,   \* bound: certificates issued
  MaxFaults,  \* bound: crashes and refusals of the authority or the disk
  Watched,    \* bound: the nodes whose inbound, which only reads, is followed
  None,       \* no file, nothing served
  Torn        \* a file that was opened and not written

ASSUME CertAssumption ==
  /\ N \in Nat \ {0} /\ Lifetime \in Nat /\ Days \in Nat /\ Days < Lifetime
  /\ MaxTime \in Nat /\ MaxCerts \in Nat /\ MaxFaults \in Nat
  /\ Watched \subseteq 1..N
  /\ {None, Torn} \intersect (1..MaxCerts) = {} /\ None # Torn /\ "good" \notin {None, Torn}

Nodes == 1..N
Threads == Nodes \X {"node", "cert"}   \* node monitor (or Start), cert monitor
Certs == 1..MaxCerts                   \* a certificate and its key have the same number
Content == Certs \union {None, Torn}

VARIABLES
  now,       \* the day
  domain,    \* CertDomain
  crt, key,  \* the files .crt and .key of the domain
  acctKey,   \* the account's key file: None, Torn or "good"
  acct,      \* account.json: None, Torn or "good"
  notAfter,  \* the last days of the certificates issued, in order
  pc,        \* per thread: what it does next
  got,       \* per thread: the certificate obtained, or the .crt read
  started,   \* nodes whose Start returned
  tls,       \* per node: the certificate slot of its inbound and its watcher
  faults,    \* number of faults so far
  lastOk,    \* history: the day of a node's last renewal without error
  tainted,   \* history: threads whose save overlapped another
  damaged    \* history: the last save was cut, failed or overlapped another

files == <<crt, key, acctKey, acct>>
history == <<lastOk, tainted, damaged>>
certVars == <<now, domain, files, notAfter, pc, got, started, tls, faults, history>>

Steps == {"idle", "check", "setup", "keygen", "account", "register", "saveacct", "read",
          "obtain", "save", "crt", "keyopen", "key", "recheck", "readcrt", "readkey"}
Saving == {"crt", "keyopen", "key"}    \* SaveResource is between its first and last write

Slot(watching, seen, served, half) ==
  [watching |-> watching, seen |-> seen, served |-> served, half |-> half]

NoTLS == Slot(FALSE, <<None, None>>, None, None)

CertTypeOK ==
  /\ now \in 0..MaxTime
  /\ domain \in Domains
  /\ crt \in Content /\ key \in Content
  /\ acctKey \in {None, Torn, "good"} /\ acct \in {None, Torn, "good"}
  /\ notAfter \in Seq(Lifetime..(MaxTime + Lifetime)) /\ Len(notAfter) <= MaxCerts
  /\ pc \in [Threads -> Steps]
  /\ got \in [Threads -> Content]
  /\ started \subseteq Nodes
  /\ tls \in [Nodes -> [watching : BOOLEAN, seen : Content \X Content,
                        served : Certs \union {None}, half : Content]]
  /\ lastOk \in [Nodes -> 0..MaxTime \union {None}]

CertInit ==
  /\ now = 0
  /\ domain \in Domains
  /\ crt = None /\ key = None /\ acctKey = None /\ acct = None
  /\ notAfter = <<>>
  /\ pc = [t \in Threads |-> "idle"]
  /\ got = [t \in Threads |-> None]
  /\ started = {}
  /\ tls = [n \in Nodes |-> NoTLS]
  /\ faults = 0
  /\ lastOk = [n \in Nodes |-> None]
  /\ tainted = {}
  /\ damaged = FALSE

At(t, here) == pc[t] = here
Goto(t, there) == pc' = [pc EXCEPT ![t] = there]
Renews(t) == t[2] = "cert"

\* The process ends: nothing but the files is left.
Dies ==
  /\ pc' = [t \in Threads |-> "idle"]
  /\ got' = [t \in Threads |-> None]
  /\ started' = {}
  /\ tls' = [n \in Nodes |-> NoTLS]
  /\ lastOk' = [n \in Nodes |-> None]
  /\ damaged' = (damaged \/ \E t \in Threads : pc[t] \in Saving)
  /\ tainted' = {}

\* An error is logged, but at the start of a node ends the process.
Fails(t) ==
  IF Renews(t) \/ t[1] \in started
    THEN /\ Goto(t, "idle")
         /\ got' = [got EXCEPT ![t] = None]
         /\ damaged' = (damaged \/ pc[t] \in Saving)
         /\ tainted' = tainted \ {t}
         /\ UNCHANGED <<started, tls, lastOk>>
    ELSE Dies

-----------------------------------------------------------------------------
(* The names of the files.                                                 *)

sanitizedDomain(d) == IF d = "wildcard" THEN "underscore" ELSE d

\* The storage's files carry its sanitized name; checkCertFile asks for the
\* domain as it is configured, and only whether the files are there.
Found ==
  /\ domain = sanitizedDomain(domain)
  /\ crt # None /\ key # None

-----------------------------------------------------------------------------
(* The calls.                                                              *)

\* getCertFile: by Start, in the order of the nodes, or by a node monitor
\* that builds the inbound of a changed node.
GetCertFile(n) ==
  /\ At(<<n, "node">>, "idle")
  /\ n \notin started \/ n \in Watched
  /\ \A m \in 1..(n - 1) : m \in started
  /\ Goto(<<n, "node">>, "check")
  /\ UNCHANGED <<now, domain, files, notAfter, got, started, tls, faults, history>>

certMonitor(n) ==
  /\ At(<<n, "cert">>, "idle")
  /\ n \in started
  /\ Goto(<<n, "cert">>, "setup")
  /\ UNCHANGED <<now, domain, files, notAfter, got, started, tls, faults, history>>

\* The first check of DNSCert and HTTPCert.
CheckCertFile(t) ==
  /\ At(t, "check")
  /\ Goto(t, IF Found THEN "readcrt" ELSE "setup")
  /\ UNCHANGED <<now, domain, files, notAfter, got, started, tls, faults, history>>

\* GetPrivateKey: the key file is created when there is none; one without a
\* key is an error.
GetPrivateKey(t) ==
  /\ At(t, "setup")
  /\ IF acctKey = Torn
       THEN Fails(t) /\ UNCHANGED acctKey
       ELSE /\ Goto(t, IF acctKey = None THEN "keygen" ELSE "account")
            /\ acctKey' = IF acctKey = None THEN Torn ELSE acctKey
            /\ UNCHANGED <<got, started, tls, history>>
  /\ UNCHANGED <<now, domain, crt, key, acct, notAfter, faults>>

GeneratePrivateKey(t) ==
  /\ At(t, "keygen")
  /\ acctKey' = "good"
  /\ Goto(t, "account")
  /\ UNCHANGED <<now, domain, crt, key, acct, notAfter, got, started, tls, faults, history>>

\* LoadAccount, and what Run and Renew do without a registration.
Account(t) ==
  /\ At(t, "account")
  /\ IF acct = Torn \/ (acct = None /\ Renews(t))
       THEN Fails(t)
       ELSE /\ Goto(t, IF Renews(t) THEN "read" ELSE IF acct = None THEN "register" ELSE "obtain")
            /\ UNCHANGED <<got, started, tls, history>>
  /\ UNCHANGED <<now, domain, files, notAfter, faults>>

Register(t) ==
  /\ At(t, "register")
  /\ acct' = Torn
  /\ Goto(t, "saveacct")
  /\ UNCHANGED <<now, domain, crt, key, acctKey, notAfter, got, started, tls, faults, history>>

SaveAccount(t) ==
  /\ At(t, "saveacct")
  /\ acct' = "good"
  /\ Goto(t, "obtain")
  /\ UNCHANGED <<now, domain, crt, key, acctKey, notAfter, got, started, tls, faults, history>>

-----------------------------------------------------------------------------
(* Obtaining, saving and renewing.                                         *)

\* Mutant: only an expired certificate is renewed.
NeedRenewalExpired(i) == notAfter[i] - now <= 0

needRenewal(i) == ~(notAfter[i] - now > Days)

\* renewForDomains up to the request.  Nothing removes a file, so the check
\* that follows a renewal that is not needed belongs to this step.
ReadCertificate(t) ==
  /\ At(t, "read")
  /\ \/ crt \in {None, Torn} /\ Fails(t)
     \/ /\ crt \in Certs /\ needRenewal(crt)
        /\ Goto(t, "obtain")
        /\ UNCHANGED <<got, started, tls, history>>
     \/ /\ crt \in Certs /\ ~needRenewal(crt) /\ Found
        /\ Goto(t, "idle")
        /\ lastOk' = [lastOk EXCEPT ![t[1]] = now]
        /\ UNCHANGED <<got, started, tls, tainted, damaged>>
     \/ crt \in Certs /\ ~needRenewal(crt) /\ ~Found /\ Fails(t)
  /\ UNCHANGED <<now, domain, files, notAfter, faults>>

Obtain(t) ==
  /\ At(t, "obtain")
  /\ Len(notAfter) < MaxCerts
  /\ notAfter' = Append(notAfter, now + Lifetime)
  /\ got' = [got EXCEPT ![t] = Len(notAfter) + 1]
  /\ Goto(t, "save")
  /\ UNCHANGED <<now, domain, files, started, tls, faults, history>>

\* SaveResource: the two files the program uses, each truncated and written.
OpenCrt(t) ==
  /\ At(t, "save")
  /\ crt' = Torn
  /\ Goto(t, "crt")
  /\ LET others == {u \in Threads \ {t} : pc[u] \in Saving} IN
       tainted' = IF others = {} THEN tainted ELSE tainted \union others \union {t}
  /\ UNCHANGED <<now, domain, key, acctKey, acct, notAfter, got, started, tls, faults, lastOk, damaged>>

WriteCrt(t) ==
  /\ At(t, "crt")
  /\ crt' = got[t]
  /\ Goto(t, "keyopen")
  /\ UNCHANGED <<now, domain, key, acctKey, acct, notAfter, got, started, tls, faults, history>>

OpenKey(t) ==
  /\ At(t, "keyopen")
  /\ key' = Torn
  /\ Goto(t, "key")
  /\ UNCHANGED <<now, domain, crt, acctKey, acct, notAfter, got, started, tls, faults, history>>

\* Mutant: the key of the first certificate is kept.
WriteFirstKey(t) ==
  /\ At(t, "key")
  /\ key' = 1
  /\ Goto(t, "recheck")
  /\ damaged' = (t \in tainted)
  /\ tainted' = tainted \ {t}
  /\ UNCHANGED <<now, domain, crt, acctKey, acct, notAfter, got, started, tls, faults, lastOk>>

WriteKey(t) ==
  /\ At(t, "key")
  /\ key' = got[t]
  /\ Goto(t, "recheck")
  /\ damaged' = (t \in tainted)
  /\ tainted' = tainted \ {t}
  /\ UNCHANGED <<now, domain, crt, acctKey, acct, notAfter, got, started, tls, faults, lastOk>>

\* checkCertFile after Run or Renew.
Recheck(t) ==
  /\ At(t, "recheck")
  /\ IF Found
       THEN /\ Goto(t, IF Renews(t) THEN "idle" ELSE "readcrt")
            /\ got' = [got EXCEPT ![t] = None]
            /\ lastOk' = IF Renews(t) THEN [lastOk EXCEPT ![t[1]] = notAfter[got[t]] - Lifetime]
                                      ELSE lastOk
            /\ UNCHANGED <<started, tls, tainted, damaged>>
       ELSE Fails(t)
  /\ UNCHANGED <<now, domain, files, notAfter, faults>>

-----------------------------------------------------------------------------
(* The TLS configuration of an inbound.                                    *)

KeyPair(c, k) == c \in Certs /\ c = k

\* TLSCertConfig.Build reads one file, then the other.
ReadCrt(t) ==
  /\ At(t, "readcrt")
  /\ got' = [got EXCEPT ![t] = crt]
  /\ Goto(t, "readkey")
  /\ UNCHANGED <<now, domain, files, notAfter, started, tls, faults, history>>

\* buildCertificateStore: files that are no pair are ignored, and not watched.
NewSlot(c, k) ==
  Slot(KeyPair(c, k), <<c, k>>, IF KeyPair(c, k) THEN c ELSE None, None)

ReadKey(t) ==
  /\ At(t, "readkey")
  /\ tls' = [tls EXCEPT ![t[1]] = IF t[1] \in Watched THEN NewSlot(got[t], key) ELSE @]
  /\ started' = started \union {t[1]}
  /\ Goto(t, "idle")
  /\ got' = [got EXCEPT ![t] = None]
  /\ UNCHANGED <<now, domain, files, notAfter, faults, history>>

WatchCrt(n) ==
  /\ tls[n].watching /\ tls[n].half = None
  /\ tls' = [tls EXCEPT ![n] = Slot(TRUE, @.seen, @.served, crt)]
  /\ UNCHANGED <<now, domain, files, notAfter, pc, got, started, faults, history>>

\* Mutant: only a new certificate is a change.
ChangedCrt(slot) == slot.half # slot.seen[1]

Changed(slot) == <<slot.half, key>> # slot.seen

\* The watcher keeps what it read, and loads it if it is a pair.
WatchKey(n) ==
  LET slot == tls[n] IN
  /\ slot.watching /\ slot.half # None
  /\ tls' = [tls EXCEPT ![n] =
       IF Changed(slot)
         THEN Slot(TRUE, <<slot.half, key>>,
                   IF KeyPair(slot.half, key) THEN key ELSE slot.served, None)
         ELSE Slot(TRUE, slot.seen, slot.served, None)]
  /\ UNCHANGED <<now, domain, files, notAfter, pc, got, started, faults, history>>

-----------------------------------------------------------------------------
(* Faults and time.                                                        *)

\* The authority refuses, cannot be reached, or the disk is full.
Refused(t) ==
  /\ pc[t] \in {"account", "register", "obtain", "keygen", "saveacct"} \union Saving
  /\ faults < MaxFaults
  /\ faults' = faults + 1
  /\ Fails(t)
  /\ UNCHANGED <<now, domain, files, notAfter>>

Crash ==
  /\ faults < MaxFaults
  /\ faults' = faults + 1
  /\ Dies
  /\ UNCHANGED <<now, domain, files, notAfter>>

\* Bound: what was obtained is on the disk before it would have to be renewed,
\* 60 days later.
Day ==
  /\ now < MaxTime
  /\ \A t \in Threads : pc[t] \in {"save"} \union Saving =>
       notAfter[got[t]] > now + 1 + Days
  /\ now' = now + 1
  /\ UNCHANGED <<domain, files, notAfter, pc, got, started, tls, faults, history>>

ThreadStep(t) ==
  \/ CheckCertFile(t) \/ GetPrivateKey(t) \/ GeneratePrivateKey(t) \/ Account(t)
  \/ Register(t) \/ SaveAccount(t) \/ ReadCertificate(t) \/ Obtain(t)
  \/ OpenCrt(t) \/ WriteCrt(t) \/ OpenKey(t) \/ WriteKey(t) \/ Recheck(t)
  \/ ReadCrt(t) \/ ReadKey(t)

Watch(n) == WatchCrt(n) \/ WatchKey(n)

CertNext ==
  \/ \E n \in Nodes : GetCertFile(n) \/ certMonitor(n) \/ Watch(n)
  \/ \E t \in Threads : ThreadStep(t) \/ Refused(t)
  \/ Crash \/ Day

CertSpec == CertInit /\ [][CertNext]_certVars

\* Calls return and the watcher's ticker fires.
CertFairSpec ==
  /\ CertSpec
  /\ \A n \in Nodes : WF_certVars(Watch(n))
  /\ \A t \in Threads : WF_certVars(ThreadStep(t))

-----------------------------------------------------------------------------
\* The last save went through and none is under way.
Saved == ~damaged /\ \A t \in Threads : pc[t] \notin Saving

(* Unless a save was cut, failed or overlapped the save of another thread, *)
(* the certificate and the key that SaveResource left belong together.     *)
PairIntact == Saved /\ crt # None => KeyPair(crt, key)

(* A node whose RenewCert returned without error in the last 30 days has a *)
(* certificate that is still valid, whatever the other nodes do.           *)
RenewalsKeepValid ==
  \A n \in Nodes :
    lastOk[n] # None /\ now <= lastOk[n] + Days /\ Saved =>
      crt \in Certs /\ now < notAfter[crt]

(* A pair in the files is served by an inbound that watches them, or is    *)
(* replaced before the watcher gets to it.                                 *)
WatchedIsServed ==
  \A n \in Nodes, i \in Certs :
    tls[n].watching /\ crt = i /\ key = i
      ~> tls[n].served = i \/ ~tls[n].watching \/ ~(crt = i /\ key = i)
-----------------------------------------------------------------------------
(* What the two invariants rest on.                                        *)

Issued == 1..Len(notAfter)

\* A save that met no other is the only one, and the .crt is its own once it
\* is written; what is being saved is not due for renewal.
SaveInv ==
  \A t \in Threads :
    /\ pc[t] \in {"save", "recheck"} \union Saving => got[t] \in Issued
    /\ pc[t] \in {"save"} \union Saving => notAfter[got[t]] > now + Days
    /\ t \in tainted => pc[t] \in Saving
    /\ pc[t] \in Saving /\ t \notin tainted =>
         /\ \A u \in Threads \ {t} : pc[u] \notin Saving
         /\ pc[t] # "crt" => crt = got[t]

\* The saved certificate outlasts the renewal period of day d.
Outlasts(d) == Saved => crt \in Issued /\ notAfter[crt] > d + Days

\* Whichever node saved last, its certificate covers the renewals of all.
RenewalInv ==
  /\ crt \in Issued \union {None, Torn}
  /\ \A i \in Issued : notAfter[i] <= now + Lifetime
  /\ \A n \in Nodes : lastOk[n] # None => lastOk[n] <= now /\ Outlasts(lastOk[n])
  /\ \A t \in Threads : pc[t] = "recheck" => Outlasts(notAfter[got[t]] - Lifetime)

\* There is no account, and none is loaded or registered, without its key.
AccountInv ==
  acct # None \/ (\E t \in Threads : pc[t] \in {"account", "register", "saveacct"}) =>
    acctKey = "good"

CertInv == CertTypeOK /\ PairIntact /\ SaveInv /\ RenewalInv /\ AccountInv
=============================================================================
