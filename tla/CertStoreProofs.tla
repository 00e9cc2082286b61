-------------------------- MODULE CertStoreProofs --------------------------
(***************************************************************************)
(* Proofs about CertStore, for any number of nodes, certificates, days and *)
(* faults.                                                                 *)
(***************************************************************************)
EXTENDS CertStore, SequenceTheorems, TLAPS

(* A thread is the node monitor or the certificate monitor of a node.      *)
LEMMA ThreadShape ==
  ASSUME NEW t \in Threads
  PROVE  t[1] \in Nodes
BY DEF Threads

(* What a certificate is valid until is not changed by the next one.       *)
LEMMA ObtainKeeps ==
  ASSUME CertTypeOK, NEW t \in Threads, Obtain(t)
  PROVE  /\ Len(notAfter') = Len(notAfter) + 1
         /\ Len(notAfter) \in Nat
         /\ \A i \in Issued : i \in Issued' /\ notAfter'[i] = notAfter[i]
         /\ Len(notAfter) + 1 \in Issued'
         /\ notAfter'[Len(notAfter) + 1] = now + Lifetime
         /\ notAfter' \in Seq(Lifetime..(MaxTime + Lifetime))
<1> DEFINE L == Lifetime..(MaxTime + Lifetime)
<1>1. notAfter \in Seq(L) /\ now + Lifetime \in L /\ notAfter' = Append(notAfter, now + Lifetime)
  BY CertAssumption DEF CertTypeOK, Obtain
<1>2. Len(notAfter) \in Nat
  BY <1>1, LenProperties
<1> HIDE DEF L
<1>3. /\ notAfter' \in Seq(L) /\ Len(notAfter') = Len(notAfter) + 1
      /\ \A i \in 1..Len(notAfter) : notAfter'[i] = notAfter[i]
      /\ notAfter'[Len(notAfter) + 1] = now + Lifetime
  BY <1>1, AppendProperties
<1>4. \A i \in 1..Len(notAfter) : i \in 1..Len(notAfter')
  BY <1>2, <1>3
<1>5. Len(notAfter) + 1 \in 1..Len(notAfter')
  BY <1>2, <1>3
<1> QED
  BY <1>2, <1>3, <1>4, <1>5 DEF Issued, L

-----------------------------------------------------------------------------
Holding == {"save", "recheck"} \union Saving

Core == SaveInv /\ PairIntact /\ RenewalInv

\* A thread that holds no certificate moves on, and all else is left alone.
Moves(t) ==
  /\ UNCHANGED <<now, crt, key, notAfter, lastOk, tainted, damaged>>
  /\ pc[t] \notin Holding /\ pc'[t] \notin Holding
  /\ \A u \in Threads \ {t} : pc'[u] = pc[u] /\ got'[u] = got[u]

(* A thread that holds no certificate disturbs nothing.                    *)
LEMMA MovesCore ==
  ASSUME Core, NEW t \in Threads, Moves(t)
  PROVE  Core'
<1> USE DEF Core
<1>1. Saved' <=> Saved
  BY DEF Moves, Saved, Holding
<1>3. SaveInv'
  BY DEF Moves, SaveInv, Holding, Issued
<1>4. PairIntact'
  BY <1>1 DEF Moves, PairIntact, KeyPair
<1>5. RenewalInv'
  <2>0. UNCHANGED <<now, crt, notAfter, lastOk>> /\ Issued' = Issued
    BY DEF Moves, Issued
  <2>1. (\A n \in Nodes : lastOk[n] # None => lastOk[n] <= now /\ Outlasts(lastOk[n]))'
    BY <1>1, <2>0 DEF RenewalInv, Outlasts
  <2>2. ASSUME NEW u \in Threads, pc'[u] = "recheck"
        PROVE  Outlasts(notAfter[got[u]] - Lifetime)'
    <3>1. pc[u] = "recheck" /\ got'[u] = got[u]
      BY <2>2 DEF Moves, Holding
    <3>2. Outlasts(notAfter[got[u]] - Lifetime)
      BY <3>1 DEF RenewalInv
    <3> QED
      BY <1>1, <2>0, <3>1, <3>2 DEF Outlasts
  <2>3. (\A i \in Issued : notAfter[i] <= now + Lifetime)' /\ crt' \in Issued' \union {None, Torn}
    BY <2>0 DEF RenewalInv
  <2> QED
    BY <2>1, <2>2, <2>3 DEF RenewalInv
<1> QED
  BY <1>3, <1>4, <1>5

(* A certificate that is not due for renewal covers the next one.          *)
LEMMA NotDueCore ==
  ASSUME CertTypeOK, Core, NEW t \in Threads, ReadCertificate(t),
         pc' = [pc EXCEPT ![t] = "idle"], lastOk' = [lastOk EXCEPT ![t[1]] = now],
         crt \in Certs, ~needRenewal(crt), UNCHANGED <<got, tainted, damaged>>
  PROVE  Core'
<1> USE DEF Core
<1>0. /\ UNCHANGED <<now, crt, key, notAfter>> /\ Issued' = Issued
      /\ pc[t] = "read" /\ pc'[t] = "idle" /\ \A u \in Threads \ {t} : pc'[u] = pc[u]
  BY DEF ReadCertificate, At, files, Issued, CertTypeOK
<1>1. Saved' <=> Saved
  BY Zenon, <1>0 DEF Saved, Saving
<1>2. SaveInv'
  BY <1>0 DEF SaveInv, Saving
<1>3. PairIntact'
  BY <1>0, <1>1 DEF PairIntact, KeyPair
<1>4. crt \in Issued /\ notAfter[crt] > now + Days /\ now \in Int
  <2>1. crt \in Issued
    BY ZenonT(40), CertAssumption DEF RenewalInv, Certs
  <2>2. notAfter[crt] \in Int
    BY <2>1, CertAssumption, ElementOfSeq DEF CertTypeOK, Issued
  <2> QED
    BY <2>1, <2>2, CertAssumption DEF needRenewal, CertTypeOK
<1>5. (\A n \in Nodes : lastOk[n] # None => lastOk[n] <= now /\ Outlasts(lastOk[n]))'
  <2> SUFFICES ASSUME NEW n \in Nodes, lastOk'[n] # None
               PROVE  lastOk'[n] <= now /\ Outlasts(lastOk[n])'
    BY <1>0
  <2>1. CASE n = t[1]
    <3>1. lastOk'[n] = now
      BY Zenon, <2>1 DEF CertTypeOK
    <3> QED
      BY <1>0, <1>4, <3>1 DEF Outlasts
  <2>2. CASE n # t[1]
    <3>1. lastOk'[n] = lastOk[n]
      BY <2>2 DEF CertTypeOK
    <3> QED
      BY Zenon, <1>0, <1>1, <3>1 DEF Outlasts, RenewalInv
  <2> QED
    BY <2>1, <2>2
<1>6. (\A u \in Threads : pc[u] = "recheck" => Outlasts(notAfter[got[u]] - Lifetime))'
  BY Zenon, <1>0, <1>1 DEF Outlasts, RenewalInv
<1>7. RenewalInv'
  BY <1>0, <1>5, <1>6 DEF RenewalInv
<1> QED
  BY Zenon, <1>2, <1>3, <1>7

(* The end of the process leaves a saved pair or marks it as damaged.      *)
LEMMA DiesCore ==
  ASSUME Core, Dies, UNCHANGED <<now, crt, key, notAfter>>
  PROVE  Core'
<1> USE DEF Core
<1>1. /\ \A t \in Threads : pc'[t] = "idle"
      /\ \A n \in Nodes : lastOk'[n] = None
      /\ tainted' = {} /\ Issued' = Issued
  BY DEF Dies, Issued
<1>2. Saved' => Saved
  BY Zenon DEF Dies, Saved
<1>3. SaveInv'
  BY <1>1 DEF SaveInv, Saving
<1>4. PairIntact'
  BY <1>2 DEF PairIntact, KeyPair
<1>5. RenewalInv'
  BY <1>1 DEF RenewalInv
<1> QED
  BY <1>3, <1>4, <1>5

(* So does an error.                                                       *)
LEMMA FailsCore ==
  ASSUME CertTypeOK, Core, NEW t \in Threads, Fails(t), UNCHANGED <<now, crt, key, notAfter>>
  PROVE  Core'
<1> USE DEF Core
<1>1. CASE Dies
  BY <1>1, DiesCore
<1>2. CASE ~Dies
  <2>1. /\ pc' = [pc EXCEPT ![t] = "idle"] /\ got' = [got EXCEPT ![t] = None]
        /\ damaged' = (damaged \/ pc[t] \in Saving) /\ tainted' = tainted \ {t}
        /\ lastOk' = lastOk
    BY Zenon, <1>2 DEF Fails, Goto
  <2>2. /\ pc'[t] = "idle" /\ Issued' = Issued
        /\ \A u \in Threads \ {t} : pc'[u] = pc[u] /\ got'[u] = got[u]
    BY <2>1 DEF CertTypeOK, Issued
  <2>3. Saved' => Saved
    BY ZenonT(40), <2>1, <2>2 DEF Saved
  <2>4. SaveInv'
    BY <2>1, <2>2 DEF SaveInv, Saving
  <2>5. PairIntact'
    BY Zenon, <2>3 DEF PairIntact, KeyPair
  <2>6. (\A n \in Nodes : lastOk[n] # None => lastOk[n] <= now /\ Outlasts(lastOk[n]))'
    BY <2>1, <2>2, <2>3 DEF Outlasts, RenewalInv
  <2>7. (\A u \in Threads : pc[u] = "recheck" => Outlasts(notAfter[got[u]] - Lifetime))'
    BY Zenon, <2>1, <2>2, <2>3 DEF Outlasts, RenewalInv
  <2>8. RenewalInv'
    BY <2>2, <2>6, <2>7 DEF RenewalInv
  <2> QED
    BY <2>4, <2>5, <2>8
<1> QED
  BY <1>1, <1>2

(* A new certificate changes nothing until it is saved.                    *)
LEMMA ObtainCore ==
  ASSUME CertTypeOK, Core, NEW t \in Threads, Obtain(t)
  PROVE  Core'
<1> USE DEF Core
<1>0. /\ UNCHANGED <<now, crt, key, lastOk, tainted, damaged>>
      /\ pc[t] = "obtain" /\ pc'[t] = "save" /\ got'[t] = Len(notAfter) + 1
      /\ \A u \in Threads \ {t} : pc'[u] = pc[u] /\ got'[u] = got[u]
  BY Zenon DEF Obtain, Goto, At, files, history, CertTypeOK
<1>1. Saved' <=> Saved
  BY <1>0 DEF Saved, Saving
<1>2. /\ \A i \in Issued : i \in Issued' /\ notAfter'[i] = notAfter[i]
      /\ Len(notAfter) + 1 \in Issued' /\ notAfter'[Len(notAfter) + 1] = now + Lifetime
      /\ \A i \in Issued' : i \in Issued \/ i = Len(notAfter) + 1
  BY SMTT(40), ObtainKeeps DEF Issued
<1>3. now \in Int /\ Lifetime \in Int /\ Days \in Int /\ Days < Lifetime
  BY SMTT(40), CertAssumption DEF CertTypeOK
<1>4. SaveInv'
  <2> SUFFICES ASSUME NEW u \in Threads
               PROVE  /\ pc'[u] \in {"save", "recheck"} \union Saving => got'[u] \in Issued'
                      /\ pc'[u] \in {"save"} \union Saving => notAfter'[got'[u]] > now' + Days
                      /\ u \in tainted' => pc'[u] \in Saving
                      /\ pc'[u] \in Saving /\ u \notin tainted' =>
                           /\ \A w \in Threads \ {u} : pc'[w] \notin Saving
                           /\ pc'[u] # "crt" => crt' = got'[u]
    BY Zenon DEF SaveInv
  <2>1. CASE u = t
    BY SMTT(40), <1>0, <1>2, <1>3, <2>1 DEF SaveInv, Saving
  <2>2. CASE u # t
    BY <1>0, <1>2, <2>2 DEF SaveInv, Saving
  <2> QED
    BY Zenon, <2>1, <2>2
<1>5. PairIntact'
  BY Zenon, <1>0, <1>1 DEF PairIntact, KeyPair
<1>7. (\A n \in Nodes : lastOk[n] # None => lastOk[n] <= now /\ Outlasts(lastOk[n]))'
  BY Zenon, <1>0, <1>1, <1>2 DEF Outlasts, RenewalInv
<1>8. (\A u \in Threads : pc[u] = "recheck" => Outlasts(notAfter[got[u]] - Lifetime))'
  <2> SUFFICES ASSUME NEW u \in Threads, pc'[u] = "recheck"
               PROVE  Outlasts(notAfter[got[u]] - Lifetime)'
    OBVIOUS
  <2>1. pc[u] = "recheck" /\ got'[u] = got[u] /\ got[u] \in Issued
    BY <1>0 DEF SaveInv
  <2>2. notAfter'[got'[u]] = notAfter[got[u]]
    BY <1>2, <2>1
  <2>3. Outlasts(notAfter[got[u]] - Lifetime)
    BY Zenon, <2>1 DEF RenewalInv
  <2> QED
    BY Zenon, <1>0, <1>1, <1>2, <2>2, <2>3 DEF Outlasts
<1>9. (\A i \in Issued : notAfter[i] <= now + Lifetime)' /\ crt' \in Issued' \union {None, Torn}
  BY SMTT(40), Z3T(40), <1>0, <1>2, <1>3 DEF RenewalInv
<1>10. RenewalInv'
  BY <1>7, <1>8, <1>9 DEF RenewalInv
<1> QED
  BY Zenon, <1>4, <1>5, <1>10

(* While a thread saves there is nothing to be kept but who saves what.    *)
LEMMA SavingCore ==
  ASSUME Core, NEW t \in Threads, pc'[t] \in Saving, SaveInv',
         UNCHANGED <<now, notAfter, got, lastOk>>, crt' \in Issued \union {None, Torn},
         \A u \in Threads \ {t} : pc'[u] = pc[u]
  PROVE  Core'
<1> USE DEF Core
<1>1. ~Saved' /\ Issued' = Issued
  BY Zenon DEF Saved, Issued
<1>2. PairIntact'
  BY <1>1 DEF PairIntact
<1>3. RenewalInv'
  BY Zenon, <1>1 DEF RenewalInv, Outlasts
<1> QED
  BY <1>2, <1>3

(* A save begins: it taints, and is tainted by, those under way.           *)
LEMMA OpenCrtCore ==
  ASSUME CertTypeOK, Core, NEW t \in Threads, OpenCrt(t)
  PROVE  Core'
<1> DEFINE others == {u \in Threads \ {t} : pc[u] \in Saving}
<1>0. /\ UNCHANGED <<now, notAfter, got, lastOk>> /\ crt' = Torn /\ Issued' = Issued
      /\ pc[t] = "save" /\ pc'[t] = "crt" /\ \A u \in Threads \ {t} : pc'[u] = pc[u]
      /\ tainted' = IF others = {} THEN tainted ELSE tainted \union others \union {t}
  BY Zenon DEF OpenCrt, Goto, At, Issued, CertTypeOK
<1>1. SaveInv'
  <2>0. SaveInv
    BY DEF Core
  <2> SUFFICES ASSUME NEW u \in Threads
               PROVE  /\ pc'[u] \in {"save", "recheck"} \union Saving => got'[u] \in Issued'
                      /\ pc'[u] \in {"save"} \union Saving => notAfter'[got'[u]] > now' + Days
                      /\ u \in tainted' => pc'[u] \in Saving
                      /\ pc'[u] \in Saving /\ u \notin tainted' =>
                           /\ \A w \in Threads \ {u} : pc'[w] \notin Saving
                           /\ pc'[u] # "crt" => crt' = got'[u]
    BY Zenon DEF SaveInv
  <2>1. CASE u = t
    BY Zenon, <1>0, <2>0, <2>1 DEF SaveInv, Saving
  <2>2. CASE u # t
    BY Zenon, <1>0, <2>0, <2>2 DEF SaveInv, Saving
  <2> QED
    BY <2>1, <2>2
<1> QED
  BY Zenon, <1>0, <1>1, SavingCore DEF Saving

(* The .crt of a save that met no other is its own.                        *)
LEMMA WriteCrtCore ==
  ASSUME CertTypeOK, Core, NEW t \in Threads, WriteCrt(t)
  PROVE  Core'
<1>0. /\ UNCHANGED <<now, notAfter, got, lastOk, tainted>> /\ crt' = got[t] /\ Issued' = Issued
      /\ pc[t] = "crt" /\ pc'[t] = "keyopen" /\ \A u \in Threads \ {t} : pc'[u] = pc[u]
  BY Zenon DEF WriteCrt, Goto, At, Issued, CertTypeOK, history
<1>1. SaveInv' /\ got[t] \in Issued
  BY ZenonT(40), <1>0 DEF Core, SaveInv, Saving
<1> QED
  BY Zenon, <1>0, <1>1, SavingCore DEF Saving

(* Opening the .key leaves the .crt.                                        *)
LEMMA OpenKeyCore ==
  ASSUME CertTypeOK, Core, NEW t \in Threads, OpenKey(t)
  PROVE  Core'
<1>0. /\ UNCHANGED <<now, notAfter, got, lastOk, tainted, crt>> /\ Issued' = Issued
      /\ pc[t] = "keyopen" /\ pc'[t] = "key" /\ \A u \in Threads \ {t} : pc'[u] = pc[u]
  BY Zenon DEF OpenKey, Goto, At, Issued, CertTypeOK, history
<1>1. SaveInv' /\ crt \in Issued \union {None, Torn}
  BY ZenonT(40), <1>0 DEF Core, SaveInv, Saving, RenewalInv
<1> QED
  BY ZenonT(40), <1>0, <1>1, SavingCore DEF Saving

(* The last write of a save that met no other leaves a pair, which         *)
(* outlasts what every renewal so far has promised.                        *)
LEMMA WriteKeyCore ==
  ASSUME CertTypeOK, Core, NEW t \in Threads, WriteKey(t)
  PROVE  Core'
<1> USE DEF Core
<1>0. /\ UNCHANGED <<now, notAfter, got, lastOk, crt>> /\ key' = got[t] /\ Issued' = Issued
      /\ damaged' = (t \in tainted) /\ tainted' = tainted \ {t}
      /\ pc[t] = "key" /\ pc'[t] = "recheck" /\ \A u \in Threads \ {t} : pc'[u] = pc[u]
  BY Zenon DEF WriteKey, Goto, At, Issued, CertTypeOK
<1>1. SaveInv'
  BY Zenon, <1>0 DEF SaveInv, Saving
<1>2. got[t] \in Issued /\ notAfter[got[t]] > now + Days
  BY Zenon, <1>0 DEF SaveInv, Saving
<1>3. Saved' => crt = got[t]
  BY ZenonT(40), <1>0 DEF SaveInv, Saved, Saving
<1>4. Issued \subseteq Certs
  <2>1. Len(notAfter) \in Nat /\ Len(notAfter) <= MaxCerts
    BY Zenon, LenProperties DEF CertTypeOK
  <2> QED
    BY <2>1, CertAssumption DEF Issued, Certs
<1>5. PairIntact'
  BY Zenon, <1>0, <1>2, <1>3, <1>4 DEF PairIntact, KeyPair
<1>6. now \in Int /\ Days \in Int /\ Lifetime \in Int /\ \A i \in Issued : notAfter[i] \in Int
  BY SMTT(40), CertAssumption, ElementOfSeq DEF CertTypeOK, Issued
<1>8. ASSUME NEW n \in Nodes, lastOk'[n] # None
      PROVE  lastOk'[n] <= now /\ Outlasts(lastOk[n])'
  <2>1. lastOk'[n] = lastOk[n] /\ lastOk[n] \in Int /\ lastOk[n] <= now
    BY SMTT(40), Z3T(40), <1>0, <1>8, CertAssumption DEF CertTypeOK, RenewalInv
  <2> QED
    BY SMTT(40), Z3T(40), <1>0, <1>2, <1>3, <1>6, <2>1 DEF Outlasts
<1>9. ASSUME NEW u \in Threads, pc'[u] = "recheck"
      PROVE  Outlasts(notAfter[got[u]] - Lifetime)'
  <2>1. got[u] \in Issued
    BY Zenon, <1>0, <1>2, <1>9 DEF SaveInv
  <2>2. notAfter[got[u]] - Lifetime \in Int /\ notAfter[got[u]] - Lifetime <= now
    BY SMTT(40), <1>6, <2>1 DEF RenewalInv
  <2> QED
    BY SMTT(40), <1>0, <1>2, <1>3, <1>6, <2>2 DEF Outlasts
<1>10. RenewalInv'
  BY Zenon, <1>0, <1>8, <1>9 DEF RenewalInv
<1> QED
  BY <1>1, <1>5, <1>10

(* The check that follows a renewal changes no file.                       *)
LEMMA RecheckCore ==
  ASSUME CertTypeOK, Core, NEW t \in Threads, Recheck(t)
  PROVE  Core'
<1>1. CASE ~Found
  BY Zenon, <1>1, FailsCore DEF Recheck, files
<1>2. CASE Found
  <2> USE DEF Core
  <2>0. /\ UNCHANGED <<now, notAfter, crt, key, tainted, damaged>> /\ Issued' = Issued
        /\ pc[t] = "recheck" /\ pc'[t] \in {"idle", "readcrt"}
        /\ \A u \in Threads \ {t} : pc'[u] = pc[u] /\ got'[u] = got[u]
        /\ lastOk' \in {lastOk, [lastOk EXCEPT ![t[1]] = notAfter[got[t]] - Lifetime]}
    BY Zenon, <1>2 DEF Recheck, Goto, At, Issued, CertTypeOK, files
  <2>1. Saved' <=> Saved
    BY Zenon, <2>0 DEF Saved, Saving
  <2>2. SaveInv'
    BY ZenonT(40), <2>0 DEF SaveInv, Saving
  <2>3. PairIntact'
    BY Zenon, <2>0, <2>1 DEF PairIntact, KeyPair
  <2>4. /\ notAfter[got[t]] - Lifetime <= now
        /\ Outlasts(notAfter[got[t]] - Lifetime)
    <3>1. got[t] \in Issued
      BY Zenon, <2>0 DEF SaveInv
    <3>2. notAfter[got[t]] \in Int /\ now \in Int /\ Lifetime \in Int
      BY SMTT(40), <3>1, CertAssumption, ElementOfSeq DEF CertTypeOK, Issued
    <3> QED
      BY SMTT(40), <2>0, <3>1, <3>2 DEF RenewalInv
  <2>5. ASSUME NEW n \in Nodes, lastOk'[n] # None
        PROVE  lastOk'[n] <= now /\ Outlasts(lastOk[n])'
    <3>1. lastOk'[n] = lastOk[n] \/ lastOk'[n] = notAfter[got[t]] - Lifetime
      BY Zenon, <2>0 DEF CertTypeOK
    <3>2. CASE lastOk'[n] = lastOk[n]
      BY ZenonT(40), <2>0, <2>1, <2>5, <3>2 DEF Outlasts, RenewalInv
    <3>3. CASE lastOk'[n] = notAfter[got[t]] - Lifetime
      BY ZenonT(40), <2>0, <2>1, <2>4, <3>3 DEF Outlasts
    <3> QED
      BY Zenon, <3>1, <3>2, <3>3
  <2>6. (\A u \in Threads : pc[u] = "recheck" => Outlasts(notAfter[got[u]] - Lifetime))'
    BY ZenonT(40), <2>0, <2>1 DEF Outlasts, RenewalInv
  <2>7. RenewalInv'
    BY <2>0, <2>5, <2>6 DEF RenewalInv
  <2> QED
    BY <2>2, <2>3, <2>7
<1> QED
  BY <1>1, <1>2

(* Time passes.                                                            *)
LEMMA DayCore ==
  ASSUME CertTypeOK, Core, Day
  PROVE  Core'
<1> USE DEF Core
<1>0. /\ UNCHANGED <<crt, key, notAfter, pc, got, lastOk, tainted, damaged>> /\ Issued' = Issued
      /\ now' = now + 1 /\ now \in Int /\ Days \in Int /\ Lifetime \in Int
      /\ \A i \in Issued : notAfter[i] \in Int
      /\ \A n \in Nodes : lastOk[n] # None => lastOk[n] \in Int
  <2>1. /\ UNCHANGED <<crt, key, notAfter, pc, got, lastOk, tainted, damaged>> /\ now' = now + 1
    BY Zenon DEF Day, files, history
  <2>2. MaxTime \in Int /\ Days \in Int /\ Lifetime \in Int
    BY CertAssumption
  <2>3. \A i \in Issued : notAfter[i] \in Lifetime..(MaxTime + Lifetime)
    BY ZenonT(40), ElementOfSeq DEF CertTypeOK, Issued
  <2>4. \A n \in Nodes : lastOk[n] # None => lastOk[n] \in 0..MaxTime
    BY DEF CertTypeOK
  <2> QED
    BY SMTT(60), Z3T(60), <2>1, <2>2, <2>3, <2>4 DEF CertTypeOK, Issued
<1>1. \A t \in Threads : pc[t] \in {"save"} \union Saving => notAfter[got[t]] > now' + Days
  BY Zenon DEF Day
<1>2. SaveInv'
  BY <1>0, <1>1 DEF SaveInv
<1>3. PairIntact'
  BY <1>0 DEF PairIntact, Saved, KeyPair
<1>4. Saved' <=> Saved
  BY Zenon, <1>0 DEF Saved
<1>5. (\A n \in Nodes : lastOk[n] # None => lastOk[n] <= now /\ Outlasts(lastOk[n]))'
  BY SMTT(40), <1>0, <1>4 DEF Outlasts, RenewalInv
<1>6. (\A u \in Threads : pc[u] = "recheck" => Outlasts(notAfter[got[u]] - Lifetime))'
  BY Zenon, <1>0, <1>4 DEF Outlasts, RenewalInv
<1>7. (\A i \in Issued : notAfter[i] <= now + Lifetime)' /\ crt' \in Issued' \union {None, Torn}
  BY SMTT(40), <1>0 DEF RenewalInv
<1>8. RenewalInv'
  BY ZenonT(40), <1>5, <1>6, <1>7 DEF RenewalInv
<1> QED
  BY Zenon, <1>2, <1>3, <1>8

(* A step of a thread that holds no certificate.                           *)
LEMMA QuietStep ==
  ASSUME CertTypeOK, NEW t \in Threads,
         \/ CheckCertFile(t) \/ GeneratePrivateKey(t) \/ Register(t) \/ SaveAccount(t)
         \/ ReadCrt(t) \/ ReadKey(t)
  PROVE  Moves(t)
BY ZenonT(40) DEF CheckCertFile, GeneratePrivateKey, Register, SaveAccount, ReadCrt,
   ReadKey, Moves,
       Goto, At, Holding, Saving, files, history, CertTypeOK

(* Every step keeps what the two invariants rest on.                       *)
LEMMA CoreStep ==
  ASSUME CertTypeOK, Core, [CertNext]_certVars
  PROVE  Core'
<1>1. CASE \E n \in Nodes : GetCertFile(n) \/ certMonitor(n)
  <2>1. PICK n \in Nodes : GetCertFile(n) \/ certMonitor(n)
    BY <1>1
  <2>2. <<n, "node">> \in Threads /\ <<n, "cert">> \in Threads
    BY Zenon DEF Threads
  <2>3. Moves(<<n, "node">>) \/ Moves(<<n, "cert">>)
    BY ZenonT(40), <2>1, <2>2 DEF GetCertFile, certMonitor, Moves, Goto, At, Holding,
       Saving, files,
                      history, CertTypeOK
  <2> QED
    BY <2>2, <2>3, MovesCore
<1>2. CASE (\E n \in Nodes : Watch(n)) \/ UNCHANGED certVars
  <2>1. UNCHANGED <<now, crt, key, notAfter, pc, got, lastOk, tainted, damaged>>
    BY ZenonT(40), <1>2 DEF Watch, WatchCrt, WatchKey, certVars, files, history
  <2> QED
    BY ZenonT(40), <2>1 DEF Core, SaveInv, PairIntact, RenewalInv, Outlasts, Saved, Issued,
       KeyPair
<1>3. ASSUME NEW t \in Threads, ThreadStep(t) PROVE Core'
  <2>1. CASE \/ CheckCertFile(t) \/ GeneratePrivateKey(t) \/ Register(t) \/ SaveAccount(t)
             \/ ReadCrt(t) \/ ReadKey(t)
    BY <2>1, QuietStep, MovesCore
  <2>2. CASE GetPrivateKey(t)
    <3>1. UNCHANGED <<now, crt, key, notAfter>>
      BY Zenon, <2>2 DEF GetPrivateKey
    <3>2. Fails(t) \/ Moves(t)
      BY ZenonT(40), <2>2 DEF GetPrivateKey, Moves, Goto, At, Holding, Saving, history,
         CertTypeOK
    <3> QED
      BY <3>1, <3>2, FailsCore, MovesCore
  <2>3. CASE Account(t)
    <3>1. UNCHANGED <<now, crt, key, notAfter>>
      BY Zenon, <2>3 DEF Account, files
    <3>2. Fails(t) \/ Moves(t)
      BY ZenonT(40), <2>3 DEF Account, Moves, Goto, At, Holding, Saving, history, files,
         CertTypeOK
    <3> QED
      BY <3>1, <3>2, FailsCore, MovesCore
  <2>4. CASE ReadCertificate(t)
    <3>1. UNCHANGED <<now, crt, key, notAfter>>
      BY <2>4 DEF ReadCertificate, files
    <3>2. CASE Fails(t)
      BY <3>1, <3>2, FailsCore
    <3>3. CASE Goto(t, "obtain") /\ UNCHANGED <<got, history>>
      <4>1. Moves(t)
        BY ZenonT(40), <2>4, <3>1, <3>3 DEF ReadCertificate, Moves, Goto, At, Holding,
           Saving, history, CertTypeOK
      <4> QED
        BY Zenon, <4>1, MovesCore
    <3>4. CASE /\ crt \in Certs /\ ~needRenewal(crt)
               /\ Goto(t, "idle") /\ lastOk' = [lastOk EXCEPT ![t[1]] = now]
               /\ UNCHANGED <<got, tainted, damaged>>
      BY Zenon, <2>4, <3>4, NotDueCore DEF Goto
    <3> QED
      BY Zenon, <2>4, <3>2, <3>3, <3>4 DEF ReadCertificate
  <2> QED
    BY Zenon, <1>3, <2>1, <2>2, <2>3, <2>4, ObtainCore, OpenCrtCore, WriteCrtCore,
       OpenKeyCore,
       WriteKeyCore, RecheckCore DEF ThreadStep
<1>4. ASSUME NEW t \in Threads, Refused(t) PROVE Core'
  BY <1>4, FailsCore DEF Refused, files
<1>5. CASE Crash
  BY <1>5, DiesCore DEF Crash, files
<1>6. CASE Day
  BY Zenon, <1>6, DayCore
<1> QED
  BY <1>1, <1>2, <1>3, <1>4, <1>5, <1>6 DEF CertNext

-----------------------------------------------------------------------------
(* The types.                                                              *)

TLSType == [watching : BOOLEAN, seen : Content \X Content,
            served : Certs \union {None}, half : Content]

(* Slot makes a slot.                                                      *)
LEMMA SlotType ==
  ASSUME NEW w \in BOOLEAN, NEW s \in Content \X Content, NEW v \in Certs \union {None},
         NEW h \in Content
  PROVE  Slot(w, s, v, h) \in TLSType
BY DEF Slot, TLSType

(* The slot of an inbound that watches nothing.                            *)
LEMMA NoTLSType == NoTLS \in TLSType
BY Zenon, SlotType DEF NoTLS, Content

(* The end of the process keeps the types.                                 *)
LEMMA DiesTypes ==
  ASSUME CertTypeOK, Dies
  PROVE  /\ pc' \in [Threads -> Steps] /\ got' \in [Threads -> Content]
         /\ started' \subseteq Nodes /\ tls' \in [Nodes -> TLSType]
         /\ lastOk' \in [Nodes -> 0..MaxTime \union {None}]
BY NoTLSType DEF Dies, Steps, Content

(* So does an error of one thread.                                         *)
LEMMA FailsTypes ==
  ASSUME CertTypeOK, NEW t \in Threads, Fails(t)
  PROVE  /\ pc' \in [Threads -> Steps] /\ got' \in [Threads -> Content]
         /\ started' \subseteq Nodes /\ tls' \in [Nodes -> TLSType]
         /\ lastOk' \in [Nodes -> 0..MaxTime \union {None}]
<1>1. CASE Dies
  BY Zenon, <1>1, DiesTypes
<1>2. CASE ~Dies
  BY ZenonT(40), <1>2 DEF Fails, Goto, CertTypeOK, Steps, Content, TLSType
<1> QED
  BY Zenon, <1>1, <1>2

(* The watcher's slot.                                                     *)
LEMMA TLSStep ==
  ASSUME CertTypeOK, [CertNext]_certVars
  PROVE  tls' \in [Nodes -> TLSType]
<1>0. tls \in [Nodes -> TLSType] /\ crt \in Content /\ key \in Content
  BY ZenonT(40) DEF CertTypeOK, TLSType
<1>1. ASSUME NEW c \in Content, NEW k \in Content PROVE NewSlot(c, k) \in TLSType
  <2>1. /\ KeyPair(c, k) \in BOOLEAN /\ <<c, k>> \in Content \X Content /\ None \in Content
        /\ (IF KeyPair(c, k) THEN c ELSE None) \in Certs \union {None}
    BY Zenon DEF KeyPair, Content
  <2> QED
    BY Zenon, <2>1, SlotType DEF NewSlot
<1>2. ASSUME NEW n \in Nodes, WatchCrt(n) PROVE tls' \in [Nodes -> TLSType]
  <2>1. tls[n] \in TLSType
    BY Zenon, <1>0
  <2>2. tls[n].seen \in Content \X Content /\ tls[n].served \in Certs \union {None}
    BY <2>1 DEF TLSType
  <2>3. Slot(TRUE, tls[n].seen, tls[n].served, crt) \in TLSType
    BY ZenonT(40), <1>0, <2>2, SlotType
  <2> QED
    BY Zenon, <1>0, <1>2, <2>3 DEF WatchCrt
<1>3. ASSUME NEW n \in Nodes, WatchKey(n) PROVE tls' \in [Nodes -> TLSType]
  <2>1. tls[n] \in TLSType
    BY <1>0
  <2>2. /\ tls[n].seen \in Content \X Content /\ tls[n].served \in Certs \union {None}
        /\ tls[n].half \in Content /\ None \in Content
        /\ <<tls[n].half, key>> \in Content \X Content
        /\ (IF KeyPair(tls[n].half, key) THEN key ELSE tls[n].served) \in Certs \union {None}
    BY Zenon, <1>0, <2>1 DEF TLSType, KeyPair, Content
  <2>3. /\ Slot(TRUE, tls[n].seen, tls[n].served, None) \in TLSType
        /\ Slot(TRUE, <<tls[n].half, key>>,
                IF KeyPair(tls[n].half, key) THEN key ELSE tls[n].served, None) \in TLSType
    BY ZenonT(40), <2>2, SlotType
  <2> QED
    BY Zenon, <1>0, <1>3, <2>3 DEF WatchKey
<1>4. ASSUME NEW t \in Threads, ReadKey(t) PROVE tls' \in [Nodes -> TLSType]
  <2>1. got[t] \in Content
    BY Zenon DEF CertTypeOK
  <2>2. NewSlot(got[t], key) \in TLSType
    BY <1>0, <1>1, <2>1
  <2> QED
    BY Zenon, <1>0, <1>4, <2>2, ThreadShape DEF ReadKey
<1>5. ASSUME NEW t \in Threads, Fails(t) PROVE tls' \in [Nodes -> TLSType]
  BY <1>5, FailsTypes
<1>6. CASE Dies
  BY <1>6, DiesTypes
<1>7. CASE tls' = tls
  BY Zenon, <1>0, <1>7
<1>8. ASSUME NEW t \in Threads,
             \/ CheckCertFile(t) \/ GetPrivateKey(t) \/ GeneratePrivateKey(t)
             \/ Account(t) \/ Register(t) \/ SaveAccount(t) \/ ReadCertificate(t)
      PROVE  tls' \in [Nodes -> TLSType]
  BY ZenonT(40), <1>5, <1>7, <1>8
     DEF CheckCertFile, GetPrivateKey, GeneratePrivateKey, Account, Register, SaveAccount,
         ReadCertificate
<1>9. ASSUME NEW t \in Threads,
             \/ Obtain(t) \/ OpenCrt(t) \/ WriteCrt(t) \/ OpenKey(t) \/ WriteKey(t)
             \/ Recheck(t) \/ ReadCrt(t) \/ Refused(t)
      PROVE  tls' \in [Nodes -> TLSType]
  BY ZenonT(40), <1>5, <1>7, <1>9
     DEF Obtain, OpenCrt, WriteCrt, OpenKey, WriteKey, Recheck, ReadCrt, Refused
<1>10. ASSUME NEW n \in Nodes, GetCertFile(n) \/ certMonitor(n)
       PROVE  tls' \in [Nodes -> TLSType]
  BY ZenonT(40), <1>7, <1>10 DEF GetCertFile, certMonitor
<1>11. CASE Crash \/ Day \/ UNCHANGED certVars
  BY ZenonT(40), <1>6, <1>7, <1>11 DEF Crash, Day, certVars
<1> QED
  BY ZenonT(40), <1>2, <1>3, <1>4, <1>8, <1>9, <1>10, <1>11 DEF CertNext, Watch, ThreadStep

(* What the threads do.                                                    *)
LEMMA ThreadTypes ==
  ASSUME CertTypeOK, SaveInv, RenewalInv, [CertNext]_certVars
  PROVE  /\ pc' \in [Threads -> Steps] /\ got' \in [Threads -> Content]
         /\ started' \subseteq Nodes
         /\ lastOk' \in [Nodes -> 0..MaxTime \union {None}]
<1>0. /\ pc \in [Threads -> Steps] /\ got \in [Threads -> Content] /\ started \subseteq Nodes
      /\ lastOk \in [Nodes -> 0..MaxTime \union {None}] /\ now \in 0..MaxTime
      /\ crt \in Content /\ None \in Content
  BY ZenonT(40) DEF CertTypeOK, Content
<1>1. CASE \E n \in Nodes : GetCertFile(n) \/ certMonitor(n) \/ Watch(n)
  BY ZenonT(40), <1>0, <1>1 DEF GetCertFile, certMonitor, Watch, WatchCrt, WatchKey, Goto,
     Steps, history
<1>2. ASSUME NEW t \in Threads, ThreadStep(t), ~Fails(t)
      PROVE  /\ pc' \in [Threads -> Steps] /\ got' \in [Threads -> Content]
             /\ started' \subseteq Nodes
             /\ lastOk' \in [Nodes -> 0..MaxTime \union {None}]
  <2>1. PICK there \in Steps : pc' = [pc EXCEPT ![t] = there]
    BY ZenonT(40), <1>2 DEF ThreadStep, CheckCertFile, GetPrivateKey,
         GeneratePrivateKey, Account, Register, SaveAccount, ReadCertificate, Obtain,
         OpenCrt, WriteCrt, OpenKey, WriteKey, Recheck, ReadCrt, ReadKey, Goto, Steps
  <2>2. CASE Obtain(t)
    <3>1. Len(notAfter) + 1 \in Certs
      <4>1. Len(notAfter) \in Nat
        BY Zenon, LenProperties DEF CertTypeOK
      <4> QED
        BY SMTT(40), <2>2, <4>1, CertAssumption DEF Obtain, Certs
    <3> QED
      BY Zenon, <1>0, <2>1, <2>2, <3>1 DEF Obtain, Content, history
  <2>3. CASE ReadCertificate(t)
    BY Zenon, <1>0, <1>2, <2>1, <2>3, ThreadShape DEF ReadCertificate, history
  <2>4. CASE Recheck(t)
    <3>1. got[t] \in Issued
      BY ZenonT(40), <2>4 DEF Recheck, At, SaveInv
    <3>2. notAfter[got[t]] \in Lifetime..(MaxTime + Lifetime)
      BY ZenonT(40), <3>1, ElementOfSeq DEF CertTypeOK, Issued
    <3>3. notAfter[got[t]] - Lifetime \in 0..MaxTime
      BY SMTT(40), <3>2, CertAssumption
    <3> QED
      BY ZenonT(40), <1>0, <1>2, <2>1, <2>4, <3>3, ThreadShape DEF Recheck
  <2>5. CASE ReadCrt(t) \/ ReadKey(t)
    BY ZenonT(40), <1>0, <2>1, <2>5, ThreadShape DEF ReadCrt, ReadKey, history
  <2>6. CASE UNCHANGED <<got, started, lastOk>>
    BY Zenon, <1>0, <2>1, <2>6
  <2> QED
    BY ZenonT(40), <1>2, <2>2, <2>3, <2>4, <2>5, <2>6 DEF ThreadStep, CheckCertFile,
       GetPrivateKey,
         GeneratePrivateKey, Account, Register, SaveAccount, OpenCrt, WriteCrt, OpenKey,
         WriteKey, history
<1>3. ASSUME NEW t \in Threads, Fails(t)
      PROVE  /\ pc' \in [Threads -> Steps] /\ got' \in [Threads -> Content]
             /\ started' \subseteq Nodes
             /\ lastOk' \in [Nodes -> 0..MaxTime \union {None}]
  BY Zenon, <1>3, FailsTypes
<1>4. CASE Crash
  BY Zenon, <1>4, DiesTypes DEF Crash
<1>5. CASE Day \/ UNCHANGED certVars
  BY Zenon, <1>0, <1>5 DEF Day, certVars, history
<1> QED
  BY Zenon, <1>1, <1>2, <1>3, <1>4, <1>5 DEF CertNext, Refused

(* The files, the certificates issued and the day.                         *)
LEMMA FileTypes ==
  ASSUME CertTypeOK, [CertNext]_certVars
  PROVE  /\ now' \in 0..MaxTime /\ domain' \in Domains
         /\ crt' \in Content /\ key' \in Content
         /\ acctKey' \in {None, Torn, "good"} /\ acct' \in {None, Torn, "good"}
         /\ notAfter' \in Seq(Lifetime..(MaxTime + Lifetime)) /\ Len(notAfter') <= MaxCerts
<1>0. /\ now \in 0..MaxTime /\ domain \in Domains /\ crt \in Content /\ key \in Content
      /\ acctKey \in {None, Torn, "good"} /\ acct \in {None, Torn, "good"}
      /\ notAfter \in Seq(Lifetime..(MaxTime + Lifetime)) /\ Len(notAfter) <= MaxCerts
      /\ \A t \in Threads : got[t] \in Content
      /\ Torn \in Content
  BY ZenonT(40) DEF CertTypeOK, Content
<1>1. ASSUME NEW t \in Threads, Obtain(t)
      PROVE  /\ notAfter' \in Seq(Lifetime..(MaxTime + Lifetime)) /\ Len(notAfter') <= MaxCerts
             /\ UNCHANGED <<now, domain, files>>
  <2>1. Len(notAfter') = Len(notAfter) + 1 /\ Len(notAfter) \in Nat
        /\ notAfter' \in Seq(Lifetime..(MaxTime + Lifetime))
    BY Zenon, <1>1, ObtainKeeps
  <2> QED
    BY SMTT(60), <1>1, <2>1, CertAssumption DEF Obtain
<1>2. CASE Day
  <2>1. now' = now + 1 /\ now < MaxTime /\ UNCHANGED <<domain, files, notAfter>>
    BY Zenon, <1>2 DEF Day
  <2>2. now' \in 0..MaxTime
    BY SMTT(40), <1>0, <2>1, CertAssumption
  <2> QED
    BY Zenon, <1>0, <2>1, <2>2 DEF files
<1>3. ASSUME NEW t \in Threads, ThreadStep(t), ~Obtain(t)
      PROVE  /\ UNCHANGED <<now, domain, notAfter>>
             /\ crt' \in {crt, Torn, got[t]} /\ key' \in {key, Torn, got[t]}
             /\ acctKey' \in {acctKey, Torn, "good"} /\ acct' \in {acct, Torn, "good"}
  BY ZenonT(40), <1>3 DEF ThreadStep, CheckCertFile, GetPrivateKey,
       GeneratePrivateKey, Account, Register, SaveAccount, ReadCertificate,
       OpenCrt, WriteCrt, OpenKey, WriteKey, Recheck, ReadCrt, ReadKey, files
<1>4. CASE UNCHANGED <<now, domain, files, notAfter>>
  BY Zenon, <1>0, <1>4 DEF files
<1>5. CASE \E t \in Threads : ThreadStep(t)
  <2>1. PICK t \in Threads : ThreadStep(t)
    BY Zenon, <1>5
  <2>2. CASE Obtain(t)
    BY Zenon, <1>0, <1>1, <2>2 DEF files
  <2>3. CASE ~Obtain(t)
    BY Zenon, <1>0, <1>3, <2>1, <2>3
  <2> QED
    BY <2>2, <2>3
<1> QED
  BY ZenonT(40), <1>2, <1>4, <1>5 DEF CertNext, GetCertFile, certMonitor, Watch, WatchCrt,
     WatchKey,
                          Refused, Crash, certVars

(* An account has a key.                                                   *)
LEMMA AccountStep ==
  ASSUME CertTypeOK, AccountInv, [CertNext]_certVars
  PROVE  AccountInv'
<1> DEFINE With == {"account", "register", "saveacct"}
<1>1. CASE \E n \in Nodes : GetCertFile(n) \/ certMonitor(n)
  BY ZenonT(40), <1>1 DEF CertTypeOK, AccountInv, GetCertFile, certMonitor, Goto, files
<1>2. ASSUME NEW t \in Threads, Fails(t), UNCHANGED <<acct, acctKey>> PROVE AccountInv'
  BY ZenonT(40), <1>2 DEF CertTypeOK, AccountInv, Fails, Dies, Goto
<1>3. ASSUME NEW t \in Threads, GetPrivateKey(t) PROVE AccountInv'
  <2>1. CASE acctKey = Torn
    BY Zenon, <1>2, <1>3, <2>1 DEF GetPrivateKey
  <2>2. CASE acctKey # Torn
    BY ZenonT(40), <1>3, <2>2, CertAssumption DEF CertTypeOK, AccountInv, GetPrivateKey,
       Goto, At
  <2> QED
    BY <2>1, <2>2
<1>4. ASSUME NEW t \in Threads, GeneratePrivateKey(t) PROVE AccountInv'
  BY ZenonT(40), <1>4 DEF CertTypeOK, AccountInv, GeneratePrivateKey
<1>5. ASSUME NEW t \in Threads, Account(t) \/ Register(t) \/ SaveAccount(t)
      PROVE  AccountInv'
  <2>1. CASE Account(t) /\ Fails(t)
    BY Zenon, <1>2, <2>1 DEF Account, files
  <2>2. CASE Account(t) /\ ~Fails(t)
    BY ZenonT(40), <2>2 DEF CertTypeOK, AccountInv, Account, At, files
  <2>3. CASE Register(t) \/ SaveAccount(t)
    BY Zenon, <2>3 DEF CertTypeOK, AccountInv, Register, SaveAccount, At
  <2> QED
    BY Zenon, <1>5, <2>1, <2>2, <2>3
<1>6. ASSUME NEW t \in Threads,
             \/ CheckCertFile(t) \/ ReadCertificate(t) \/ Obtain(t) \/ OpenCrt(t) \/ WriteCrt(t)
             \/ OpenKey(t) \/ WriteKey(t) \/ Recheck(t) \/ ReadCrt(t) \/ ReadKey(t)
      PROVE  AccountInv'
  <2>1. UNCHANGED <<acct, acctKey>>
    BY Zenon, <1>6 DEF CheckCertFile, ReadCertificate, Obtain,
         OpenCrt, WriteCrt, OpenKey, WriteKey, Recheck, ReadCrt, ReadKey, files
  <2>2. CASE Fails(t)
    BY Zenon, <1>2, <2>1, <2>2
  <2>3. CASE ~Fails(t)
    <3>1. PICK there \in Steps \ With : pc' = [pc EXCEPT ![t] = there]
      BY ZenonT(40), <1>6, <2>3 DEF CheckCertFile, ReadCertificate, Obtain,
           OpenCrt, WriteCrt, OpenKey, WriteKey, Recheck, ReadCrt, ReadKey, Goto, Steps
    <3> QED
      BY Zenon, <2>1, <3>1 DEF CertTypeOK, AccountInv
  <2> QED
    BY Zenon, <2>2, <2>3
<1>7. CASE Crash
  BY Zenon, <1>7 DEF AccountInv, Crash, Dies, files
<1>8. CASE (\E n \in Nodes : Watch(n)) \/ Day \/ UNCHANGED certVars
  BY ZenonT(40), <1>8 DEF AccountInv, Watch, WatchCrt, WatchKey, Day, files, certVars
<1>9. ASSUME NEW t \in Threads, Refused(t) PROVE AccountInv'
  BY Zenon, <1>2, <1>9 DEF Refused, files
<1>10. ASSUME NEW t \in Threads, ThreadStep(t) PROVE AccountInv'
  BY <1>3, <1>4, <1>5, <1>6, <1>10 DEF ThreadStep
<1> QED
  BY Zenon, <1>1, <1>7, <1>8, <1>9, <1>10 DEF CertNext

(* The first state satisfies the invariant.                                *)
LEMMA CertInitInv == CertInit => CertInv
<1> SUFFICES ASSUME CertInit PROVE CertInv
  BY Zenon
<1>1. CertTypeOK
  <2>1. tls \in [Nodes -> TLSType]
    BY NoTLSType DEF CertInit
  <2>2. notAfter \in Seq(Lifetime..(MaxTime + Lifetime)) /\ Len(notAfter) = 0
    BY SMTT(40) DEF CertInit
  <2>3. /\ pc \in [Threads -> Steps] /\ got \in [Threads -> Content]
        /\ lastOk \in [Nodes -> 0..MaxTime \union {None}]
    BY Zenon DEF CertInit, Steps, Content
  <2>4. now \in 0..MaxTime /\ Len(notAfter) <= MaxCerts
    BY SMTT(40), <2>2, CertAssumption DEF CertInit
  <2> QED
    BY ZenonT(40), <2>1, <2>2, <2>3, <2>4 DEF CertInit, CertTypeOK, Content, TLSType
<1>2. SaveInv /\ AccountInv
  BY DEF CertInit, SaveInv, AccountInv, Saving
<1>3. PairIntact
  BY DEF CertInit, PairIntact
<1>4. RenewalInv
  <2>1. Issued = {}
    BY DEF CertInit, Issued
  <2> QED
    BY <2>1 DEF CertInit, RenewalInv
<1> QED
  BY <1>1, <1>2, <1>3, <1>4 DEF CertInv

(* What is on the disk, what is being saved and what the renewals promised *)
(* fit together, whatever the nodes, the authority and the disk do.        *)
THEOREM CertInvariant == CertSpec => []CertInv
<1>1. CertInv /\ [CertNext]_certVars => CertInv'
  <2> SUFFICES ASSUME CertInv, [CertNext]_certVars PROVE CertInv'
    BY Zenon
  <2>1. CertTypeOK'
    BY ZenonT(40), ThreadTypes, FileTypes, TLSStep DEF CertInv, CertTypeOK, TLSType
  <2>2. Core'
    BY CoreStep DEF CertInv, Core
  <2>3. AccountInv'
    BY AccountStep DEF CertInv
  <2> QED
    BY <2>1, <2>2, <2>3 DEF CertInv, Core
<1> QED
  BY <1>1, CertInitInv, PTL DEF CertSpec

(* PairIntact: a save that went through alone leaves a certificate and its *)
(* own key, after any crashes, errors and saves before it.                 *)
THEOREM PairsIntact == CertSpec => []PairIntact
<1>1. CertInv => PairIntact
  BY Zenon DEF CertInv
<1> QED
  BY <1>1, CertInvariant, PTL

(* RenewalsKeepValid: whichever node's certificate is the one on the disk, *)
(* it is valid for every node that renewed in the last 30 days.            *)
THEOREM RenewedIsValid == CertSpec => []RenewalsKeepValid
<1>1. CertInv => RenewalsKeepValid
  <2> SUFFICES ASSUME CertInv, NEW n \in Nodes,
                      lastOk[n] # None, now <= lastOk[n] + Days, Saved
               PROVE  crt \in Certs /\ now < notAfter[crt]
    BY Zenon DEF RenewalsKeepValid
  <2>1. crt \in Issued /\ notAfter[crt] > lastOk[n] + Days
    BY Zenon DEF CertInv, RenewalInv, Outlasts
  <2>2. Len(notAfter) \in Nat /\ Len(notAfter) <= MaxCerts
    BY ZenonT(40), LenProperties DEF CertInv, CertTypeOK
  <2>3. crt \in Certs
    BY SMTT(40), <2>1, <2>2, CertAssumption DEF Issued, Certs
  <2>4. notAfter[crt] \in Lifetime..(MaxTime + Lifetime)
    BY ZenonT(40), <2>1, ElementOfSeq DEF CertInv, CertTypeOK, Issued
  <2>5. lastOk[n] \in 0..MaxTime /\ now \in Int
    BY DEF CertInv, CertTypeOK
  <2>6. MaxTime \in Int /\ Lifetime \in Int /\ Days \in Int
    BY CertAssumption
  <2> QED
    BY SMTT(40), <2>1, <2>3, <2>4, <2>5, <2>6
<1> QED
  BY <1>1, CertInvariant, PTL

=============================================================================
