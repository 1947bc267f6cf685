----------------------------- MODULE VaultProofs -----------------------------
(***************************************************************************)
(* Proofs about VaultOperator, for every set of paths and configurations   *)
(* and any number of outside events.                                       *)
(***************************************************************************)
EXTENDS VaultOperator, TLAPS

(* None is not an object. *)
LEMMA NoneIsNoObject == None \notin VaultSecrets /\ None \notin SecretsOf
BY DEF None, VaultSecrets, SecretsOf

(* The changes that are made to a VaultSecret leave it one, and touch what *)
(* they say.                                                               *)
LEMMA Edited ==
  ASSUME NEW c \in VaultSecrets, NEW p \in Paths
  PROVE  /\ [c EXCEPT !.path = p, !.gen = @ + 1] \in VaultSecrets
         /\ [c EXCEPT !.path = p, !.gen = @ + 1].uid = c.uid
         /\ [c EXCEPT !.path = p, !.gen = @ + 1].gen = c.gen + 1
         /\ [c EXCEPT !.path = p, !.gen = @ + 1].observed = c.observed
<1>1. c.gen \in Nat /\ c.gen + 1 \in Nat
  BY DEF VaultSecrets
<1> QED BY <1>1, Zenon DEF VaultSecrets

LEMMA MarkedDeleted ==
  ASSUME NEW c \in VaultSecrets
  PROVE  /\ [c EXCEPT !.del = TRUE, !.gen = @ + 1] \in VaultSecrets
         /\ [c EXCEPT !.del = TRUE, !.gen = @ + 1].uid = c.uid
         /\ [c EXCEPT !.del = TRUE, !.gen = @ + 1].gen = c.gen + 1
         /\ [c EXCEPT !.del = TRUE, !.gen = @ + 1].observed = c.observed
<1>1. c.gen \in Nat /\ c.gen + 1 \in Nat
  BY DEF VaultSecrets
<1> QED BY <1>1, Zenon DEF VaultSecrets

LEMMA Conditioned ==
  ASSUME NEW c \in VaultSecrets, NEW s \in {"true", "false"}, NEW g \in Nat
  PROVE  [c EXCEPT !.ready = s, !.observed = g] \in VaultSecrets
BY Zenon DEF VaultSecrets

LEMMA Finalized ==
  ASSUME NEW c \in VaultSecrets
  PROVE  /\ [c EXCEPT !.fin = TRUE] \in VaultSecrets
         /\ [c EXCEPT !.fin = TRUE].uid = c.uid
         /\ [c EXCEPT !.fin = TRUE].gen = c.gen
         /\ [c EXCEPT !.fin = TRUE].path = c.path
         /\ [c EXCEPT !.fin = TRUE].ready = c.ready
         /\ [c EXCEPT !.fin = TRUE].observed = c.observed
BY Zenon DEF VaultSecrets

LEMMA Readied ==
  ASSUME NEW c \in VaultSecrets, NEW s \in {"true", "false"}
  PROVE  /\ [c EXCEPT !.ready = s] \in VaultSecrets
         /\ [c EXCEPT !.ready = s].uid = c.uid
         /\ [c EXCEPT !.ready = s].gen = c.gen
         /\ [c EXCEPT !.ready = s].path = c.path
BY DEF VaultSecrets

(* What updateConditions may write: the condition, for the generation of   *)
(* the copy, and only when the copy is the latest version.                 *)
LEMMA ConditionsWritten ==
  ASSUME TypeOK, updateConditions, cr' # cr
  PROVE  /\ latest /\ cr # None /\ cr' \in VaultSecrets
         /\ cr'.uid = cr.uid /\ cr'.gen = cr.gen /\ cr'.path = cr.path
         /\ cr'.observed = me.gen /\ (cr'.ready = "true" => after # "retry")
<1> DEFINE ready == IF after = "retry" THEN "false" ELSE "true"
<1>1. latest
  BY DEF updateConditions, WriteCR, Ok
<1>2. cr' = [cr EXCEPT !.ready = ready, !.observed = me.gen]
  BY DEF updateConditions, WriteCR, Ok
<1>3. cr \in VaultSecrets /\ cr # None
  BY <1>1 DEF TypeOK
<1>4. ready \in {"true", "false"} /\ me.gen \in Nat
  BY SMTT(30) DEF updateConditions, TypeOK, VaultSecrets
<1>5. cr' \in VaultSecrets
  BY <1>2, <1>3, <1>4, Conditioned, Zenon
<1>6. cr'.uid = cr.uid /\ cr'.gen = cr.gen /\ cr'.path = cr.path
  BY <1>2, <1>3 DEF VaultSecrets
<1>7. cr'.observed = me.gen
  BY <1>2, <1>3 DEF VaultSecrets
<1>8. cr'.ready = ready
  BY <1>2, <1>3 DEF VaultSecrets
<1> QED BY <1>1, <1>3, <1>5, <1>6, <1>7, <1>8

(* A key added to a Secret leaves the rest of it. *)
LEMMA Touched ==
  ASSUME NEW s \in SecretsOf
  PROVE  /\ [s EXCEPT !.other = TRUE] \in SecretsOf
         /\ [s EXCEPT !.other = TRUE].owner = s.owner
         /\ [s EXCEPT !.other = TRUE].data = s.data
BY Zenon DEF SecretsOf

------------------------------------------------------------------------------
(* What Init sets has its type. *)
LEMMA TypeInit == Init => TypeOK
BY OperatorAssumption DEF Init, TypeOK, None

(* Every step of the world outside keeps the types. *)
LEMMA TypeOutside ==
  ASSUME TypeOK, CreateCR \/ EditCR \/ DeleteCR \/ TouchSecret \/ ChangeVault
                 \/ GarbageCollect \/ Crash \/ RenewToken
  PROVE  TypeOK'
<1> USE OperatorAssumption, NoneIsNoObject
<1> USE DEF workVars, copyVars, apiVars, queueVars, restVars, cacheVars, crCache, secretCache
<1>1. CASE CreateCR
  <2>1. (CHOOSE q \in Paths : TRUE) \in Paths
    OBVIOUS
  <2> QED BY <1>1, <2>1 DEF CreateCR, WriteCR, TypeOK, VaultSecrets
<1>2. CASE EditCR
  <2>1. PICK p \in Paths : WriteCR([cr EXCEPT !.path = p, !.gen = @ + 1])
    BY <1>2, ZenonT(30) DEF EditCR
  <2>2. cr' \in VaultSecrets /\ lag' = TRUE
    BY <1>2, <2>1, Edited, ZenonT(30) DEF EditCR, WriteCR, TypeOK
  <2> QED BY <1>2, <2>2, ZenonT(30) DEF EditCR, TypeOK
<1>3. CASE DeleteCR
  BY <1>3, MarkedDeleted, ZenonT(30) DEF DeleteCR, WriteCR, TypeOK
<1>4. CASE TouchSecret
  BY <1>4, Touched DEF TouchSecret, WriteSecret, TypeOK
<1>5. CASE ChangeVault
  BY <1>5 DEF ChangeVault, TypeOK
<1>6. CASE GarbageCollect
  BY <1>6 DEF GarbageCollect, WriteSecret, TypeOK
<1>7. CASE Crash
  BY <1>7 DEF Crash, Done, TypeOK
<1>8. CASE RenewToken
  BY <1>8 DEF RenewToken, TypeOK
<1> QED BY <1>1, <1>2, <1>3, <1>4, <1>5, <1>6, <1>7, <1>8

(* So does every step of the informers and of Reconcile. *)
LEMMA TypeOperator ==
  ASSUME TypeOK, SyncCR \/ SyncSecret \/ Fire \/ Reconcile
  PROVE  TypeOK'
<1> USE OperatorAssumption, NoneIsNoObject
<1> USE DEF workVars, copyVars, apiVars, queueVars, restVars, cacheVars, crCache, secretCache
<1>1. CASE SyncCR
  BY <1>1 DEF SyncCR, TypeOK
<1>2. CASE SyncSecret
  BY <1>2 DEF SyncSecret, TypeOK
<1>3. CASE Fire
  BY <1>3 DEF Fire, TypeOK
<1>4. CASE ReconcileStart
  <2>1. CASE cache = None \/ (cache.del /\ ~cache.fin)
    BY <1>4, <2>1 DEF ReconcileStart, Done, TypeOK
  <2>2. CASE ~(cache = None \/ (cache.del /\ ~cache.fin))
    <3>1. me' \in VaultSecrets /\ pc' \in {"unfinalize", "fetch"} /\ UNCHANGED <<after, want, cr>>
      BY <1>4, <2>2 DEF ReconcileStart, TypeOK
    <3>2. latest' => cr' # None
      <4>1. latest' = ~lag
        BY <1>4, <2>2 DEF ReconcileStart, CopyIsLatest
      <4>2. ~lag => cr' # None
        BY <2>2, <3>1 DEF TypeOK
      <4> QED BY <4>1, <4>2, Zenon
    <3> QED BY <1>4, <3>1, <3>2 DEF ReconcileStart, TypeOK
  <2> QED BY <2>1, <2>2
<1>5. CASE RemoveFinalizer
  BY <1>5 DEF RemoveFinalizer, WriteCR, Done, Fail, TypeOK
<1>6. CASE SetNamespace
  BY <1>6 DEF SetNamespace, Fail, FinalNamespace, TypeOK
<1>7. CASE GetSecret
  <2>1. me \in VaultSecrets
    BY <1>7 DEF GetSecret, TypeOK
  <2>2. CASE External /\ Fail /\ UNCHANGED <<want, mishaps>>
    BY <1>7, <2>1, <2>2 DEF GetSecret, Fail, TypeOK
  <2>3. CASE ~(External /\ Fail /\ UNCHANGED <<want, mishaps>>)
    <3>1. want' = [owner |-> me.uid,
                   data |-> [path |-> me.path, ns |-> ReadNamespace, version |-> vault],
                   other |-> config.merge /\ scache # None /\ scache.other]
      BY <1>7, <2>3 DEF GetSecret, SetControllerReference
    <3>2. [path |-> me.path, ns |-> ReadNamespace, version |-> vault] \in VaultData
      BY <2>1 DEF TypeOK, VaultSecrets, VaultData, ReadNamespace
    <3>3. (config.merge /\ scache # None /\ scache.other) \in BOOLEAN
      BY DEF TypeOK, SecretsOf
    <3>4. want' \in SecretsOf
      BY <2>1, <3>1, <3>2, <3>3 DEF VaultSecrets, SecretsOf
    <3>5. pc' \in {"create", "finalize", "update"} /\ UNCHANGED <<after, me>>
      BY <1>7, <2>3 DEF GetSecret
    <3> QED BY <1>7, <2>1, <3>4, <3>5, SMTT(30) DEF GetSecret, TypeOK
  <2> QED BY <2>2, <2>3
<1>8. CASE CreateSecret
  BY <1>8 DEF CreateSecret, WriteSecret, Fail, TypeOK
<1>9. CASE UpdateSecret
  BY <1>9 DEF UpdateSecret, WriteSecret, Fail, TypeOK
<1>10. CASE updateConditions
  <2> DEFINE ready == IF after = "retry" THEN "false" ELSE "true"
  <2>1. ready \in {"true", "false"} /\ me \in VaultSecrets /\ me.gen \in Nat
    BY <1>10 DEF updateConditions, TypeOK, VaultSecrets
  <2>2. [me EXCEPT !.ready = ready] \in VaultSecrets
    BY <2>1, Readied, Zenon
  <2>3. CASE Ok(latest) /\ WriteCR([cr EXCEPT !.ready = ready, !.observed = me.gen])
    <3>1. cr' \in VaultSecrets /\ lag' = TRUE
      BY <2>1, <2>3, Conditioned, Zenon DEF Ok, WriteCR, TypeOK
    <3> QED BY <1>10, <2>2, <3>1, Zenon DEF updateConditions, Done, TypeOK
  <2>4. CASE NotOk(latest) /\ UNCHANGED <<cr, lag, note>>
    BY <1>10, <2>2, <2>4, Zenon DEF updateConditions, Done, TypeOK
  <2> QED BY <1>10, <2>3, <2>4 DEF updateConditions
<1>11. CASE AddFinalizer
  BY <1>11, Finalized DEF AddFinalizer, WriteCR, Done, Fail, Ok, TypeOK
<1> QED BY <1>1, <1>2, <1>3, <1>4, <1>5, <1>6, <1>7, <1>8, <1>9, <1>10, <1>11 DEF Reconcile

(* The VaultSecret, the Secret and all copies of them keep their shape. *)
THEOREM OperatorTypes == Spec => []TypeOK
<1>1. TypeOK /\ [Next]_vars => TypeOK'
  <2> SUFFICES ASSUME TypeOK, [Next]_vars PROVE TypeOK'
    OBVIOUS
  <2>1. CASE UNCHANGED vars
    BY <2>1 DEF vars, workVars, copyVars, apiVars, queueVars, restVars, cacheVars, crCache,
                secretCache, TypeOK
  <2> QED BY <2>1, TypeOutside, TypeOperator DEF Next
<1> QED BY <1>1, TypeInit, PTL DEF Spec

------------------------------------------------------------------------------
(***************************************************************************)
(* The metrics: gone already when the finalizer is removed.                *)
(***************************************************************************)
MetricsInv == MetricsRemoved /\ (pc = "unfinalize" => ~metrics)

(* Every step keeps the metrics right. *)
LEMMA MetricsStep ==
  ASSUME TypeOK, MetricsInv, [Next]_vars
  PROVE  MetricsInv'
<1> USE NoneIsNoObject
<1> USE DEF MetricsInv, MetricsRemoved, vars, workVars, copyVars, apiVars, queueVars,
            restVars, cacheVars, crCache, secretCache
<1>1. CASE UNCHANGED vars
  BY <1>1
<1>2. CASE TouchSecret \/ ChangeVault \/ GarbageCollect \/ SyncCR \/ SyncSecret \/ Fire
  BY <1>2 DEF TouchSecret, ChangeVault, GarbageCollect, SyncCR, SyncSecret, Fire
<1>3. CASE CreateCR
  BY <1>3 DEF CreateCR, WriteCR, None
<1>4. CASE EditCR
  <2>1. PICK p \in Paths : cr' = [cr EXCEPT !.path = p, !.gen = @ + 1]
    BY <1>4, ZenonT(30) DEF EditCR, WriteCR
  <2>2. cr' \in VaultSecrets
    BY <1>4, <2>1, Edited, ZenonT(30) DEF EditCR, TypeOK
  <2> QED BY <1>4, <2>2, SMTT(30) DEF EditCR
<1>5. CASE DeleteCR
  BY <1>5, MarkedDeleted, Zenon DEF DeleteCR, WriteCR, TypeOK
<1>6. CASE Crash
  BY <1>6 DEF Crash, Done
<1>7. CASE RenewToken
  BY <1>7 DEF RenewToken
<1>8. CASE ReconcileStart
  BY <1>8, Zenon DEF ReconcileStart, DeleteLabelValues, Done
<1>9. CASE RemoveFinalizer
  BY <1>9 DEF RemoveFinalizer, Done, Fail
<1>10. CASE SetNamespace \/ CreateSecret \/ UpdateSecret
  BY <1>10 DEF SetNamespace, CreateSecret, UpdateSecret, Fail
<1>11. CASE GetSecret
  BY <1>11 DEF GetSecret, Fail
<1>12. CASE updateConditions
  <2>1. pc' # "unfinalize"
    BY <1>12, Zenon DEF updateConditions, Done, TypeOK
  <2>2. cr = None => "unknown" \in mishaps'
    BY <1>12 DEF updateConditions
  <2>3. cr # None => cr' # None
    BY <1>12, ConditionsWritten, Zenon DEF updateConditions, TypeOK
  <2> QED BY <2>1, <2>2, <2>3
<1>13. CASE AddFinalizer
  BY <1>13, Finalized DEF AddFinalizer, WriteCR, Done, Fail, Ok, TypeOK
<1> QED BY <1>1, <1>2, <1>3, <1>4, <1>5, <1>6, <1>7, <1>8, <1>9, <1>10, <1>11, <1>12, <1>13
        DEF Next, Reconcile

(* Metrics outlive a VaultSecret only if it had no finalizer when it was   *)
(* deleted, or updateConditions ran for a copy of it afterwards.           *)
THEOREM MetricsHold == Spec => []MetricsRemoved
<1>1. Init => MetricsInv
  BY DEF Init, MetricsInv, MetricsRemoved
<1>2. TypeOK /\ MetricsInv /\ [Next]_vars => MetricsInv'
  BY MetricsStep
<1>3. MetricsInv => MetricsRemoved
  BY DEF MetricsInv
<1> QED BY <1>1, <1>2, <1>3, OperatorTypes, PTL DEF Spec

------------------------------------------------------------------------------
(***************************************************************************)
(* The status: a generation that was observed is the one the copies are    *)
(* of; what is about to be written is for the copy; and once it is written *)
(* the Secret is right for the copy until the status is.                   *)
(***************************************************************************)
Seen ==
  cr # None /\ cr.observed = cr.gen =>
    /\ cache # None /\ cache.uid = cr.uid /\ cache.gen = cr.gen
    /\ (me # None => me.uid = cr.uid /\ me.gen = cr.gen)
Prepared == want # None => me # None /\ want.owner = me.uid /\ want.data.path = me.path
Stored == pc = "status" /\ after # "retry" /\ secret # None /\ secret.owner = me.uid
          => secret.data.path = me.path

StatusInv == CopiesFollow /\ StatusHonest /\ Seen /\ Prepared /\ Stored

(* What the provers need of the types: the numbers are numbers. *)
LEMMA Numbers ==
  ASSUME TypeOK
  PROVE  /\ uids \in Nat
         /\ (cr # None => cr \in VaultSecrets /\ cr.uid \in Nat /\ cr.gen \in Nat /\ cr.observed \in Nat)
         /\ (cache # None => cache \in VaultSecrets /\ cache.uid \in Nat /\ cache.gen \in Nat)
         /\ (me # None => me \in VaultSecrets /\ me.uid \in Nat /\ me.gen \in Nat)
         /\ (secret # None => secret \in SecretsOf /\ secret.owner \in Nat)
         /\ (pc # "idle" => me # None)
BY NoneIsNoObject DEF TypeOK, VaultSecrets, SecretsOf

(* A step that writes neither object and touches no copy. *)
LEMMA StatusUntouched ==
  ASSUME StatusInv, UNCHANGED <<cr, uids, cache, secret, pc, after, me, want>>, latest' => latest
  PROVE  StatusInv'
<1> USE DEF StatusInv
<1>1. Follows(cache)' /\ Follows(me)'
  BY DEF CopiesFollow, Follows
<1>2. CopiesFollow'
  BY <1>1, SMTT(30) DEF CopiesFollow
<1>3. StatusHonest' /\ Seen'
  BY DEF StatusHonest, Seen
<1>4. Prepared' /\ Stored'
  BY DEF Prepared, Stored
<1> QED BY <1>2, <1>3, <1>4

(* A new VaultSecret has a uid no copy has. *)
LEMMA StatusCreated ==
  ASSUME TypeOK, StatusInv, CreateCR
  PROVE  StatusInv'
<1> USE Numbers
<1> USE DEF copyVars, secretCache, StatusInv
<1>1. /\ cr' # None /\ cr'.uid = uids + 1 /\ cr'.gen = 1 /\ cr'.observed = 0
      /\ cr'.ready = "unknown" /\ uids' = uids + 1
  <2>1. uids' = uids + 1 /\ uids' \in Nat
    BY SMTT(30) DEF CreateCR
  <2>2. PICK p \in Paths \cup {CHOOSE q \in Paths : TRUE} :
          cr' = [uid |-> uids', gen |-> 1, path |-> p, fin |-> FALSE, del |-> FALSE,
                 ready |-> "unknown", observed |-> 0]
    BY ZenonT(30) DEF CreateCR, WriteCR
  <2>3. cr' # None
    BY <2>2 DEF None
  <2> QED BY <2>1, <2>2, <2>3
<1>2. UNCHANGED <<cache, secret, pc, after, me, want>> /\ ~latest'
  BY DEF CreateCR
<1>3. CopiesFollow'
  BY <1>1, <1>2 DEF CopiesFollow, Follows
<1>4. StatusHonest' /\ Seen'
  BY <1>1, <1>2 DEF StatusHonest, Seen
<1>5. Prepared' /\ Stored'
  BY <1>2 DEF Prepared, Stored
<1> QED BY <1>3, <1>4, <1>5, SMTT(30)

(* A change of the spec, or of the deletion timestamp, is a generation no  *)
(* copy has and no status speaks of.                                       *)
LEMMA StatusEdited ==
  ASSUME TypeOK, StatusInv, EditCR \/ DeleteCR
  PROVE  StatusInv'
<1> USE Numbers
<1> USE DEF copyVars, secretCache, StatusInv
<1>1. /\ cr # None /\ UNCHANGED <<uids, cache, secret, pc, after, me, want>> /\ ~latest'
  BY Zenon DEF EditCR, DeleteCR
<1>2. CASE cr' = None
  BY <1>1, <1>2 DEF CopiesFollow, Follows, StatusHonest, Seen, Prepared, Stored
<1>3. CASE cr' # None
  <2>1. cr'.uid = cr.uid /\ cr'.gen = cr.gen + 1 /\ cr'.observed = cr.observed
    <3>1. CASE EditCR
      <4>1. PICK p \in Paths : cr' = [cr EXCEPT !.path = p, !.gen = @ + 1]
        BY <3>1, ZenonT(30) DEF EditCR, WriteCR
      <4> QED BY <1>1, <4>1, Edited, ZenonT(30)
    <3>2. CASE DeleteCR
      <4>1. cr' = [cr EXCEPT !.del = TRUE, !.gen = @ + 1]
        BY <1>3, <3>2, SMTT(30) DEF DeleteCR, WriteCR
      <4> QED BY <1>1, <4>1, MarkedDeleted, Zenon
    <3> QED BY <3>1, <3>2, SMTT(30)
  <2>2. CopiesFollow'
    BY <1>1, <1>3, <2>1, SMTT(30) DEF CopiesFollow, Follows
  <2>3. StatusHonest' /\ Seen'
    BY <1>1, <2>1 DEF StatusHonest, Seen, CopiesFollow
  <2>4. Prepared' /\ Stored'
    BY <1>1 DEF Prepared, Stored
  <2> QED BY <2>2, <2>3, <2>4
<1> QED BY <1>2, <1>3

(* The Secret changes from outside: its owner and its data do not. *)
LEMMA StatusTouched ==
  ASSUME TypeOK, StatusInv, TouchSecret \/ GarbageCollect
  PROVE  StatusInv'
<1> USE Numbers
<1> USE DEF workVars, copyVars, crCache, StatusInv
<1>1. UNCHANGED <<cr, uids, cache, pc, after, latest, me, want>>
  BY DEF TouchSecret, GarbageCollect
<1>2. secret' # None => secret # None /\ secret'.owner = secret.owner /\ secret'.data = secret.data
  BY Touched, Zenon DEF TouchSecret, GarbageCollect, WriteSecret
<1>3. CopiesFollow'
  BY <1>1, <1>2 DEF CopiesFollow, Follows
<1>4. StatusHonest' /\ Seen' /\ Prepared' /\ Stored'
  BY <1>1, <1>2 DEF StatusHonest, Seen, Prepared, Stored
<1> QED BY <1>3, <1>4

(* The informer catches up, with Reconcile going on or killed. *)
LEMMA StatusSynced ==
  ASSUME TypeOK, StatusInv, SyncCR \/ Crash
  PROVE  StatusInv'
<1> USE Numbers
<1> USE DEF workVars, copyVars, apiVars, StatusInv
<1>1. UNCHANGED <<cr, uids, secret>> /\ cache' = cr
  BY DEF SyncCR, Crash
<1>2. CASE SyncCR
  <2>1. UNCHANGED <<pc, after, latest, me, want>>
    BY <1>2 DEF SyncCR
  <2>2. CopiesFollow'
    BY <1>1, <2>1, SMTT(30) DEF CopiesFollow, Follows
  <2>3. StatusHonest' /\ Seen' /\ Prepared' /\ Stored'
    BY <1>1, <2>1 DEF StatusHonest, Seen, Prepared, Stored
  <2> QED BY <2>2, <2>3
<1>3. CASE Crash
  <2>1. pc' = "idle" /\ ~latest' /\ me' = None /\ want' = None
    BY <1>3, SMTT(30) DEF Crash, Done
  <2>2. CopiesFollow'
    BY <1>1, <2>1, SMTT(30) DEF CopiesFollow, Follows
  <2>3. StatusHonest' /\ Seen' /\ Prepared' /\ Stored'
    BY <1>1, <2>1 DEF StatusHonest, Seen, Prepared, Stored
  <2> QED BY <2>2, <2>3
<1> QED BY <1>2, <1>3

(* Reconcile starts: its copy is the informer's. *)
LEMMA StatusStarted ==
  ASSUME TypeOK, StatusInv, ReconcileStart
  PROVE  StatusInv'
<1> USE Numbers
<1> USE DEF apiVars, cacheVars, crCache, StatusInv
<1>1. UNCHANGED <<cr, uids, secret, cache>> /\ pc = "idle" /\ pc' # "status"
  BY SMTT(30) DEF ReconcileStart, Done
<1>2. me = None /\ want = None /\ want' = None
  BY <1>1 DEF ReconcileStart, Done, TypeOK, Prepared
<1>3. (me' = None /\ ~latest') \/ (me' = cache /\ cache # None /\ latest' = ~lag)
  BY DEF ReconcileStart, Done, CopyIsLatest
<1>4. latest' => cache = cr /\ me' = cache /\ cache # None
  <2>1. latest' => me' = cache /\ cache # None
    BY <1>3, Zenon
  <2>2. latest' => ~lag
    BY <1>3, Zenon
  <2> QED BY <2>1, <2>2 DEF TypeOK
<1>5. me' = None \/ (me' = cache /\ cache # None)
  BY <1>3, Zenon
<1>6. CopiesFollow'
  BY <1>1, <1>4, <1>5, SMTT(30) DEF CopiesFollow, Follows
<1>7. StatusHonest' /\ Seen' /\ Prepared' /\ Stored'
  BY <1>1, <1>2, <1>5 DEF StatusHonest, Seen, Prepared, Stored
<1> QED BY <1>6, <1>7

(* Reconcile works on, and neither object changes. *)
LEMMA StatusRead ==
  ASSUME TypeOK, StatusInv, SetNamespace \/ GetSecret
  PROVE  StatusInv'
<1> USE Numbers
<1> USE DEF apiVars, cacheVars, crCache, copyVars, StatusInv
<1>1. UNCHANGED <<cr, uids, secret, cache, latest, me>> /\ me # None
  BY Zenon DEF SetNamespace, GetSecret
<1>2. pc' = "status" => after' = "retry"
  <2>1. CASE SetNamespace
    BY <2>1, SMTT(30) DEF SetNamespace, Fail
  <2>2. CASE GetSecret
    BY <2>2, SMTT(30) DEF GetSecret, Fail
  <2> QED BY <2>1, <2>2
<1>3. CopiesFollow'
  BY <1>1, SMTT(30) DEF CopiesFollow, Follows
<1>4. StatusHonest' /\ Seen' /\ Stored'
  BY <1>1, <1>2, SMTT(30) DEF StatusHonest, Seen, Stored
<1>5. want' = want \/ (want'.owner = me.uid /\ want'.data.path = me.path)
  <2>1. CASE SetNamespace
    BY <2>1, Zenon DEF SetNamespace
  <2>2. CASE GetSecret
    <3> DEFINE other == config.merge /\ scache # None /\ scache.other
    <3>1. \/ want' = want
          \/ want' = [owner |-> me.uid, data |-> [path |-> me.path, ns |-> ReadNamespace, version |-> vault],
                      other |-> other]
      BY <2>2, Zenon DEF GetSecret, SetControllerReference
    <3> HIDE DEF other
    <3> QED BY <3>1
  <2> QED BY <2>1, <2>2, SMTT(30)
<1>6. Prepared'
  BY <1>1, <1>5 DEF Prepared
<1> QED BY <1>3, <1>4, <1>6, SMTT(30)

(* The Secret is written, for the copy. *)
LEMMA StatusWritten ==
  ASSUME TypeOK, StatusInv, CreateSecret \/ UpdateSecret
  PROVE  StatusInv'
<1> USE Numbers
<1> USE DEF crCache, copyVars, StatusInv
<1>1. UNCHANGED <<cr, uids, cache, latest, me, want>> /\ me # None /\ want # None
  BY SMTT(30) DEF CreateSecret, UpdateSecret, TypeOK
<1>2. want.owner = me.uid /\ want.data.path = me.path
  BY <1>1, SMTT(30) DEF Prepared
<1>3. secret' = want \/ (secret' = secret /\ after' = "retry")
  BY SMTT(30) DEF CreateSecret, UpdateSecret, WriteSecret, Fail
<1>4. CopiesFollow'
  BY <1>1, <1>2, <1>3, SMTT(30) DEF CopiesFollow, Follows
<1>5. StatusHonest'
  BY <1>1, <1>2, <1>3, SMTT(30) DEF StatusHonest, Seen, CopiesFollow, Follows
<1>6. Seen' /\ Prepared' /\ Stored'
  BY <1>1, <1>2, <1>3 DEF Seen, Prepared, Stored
<1> QED BY <1>4, <1>5, <1>6, SMTT(30)

(* The status is written, for the generation of the copy: it is the latest *)
(* one, and the Secret is right for it.                                    *)
LEMMA StatusReported ==
  ASSUME TypeOK, StatusInv, updateConditions
  PROVE  StatusInv'
<1> USE Numbers
<1> USE DEF StatusInv
<1>1. UNCHANGED <<uids, secret, cache>> /\ me # None /\ pc = "status" /\ pc' # "status"
  BY Zenon DEF updateConditions, Done, TypeOK
<1>2. \/ me' = None /\ want' = None /\ ~latest'
      \/ /\ me' # None /\ me'.uid = me.uid /\ me'.gen = me.gen /\ me'.path = me.path
         /\ want' = want /\ (latest' => latest)
  <2>1. CASE after = "final"
    <3>1. me' = [me EXCEPT !.ready = "true"] /\ want' = want /\ (latest' => latest)
      BY <2>1 DEF updateConditions
    <3>2. me' \in VaultSecrets /\ me'.uid = me.uid /\ me'.gen = me.gen /\ me'.path = me.path
      BY <1>1, <3>1, Readied, Zenon
    <3> QED BY <3>1, <3>2, NoneIsNoObject, Zenon
  <2>2. CASE after # "final"
    BY <2>2, Zenon DEF updateConditions, Done, TypeOK
  <2> QED BY <2>1, <2>2
<1>3. /\ (me' # None => me'.uid = me.uid /\ me'.gen = me.gen /\ me'.path = me.path)
      /\ (want' # None => want' = want /\ me' # None) /\ (latest' => latest /\ me' # None)
  BY <1>2, Zenon
<1>4. CASE cr' = cr
  <2>1. CopiesFollow'
    BY <1>1, <1>3, <1>4 DEF CopiesFollow, Follows
  <2>2. StatusHonest' /\ Seen' /\ Prepared' /\ Stored'
    BY <1>1, <1>3, <1>4 DEF StatusHonest, Seen, Prepared, Stored
  <2> QED BY <2>1, <2>2
<1>5. CASE cr' # cr
  <2>1. latest /\ cr # None /\ cr' # None
    BY <1>5, ConditionsWritten, NoneIsNoObject
  <2>2. /\ cr'.uid = cr.uid /\ cr'.gen = cr.gen /\ cr'.path = cr.path
        /\ cr'.observed = me.gen /\ (cr'.ready = "true" => after # "retry")
    BY <1>5, ConditionsWritten, SMTT(30)
  <2>3. me.uid = cr.uid /\ me.gen = cr.gen /\ me.path = cr.path
    BY <1>1, <2>1 DEF CopiesFollow, Follows
  <2>4. cache # None /\ cache.uid = cr.uid /\ cache.gen = cr.gen
    BY <1>1, <2>1, <2>3, SMTT(30) DEF CopiesFollow, Follows
  <2>5. CopiesFollow'
    BY <1>1, <1>3, <2>1, <2>2, <2>3, <2>4, SMTT(30) DEF CopiesFollow, Follows
  <2>6. StatusHonest'
    BY <1>1, <2>2, <2>3, SMTT(30) DEF StatusHonest, Stored
  <2>7. Seen' /\ Prepared' /\ Stored'
    BY <1>1, <1>3, <2>2, <2>3, <2>4 DEF Seen, Prepared, Stored
  <2> QED BY <2>5, <2>6, <2>7
<1> QED BY <1>4, <1>5

(* The finalizer comes or goes; what the status speaks of stays. *)
LEMMA StatusFinalized ==
  ASSUME TypeOK, StatusInv, AddFinalizer \/ RemoveFinalizer
  PROVE  StatusInv'
<1> USE Numbers
<1> USE DEF copyVars, secretCache, StatusInv
<1>1. UNCHANGED <<uids, secret, cache>> /\ (pc' = "status" => after' = "retry")
  BY DEF AddFinalizer, RemoveFinalizer, Done, Fail
<1>2. \/ me' = None /\ want' = None /\ ~latest'
      \/ UNCHANGED <<me, want, latest, cr>>
  BY DEF AddFinalizer, RemoveFinalizer, Done
<1>3. cr' = None \/ cr' = cr \/ (cr # None /\ cr' = [cr EXCEPT !.fin = TRUE])
  BY DEF AddFinalizer, RemoveFinalizer, WriteCR, Ok, TypeOK
<1>4. cr' # None => /\ cr # None /\ cr'.uid = cr.uid /\ cr'.gen = cr.gen /\ cr'.path = cr.path
                    /\ cr'.ready = cr.ready /\ cr'.observed = cr.observed
  BY <1>3, Finalized, Zenon
<1>5. CASE UNCHANGED <<me, want, latest, cr>>
  <2>1. CopiesFollow'
    BY <1>1, <1>5 DEF CopiesFollow, Follows
  <2>2. StatusHonest' /\ Seen' /\ Prepared' /\ Stored'
    BY <1>1, <1>5 DEF StatusHonest, Seen, Prepared, Stored
  <2> QED BY <2>1, <2>2
<1>6. CASE me' = None /\ want' = None /\ ~latest'
  <2>1. CopiesFollow'
    <3>1. Follows(cache)' /\ Follows(me)'
      BY <1>1, <1>4, <1>6, SMTT(30) DEF CopiesFollow, Follows
    <3> QED BY <1>1, <1>4, <1>6, <3>1 DEF CopiesFollow
  <2>2. StatusHonest' /\ Seen' /\ Prepared' /\ Stored'
    BY <1>1, <1>4, <1>6 DEF StatusHonest, Seen, Prepared, Stored
  <2> QED BY <2>1, <2>2
<1> QED BY <1>2, <1>5, <1>6

(* Every step keeps the invariant. *)
LEMMA StatusStep ==
  ASSUME TypeOK, StatusInv, [Next]_vars
  PROVE  StatusInv'
<1>1. CASE UNCHANGED vars \/ ChangeVault \/ RenewToken \/ SyncSecret \/ Fire
  <2>1. UNCHANGED <<cr, uids, cache, secret, pc, after, latest, me, want>>
    BY <1>1 DEF ChangeVault, RenewToken, SyncSecret, Fire, vars, workVars, copyVars, apiVars,
                cacheVars, crCache
  <2> QED BY <2>1, StatusUntouched, SMTT(30)
<1>2. CASE CreateCR \/ EditCR \/ DeleteCR \/ TouchSecret \/ GarbageCollect
  BY <1>2, StatusCreated, StatusEdited, StatusTouched
<1>3. CASE SyncCR \/ Crash \/ Reconcile
  BY <1>3, StatusSynced, StatusStarted, StatusRead, StatusWritten, StatusReported,
     StatusFinalized DEF Reconcile
<1> QED BY <1>1, <1>2, <1>3 DEF Next

(* So it holds in every reachable state. *)
LEMMA StatusInvariant == Spec => []StatusInv
<1>1. Init => StatusInv
  BY DEF Init, StatusInv, CopiesFollow, Follows, StatusHonest, Seen, Prepared, Stored
<1>2. TypeOK /\ StatusInv /\ [Next]_vars => StatusInv'
  BY StatusStep
<1> QED BY <1>1, <1>2, OperatorTypes, PTL DEF Spec

(* The copies of the VaultSecret never run ahead of it, and the version an *)
(* update of the operator names is the one the API server has.             *)
THEOREM CopiesHold == Spec => []CopiesFollow
<1>1. StatusInv => CopiesFollow
  BY DEF StatusInv
<1> QED BY <1>1, StatusInvariant, PTL

(* The condition True that updateConditions wrote for the current          *)
(* generation never stands beside a Secret of another spec.                *)
THEOREM StatusHolds == Spec => []StatusHonest
<1>1. StatusInv => StatusHonest
  BY DEF StatusInv
<1> QED BY <1>1, StatusInvariant, PTL

==============================================================================
