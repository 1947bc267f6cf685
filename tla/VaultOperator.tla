---------------------------- MODULE VaultOperator ----------------------------
(***************************************************************************)
(* vault-secrets-operator: controllers/vaultsecret_controller.go and       *)
(* vault/client.go.  The operator keeps a Kubernetes Secret equal to a     *)
(* secret in Vault, as a VaultSecret asks for.  One VaultSecret, which may *)
(* be deleted and created again, and the Secret of the same name.          *)
(*                                                                         *)
(* External, from how the controller uses it: the API server (an update    *)
(* needs the latest version of the object), the informer cache that Get    *)
(* reads (it may lag), the work queue (one worker; an error or a           *)
(* RequeueAfter puts the request back), the garbage collector and Vault.   *)
(***************************************************************************)
EXTENDS Integers

CONSTANTS
  Configs,      \* configurations: records of period, merge and role, see config
  Paths,        \* paths in Vault a VaultSecret may name
  MaxEvents     \* bound: edits, deletions, faults, crashes and the like, in all

ASSUME OperatorAssumption == /\ Configs \subseteq [period : BOOLEAN, merge : BOOLEAN, role : BOOLEAN]
                             /\ Paths # {} /\ MaxEvents \in Nat

VARIABLES
  config,    \* period: requeued after a success; merge: ReconcileStrategy;
             \* role: vaultRole is set, each Reconcile has a client of its own
  events,    \* what may still happen from outside
  uids,      \* VaultSecrets created
  cr,        \* the VaultSecret in the API server
  cache,     \* the VaultSecret as the informer knows it
  lag,       \* that is not the latest version
  note,      \* an event on its way to the informer enqueues the request
  secret,    \* the Secret in the API server
  scache, slag, snote,   \* the same for the Secret
  vault,     \* the version of the data in Vault
  namespace, \* the namespace the shared client sends
  queue,     \* the request is in the work queue
  later,     \* the request comes back to the queue after a while
  pc,        \* where Reconcile stands
  after,     \* what follows updateConditions: done, final or retry
  me,        \* its copy of the VaultSecret
  latest,    \* that copy is at the latest version
  want,      \* the Secret it is about to write
  metrics,   \* the metrics have labels for the VaultSecret
  mishaps    \* races that happened: see DeleteCR, GetSecret and updateConditions

apiVars == <<cr, secret, uids>>
crCache == <<cache, lag, note>>
secretCache == <<scache, slag, snote>>
cacheVars == <<crCache, secretCache>>
queueVars == <<queue, later>>
copyVars == <<me, want>>
workVars == <<pc, after, latest, copyVars>>
restVars == <<vault, namespace, metrics, mishaps>>
vars == <<config, events, apiVars, cacheVars, queueVars, workVars, restVars>>

None == [none |-> TRUE]
Root == "root"
Own == "own"      \* the root namespace with the VaultSecret's own below it

Init ==
  /\ config \in Configs
  /\ events = MaxEvents /\ uids = 0
  /\ cr = None /\ cache = None /\ lag = FALSE /\ note = FALSE
  /\ secret = None /\ scache = None /\ slag = FALSE /\ snote = FALSE
  /\ vault = 1 /\ namespace = Root
  /\ queue = FALSE /\ later = FALSE
  /\ pc = "idle" /\ after = "done" /\ latest = FALSE
  /\ me = None /\ want = None
  /\ metrics = FALSE /\ mishaps = {}

------------------------------------------------------------------------------
(***************************************************************************)
(* Outside the operator.                                                   *)
(***************************************************************************)
External == events > 0 /\ events' = events - 1

\* Mutant: an update counts when the spec changes.
SpecPredicate(old, new) ==
  IF old = None \/ new = None THEN old # new ELSE old.uid # new.uid \/ old.path # new.path

(* ignorePredicate: an update counts when the generation changes; objects  *)
(* that appear, disappear or are replaced count always.  Another uid       *)
(* stands for the delete and the create event of an object that was        *)
(* replaced, neither of which the predicate filters.                       *)
ignorePredicate(old, new) ==
  IF old = None \/ new = None THEN old # new ELSE old.uid # new.uid \/ old.gen # new.gen

(* Every write makes the cache outdated. *)
WriteCR(new) == cr' = new /\ lag' = TRUE /\ note' = (note \/ ignorePredicate(cr, new))

(* Owns: the owner is enqueued.  A Secret has no generation, so its        *)
(* updates never pass the predicate.                                       *)
WriteSecret(new) ==
  secret' = new /\ slag' = TRUE /\ snote' = (snote \/ secret = None \/ new = None)

(* All paths are alike, so the first one may be any. *)
CreateCR ==
  /\ cr = None /\ uids' = uids + 1
  /\ IF uids = 0 THEN UNCHANGED events ELSE External
  /\ \E p \in IF uids = 0 THEN {CHOOSE q \in Paths : TRUE} ELSE Paths :
       WriteCR([uid |-> uids', gen |-> 1, path |-> p, fin |-> FALSE, del |-> FALSE,
                ready |-> "unknown", observed |-> 0])
  /\ latest' = FALSE
  /\ UNCHANGED <<config, cache, secretCache, secret, queueVars, pc, after, copyVars, restVars>>

EditCR ==
  /\ External /\ cr # None /\ ~cr.del
  /\ \E p \in Paths \ {cr.path} : WriteCR([cr EXCEPT !.path = p, !.gen = @ + 1])
  /\ latest' = FALSE
  /\ UNCHANGED <<config, uids, cache, secretCache, secret, queueVars, pc, after, copyVars, restVars>>

(* The object goes at once when it has no finalizer. *)
DeleteCR ==
  /\ External /\ cr # None /\ ~cr.del
  /\ WriteCR(IF cr.fin THEN [cr EXCEPT !.del = TRUE, !.gen = @ + 1] ELSE None)
  /\ mishaps' = mishaps \cup IF cr.fin THEN {} ELSE {"unfinalized"}
  /\ latest' = FALSE
  /\ UNCHANGED <<config, uids, cache, secretCache, secret, queueVars, pc, after, copyVars,
                 vault, namespace, metrics>>

(* Someone adds a key to the Secret, or deletes it. *)
TouchSecret ==
  /\ External /\ secret # None
  /\ WriteSecret(None) \/ WriteSecret([secret EXCEPT !.other = TRUE])
  /\ UNCHANGED <<config, uids, cr, scache, crCache, queueVars, workVars, restVars>>

ChangeVault ==
  /\ External /\ vault' = vault + 1
  /\ UNCHANGED <<config, apiVars, cacheVars, queueVars, workVars, namespace, metrics, mishaps>>

(* The Secret's owner is gone. *)
GarbageCollect ==
  /\ secret # None /\ secret.owner > 0 /\ ~(cr # None /\ cr.uid = secret.owner)
  /\ WriteSecret(None)
  /\ UNCHANGED <<config, events, cr, uids, scache, crCache, queueVars, workVars, restVars>>

(* Reconcile returns. *)
Done == /\ pc' = "idle" /\ after' = "done" /\ latest' = FALSE
        /\ me' = None /\ want' = None

(* The operator is killed and starts: its memory is gone, and the initial  *)
(* list enqueues what there is.                                            *)
Crash ==
  /\ External
  /\ cache' = cr /\ lag' = FALSE /\ note' = FALSE
  /\ scache' = secret /\ slag' = FALSE /\ snote' = FALSE
  /\ queue' = (cr # None \/ secret # None) /\ later' = FALSE
  /\ Done /\ metrics' = FALSE /\ namespace' = Root
  /\ UNCHANGED <<config, apiVars, vault, mishaps>>

(* RenewToken runs beside Reconcile and shares its client. *)
RenewToken ==
  /\ External /\ namespace' = Root
  /\ UNCHANGED <<config, apiVars, cacheVars, queueVars, workVars, vault, metrics, mishaps>>

------------------------------------------------------------------------------
(***************************************************************************)
(* The informers.                                                          *)
(***************************************************************************)

SyncCR ==
  /\ lag /\ lag' = FALSE /\ note' = FALSE /\ cache' = cr
  /\ queue' = (queue \/ note)
  /\ UNCHANGED <<config, events, apiVars, secretCache, later, workVars, restVars>>

SyncSecret ==
  /\ slag /\ slag' = FALSE /\ snote' = FALSE /\ scache' = secret
  /\ queue' = (queue \/ snote)
  /\ UNCHANGED <<config, events, apiVars, crCache, later, workVars, restVars>>

Fire ==
  /\ later /\ later' = FALSE /\ queue' = TRUE
  /\ UNCHANGED <<config, events, apiVars, cacheVars, workVars, restVars>>

------------------------------------------------------------------------------
(***************************************************************************)
(* Reconcile, cut at its calls to Vault and to the API server.             *)
(***************************************************************************)

\* Mutant: the copy has no version.
Unversioned == TRUE

(* The resource version of the copy: r.Get reads the cache. *)
CopyIsLatest == ~lag

\* Mutant: the metrics stay.
KeepMetrics(c) == metrics

(* DeleteLabelValues, when the VaultSecret is being deleted. *)
DeleteLabelValues(c) == metrics /\ ~c.del

(* r.Get of the VaultSecret, and the deletion timestamp. *)
ReconcileStart ==
  /\ pc = "idle" /\ queue /\ queue' = FALSE
  /\ IF cache = None \/ (cache.del /\ ~cache.fin)
     THEN Done /\ UNCHANGED metrics
     ELSE /\ me' = cache /\ latest' = CopyIsLatest
          /\ pc' = IF cache.del THEN "unfinalize" ELSE "fetch"
          /\ metrics' = DeleteLabelValues(cache)
          /\ UNCHANGED <<after, want>>
  /\ UNCHANGED <<config, events, apiVars, cacheVars, later, vault, namespace, mishaps>>

(* A call that may fail: for its own reason, or through a fault outside. *)
Ok(cond) == cond /\ UNCHANGED events
NotOk(cond) == External \/ (~cond /\ UNCHANGED events)

(* An error: the condition will say so, and the request is put back. *)
Fail == pc' = "status" /\ after' = "retry"

Requeue == later' = (later \/ config.period)

\* Mutant: the error is not returned.
SwallowError == UNCHANGED later

RequeueError == later' = TRUE

(* The finalizer is removed, and with it the object. *)
RemoveFinalizer ==
  /\ pc = "unfinalize"
  /\ \/ Ok(latest) /\ WriteCR(None) /\ Done
     \/ NotOk(latest) /\ Fail /\ UNCHANGED <<cr, lag, note, latest, copyVars>>
  /\ UNCHANGED <<config, uids, secret, cache, secretCache, queueVars, restVars>>

(* The namespace of the VaultSecret, below the operator's; a client that   *)
(* CreateClient made for the role leaves the shared one alone.             *)
FinalNamespace == IF config.role THEN namespace ELSE Own

\* Mutant: Vault is not asked.
FetchSkipped ==
  /\ pc = "fetch"
  /\ \/ UNCHANGED events /\ pc' = "create" /\ namespace' = FinalNamespace /\ UNCHANGED after
     \/ External /\ Fail /\ UNCHANGED namespace
  /\ UNCHANGED <<config, apiVars, cacheVars, queueVars, latest, copyVars, vault, metrics, mishaps>>

(* The client, shared or made for the role, and the namespace GetSecret    *)
(* sets on it.                                                             *)
SetNamespace ==
  /\ pc = "fetch"
  /\ \/ UNCHANGED events /\ pc' = "read" /\ namespace' = FinalNamespace /\ UNCHANGED after
     \/ External /\ Fail /\ UNCHANGED namespace
  /\ UNCHANGED <<config, apiVars, cacheVars, queueVars, latest, copyVars, vault, metrics, mishaps>>

\* Mutant: no owner.
Unowned == 0

SetControllerReference == me.uid

(* The namespace the client sends when it reads. *)
ReadNamespace == IF config.role THEN Own ELSE namespace

(* The answer of Vault; newSecretForCR with SetControllerReference; r.Get  *)
(* of the Secret, mergeSecretData, and the comparison of the two: the      *)
(* update is skipped when nothing changes.                                 *)
GetSecret ==
  LET skip == /\ scache # None /\ me.ready = "true" /\ scache.data = want'.data
              /\ scache.other = want'.other
  IN /\ pc = "read"
     /\ \/ /\ UNCHANGED events
           /\ want' = [owner |-> SetControllerReference,
                       data |-> [path |-> me.path, ns |-> ReadNamespace, version |-> vault],
                       other |-> config.merge /\ scache # None /\ scache.other]
           /\ pc' = IF scache = None THEN "create" ELSE IF skip THEN "finalize" ELSE "update"
           /\ mishaps' = mishaps \cup IF skip /\ scache # secret THEN {"skipped"} ELSE {}
           /\ UNCHANGED after
        \/ External /\ Fail /\ UNCHANGED <<want, mishaps>>
     /\ UNCHANGED <<config, apiVars, cacheVars, queueVars, latest, me, vault, namespace, metrics>>

(* r.Create of the Secret: it must not exist. *)
CreateSecret ==
  /\ pc = "create"
  /\ \/ Ok(secret = None) /\ WriteSecret(want) /\ pc' = "status" /\ after' = "done"
     \/ NotOk(secret = None) /\ Fail /\ UNCHANGED <<secret, slag, snote>>
  /\ UNCHANGED <<config, cr, uids, scache, crCache, queueVars, latest, copyVars, restVars>>

\* Mutant: the error of the update is not looked at.
UpdateUnchecked ==
  /\ pc = "update" /\ pc' = "status" /\ after' = "final"
  /\ \/ Ok(secret # None) /\ WriteSecret(want)
     \/ NotOk(secret # None) /\ UNCHANGED <<secret, slag, snote>>
  /\ UNCHANGED <<config, cr, uids, scache, crCache, queueVars, latest, copyVars, restVars>>

(* r.Update of the Secret: it must exist; its version does not matter. *)
UpdateSecret ==
  /\ pc = "update"
  /\ \/ Ok(secret # None) /\ WriteSecret(want) /\ pc' = "status" /\ after' = "final"
     \/ NotOk(secret # None) /\ Fail /\ UNCHANGED <<secret, slag, snote>>
  /\ UNCHANGED <<config, cr, uids, scache, crCache, queueVars, latest, copyVars, restVars>>

(* updateConditions: the metrics, then the status; an error of that update *)
(* is only logged.                                                         *)
updateConditions ==
  LET ready == IF after = "retry" THEN "false" ELSE "true"
  IN /\ pc = "status" /\ metrics' = TRUE
     /\ \/ Ok(latest) /\ WriteCR([cr EXCEPT !.ready = ready, !.observed = me.gen])
        \/ NotOk(latest) /\ UNCHANGED <<cr, lag, note>>
     /\ mishaps' = mishaps \cup IF cr = None THEN {"unknown"} ELSE {}
     /\ CASE after = "final" -> /\ pc' = "finalize" /\ me' = [me EXCEPT !.ready = ready]
                                /\ UNCHANGED <<later, after, latest, want>>
          [] after = "done" -> Done /\ Requeue
          [] after = "retry" -> Done /\ RequeueError
     /\ UNCHANGED <<config, uids, secret, cache, secretCache, queue, vault, namespace>>

(* The finalizer is added when it is not there. *)
AddFinalizer ==
  /\ pc = "finalize"
  /\ \/ me.fin /\ Done /\ Requeue /\ UNCHANGED <<events, cr, lag, note>>
     \/ ~me.fin /\ Ok(latest) /\ WriteCR([cr EXCEPT !.fin = TRUE]) /\ Done /\ Requeue
     \/ ~me.fin /\ NotOk(latest) /\ Fail /\ UNCHANGED <<cr, lag, note, latest, copyVars, later>>
  /\ UNCHANGED <<config, uids, secret, cache, secretCache, queue, restVars>>

Reconcile ==
  \/ ReconcileStart \/ RemoveFinalizer \/ SetNamespace \/ GetSecret
  \/ CreateSecret \/ UpdateSecret \/ updateConditions \/ AddFinalizer

Next ==
  \/ CreateCR \/ EditCR \/ DeleteCR \/ TouchSecret \/ ChangeVault \/ GarbageCollect
  \/ Crash \/ RenewToken
  \/ SyncCR \/ SyncSecret \/ Fire \/ Reconcile

Spec == Init /\ [][Next]_vars

(* Watches deliver, the worker and the delaying queue run, the garbage     *)
(* collector collects.                                                     *)
FairSpec == /\ Spec
            /\ WF_vars(SyncCR) /\ WF_vars(SyncSecret) /\ WF_vars(Fire)
            /\ WF_vars(Reconcile) /\ WF_vars(GarbageCollect)

------------------------------------------------------------------------------
VaultData == [path : Paths, ns : {Root, Own}, version : Nat]
VaultSecrets == [uid : Nat, gen : Nat, path : Paths, fin : BOOLEAN, del : BOOLEAN,
                 ready : {"unknown", "true", "false"}, observed : Nat]
SecretsOf == [owner : Nat, data : VaultData, other : BOOLEAN]

(* The objects and their copies have their shape; Reconcile has a copy of  *)
(* the VaultSecret wherever it uses one, a Secret to write where it writes *)
(* it, and never the latest version of what does not exist.                *)
TypeOK ==
  /\ config \in Configs /\ uids \in Nat /\ vault \in Nat /\ namespace \in {Root, Own}
  /\ cr \in VaultSecrets \cup {None} /\ cache \in VaultSecrets \cup {None}
  /\ secret \in SecretsOf \cup {None} /\ scache \in SecretsOf \cup {None}
  /\ pc \in {"idle", "unfinalize", "fetch", "read", "create", "update", "status", "finalize"}
  /\ after \in {"done", "final", "retry"}
  /\ me \in IF pc = "idle" THEN {None} ELSE VaultSecrets
  /\ (~lag => cache = cr) /\ (latest => cr # None)
  /\ want \in SecretsOf \cup {None} /\ (pc \in {"create", "update"} => want # None)

(* The copies of the VaultSecret follow it: the version Reconcile holds    *)
(* for the latest is the latest, no copy is ahead, and Reconcile's is not  *)
(* ahead of the informer's.  Names are reused, uids are not.               *)
Follows(x) == cr # None /\ x # None => /\ x.uid <= uids
                                       /\ x.uid = cr.uid => /\ x.gen <= cr.gen
                                                            /\ x.gen = cr.gen => x.path = cr.path
CopiesFollow ==
  /\ (cr # None => cr.uid <= uids /\ cr.observed <= cr.gen)
  /\ (cache # None => cache.uid <= uids) /\ (me # None => me.uid <= uids)
  /\ (secret # None => secret.owner <= uids) /\ Follows(cache) /\ Follows(me)
  /\ (latest => me # None /\ me.uid = cr.uid /\ me.gen = cr.gen)
  /\ (cr # None /\ me # None =>
        (me.uid = cr.uid => cache # None /\ cache.uid = cr.uid /\ me.gen <= cache.gen))

(* A condition that is True for the current generation is honest: the      *)
(* Secret the VaultSecret owns was written from its current spec, whatever *)
(* failed, lagged or crashed between the two writes.                       *)
StatusHonest ==
  (cr # None /\ secret # None) =>
    (cr.ready = "true" /\ cr.observed = cr.gen /\ secret.owner = cr.uid => secret.data.path = cr.path)

(* The metrics of a VaultSecret that had the finalizer do not outlive it.  *)
(* They do when it was deleted before it got the finalizer, or when a      *)
(* Reconcile with an old copy of it ended in updateConditions.             *)
MetricsRemoved == cr = None /\ metrics => mishaps \cap {"unfinalized", "unknown"} # {}

CarriedOut == /\ cr # None /\ secret # None /\ secret.data.path = cr.path
              /\ (config.period => secret.data.version = vault)
              /\ (config.period \/ config.role => secret.data.ns = Own)
Stays == cr # None /\ ~cr.del

(* A VaultSecret that stays is carried out in the end: its Secret exists   *)
(* for good, with the data at its path, and the current data when it is    *)
(* reconciled periodically.  The data is that of its own namespace then,   *)
(* although a RenewToken between SetNamespace and the read lets one        *)
(* Reconcile read another's: with no period the wrong data stays, unless   *)
(* the client is one made for vaultRole.  Without a period one thing can   *)
(* prevent all this: the update was skipped because an outdated copy of    *)
(* the Secret was right.                                                   *)
Converges == <>[]Stays => <>[](CarriedOut \/ (~config.period /\ "skipped" \in mishaps))

Deleting == cr # None /\ cr.del

(* A VaultSecret marked for deletion goes, whatever fails meanwhile. *)
DeletionCompletes == Deleting ~> ~Deleting

(* Once the VaultSecret is gone, so is its Secret, one that a Reconcile    *)
(* with an old copy creates afterwards included.                           *)
NoOrphan == <>[](cr = None) => <>[](secret = None)

==============================================================================
