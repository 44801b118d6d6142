------------------------------ MODULE ApiKeys ------------------------------
(***************************************************************************)
(* API keys: auth/store.rs, the middleware that admits requests and the    *)
(* routes that create, revoke and rotate keys.  Looking a key up, storing  *)
(* one and writing one back are separate transactions; each is an action.  *)
(* A raw key is the only text with its hash, so a key id stands for both.  *)
(***************************************************************************)
EXTENDS Integers, FiniteSets

CONSTANTS
  Callers,      \* requests in flight
  NoKey,
  MaxKeys,      \* bound on the keys stored
  MaxKeyCalls   \* bound on requests and restarts

VARIABLES
  authOn,   \* config.auth.enabled
  keys,     \* API_KEYS_TABLE and its hash index: the record of a key, NoKey when there is none
  expired,  \* the keys with an expiry date have expired
  req,      \* what each request is doing
  keyCalls, \* requests so far
  acked,    \* history: keys whose revocation has been answered
  touched   \* history: keys some request has asked to revoke

keyVars == <<authOn, keys, expired, req, keyCalls, acked, touched>>

KeyIds == 1..MaxKeys  \* random ids, numbered in the order they are generated

\* Only the admin permission is ever asked for.  root is the key a chain of rotations began with.
KeyRecord == [admin : BOOLEAN, expires : BOOLEAN, active : BOOLEAN, root : KeyIds]

ASSUME KeysAssumption == MaxKeys \in Nat /\ MaxKeyCalls \in Nat /\ NoKey \notin KeyRecord

\* What a request presents: nothing, the configured master key, or a raw key.
Nothing == 0
Master == -1
Credentials == {Nothing, Master} \cup KeyIds
Routes == {"data", "create", "read", "revoke", "rotate"}

NoReq == [step |-> "none"]
Requests ==
  {NoReq} \cup [step : {"served"}, cred : Credentials, late : BOOLEAN]
    \cup [step : {"authorize"}, cred : Credentials, route : Routes \ {"data"}]
    \cup [step : {"insertKey"}]
    \cup [step : {"getKey"}, id : KeyIds, next : {"revoke", "rotate"}]
    \cup [step : {"insertRotated"}, id : KeyIds, old : KeyRecord]
    \cup [step : {"revokeGet"}, id : KeyIds]
    \cup [step : {"revokePut"}, id : KeyIds, old : KeyRecord]

\* A store without keys, or with one.
KeysInit ==
  /\ authOn \in BOOLEAN
  /\ \/ keys = [k \in KeyIds |-> NoKey]
     \/ \E admin, expires \in BOOLEAN :
          keys = [k \in KeyIds |-> IF k # 1 THEN NoKey
                   ELSE [admin |-> admin, expires |-> expires, active |-> TRUE, root |-> 1]]
  /\ expired = FALSE
  /\ req = [c \in Callers |-> NoReq] /\ keyCalls = 0
  /\ acked = {} /\ touched = {}

Waits(c, step) == req[c].step = step
Become(c, r) == req' = [req EXCEPT ![c] = r]
Fresh == 1 + Cardinality({k \in KeyIds : keys[k] # NoKey})

\* Mutant: a key that was switched off still counts.
ValidIfUnexpired(k) == ~(keys[k].expires /\ expired)

Valid(k) == keys[k].active /\ ~(keys[k].expires /\ expired)

\* The credentials authenticate and the master key comparison let through.
Authentic(cred) == cred = Master \/ (cred \in KeyIds /\ keys[cred] # NoKey /\ Valid(cred))

(***************************************************************************)
(* The middleware, in front of every route                                 *)
(***************************************************************************)

Arrive(c) ==
  \E cred \in Credentials, route \in Routes :
    /\ Waits(c, "none") /\ keyCalls < MaxKeyCalls
    /\ keyCalls' = keyCalls + 1
    /\ authOn => Authentic(cred)
    /\ Become(c, IF route = "data"
                   THEN [step |-> "served", cred |-> cred, late |-> authOn /\ cred \in acked]
                   ELSE [step |-> "authorize", cred |-> cred, route |-> route])
    /\ UNCHANGED <<authOn, keys, expired, acked, touched>>

Serve(c) ==
  /\ Waits(c, "served") /\ Become(c, NoReq)
  /\ UNCHANGED <<authOn, keys, expired, keyCalls, acked, touched>>

(***************************************************************************)
(* The routes of the key administration                                    *)
(***************************************************************************)

\* authenticate_admin looks the key up a second time.
Admin(cred) ==
  ~authOn \/ cred = Master \/ (cred \in KeyIds /\ Authentic(cred) /\ keys[cred].admin)

Authorize(c) ==
  /\ Waits(c, "authorize")
  /\ \/ /\ ~Admin(req[c].cred) /\ Become(c, NoReq) /\ UNCHANGED touched
     \/ /\ Admin(req[c].cred) /\ req[c].route = "read" /\ Become(c, NoReq) /\ UNCHANGED touched
     \/ /\ Admin(req[c].cred) /\ req[c].route = "create" /\ Become(c, [step |-> "insertKey"])
        /\ UNCHANGED touched
     \/ \E k \in KeyIds :
          /\ Admin(req[c].cred) /\ req[c].route \in {"revoke", "rotate"}
          /\ Become(c, [step |-> "getKey", id |-> k, next |-> req[c].route])
          /\ touched' = IF req[c].route = "revoke" THEN touched \cup {k} ELSE touched
  /\ UNCHANGED <<authOn, keys, expired, keyCalls, acked>>

InsertKey(c) ==
  \E admin, expires \in BOOLEAN :
    /\ Waits(c, "insertKey") /\ Fresh <= MaxKeys
    /\ keys' = [keys EXCEPT ![Fresh] = [admin |-> admin, expires |-> expires, active |-> TRUE,
                                        root |-> Fresh]]
    /\ Become(c, NoReq)
    /\ UNCHANGED <<authOn, expired, keyCalls, acked, touched>>

\* Mutant: the old key is revoked first.
AfterGetRevokesFirst(c, k) ==
  IF keys[k] = NoKey THEN NoReq
  ELSE [step |-> "revokePut", id |-> k, old |-> keys[k]]

\* Revocation writes back the record it reads here; rotation copies its settings.
AfterGet(c, k) ==
  IF keys[k] = NoKey THEN NoReq
  ELSE [step |-> IF req[c].next = "rotate" THEN "insertRotated" ELSE "revokePut", id |-> k,
        old |-> keys[k]]

GetKey(c) ==
  /\ Waits(c, "getKey")
  /\ Become(c, AfterGet(c, req[c].id))
  /\ UNCHANGED <<authOn, keys, expired, keyCalls, acked, touched>>

\* The new key is stored before the old one is revoked; nobody asks whether the old one was
\* still active.
InsertRotated(c) ==
  /\ Waits(c, "insertRotated") /\ Fresh <= MaxKeys
  /\ keys' = [keys EXCEPT ![Fresh] = [req[c].old EXCEPT !.active = TRUE]]
  /\ Become(c, [step |-> "revokeGet", id |-> req[c].id])
  /\ UNCHANGED <<authOn, expired, keyCalls, acked, touched>>

RevokeGet(c) ==
  /\ Waits(c, "revokeGet")
  /\ Become(c, [step |-> "revokePut", id |-> req[c].id, old |-> keys[req[c].id]])
  /\ UNCHANGED <<authOn, keys, expired, keyCalls, acked, touched>>

RevokePut(c) ==
  LET k == req[c].id
  IN  /\ Waits(c, "revokePut")
      /\ keys' = [keys EXCEPT ![k] = [req[c].old EXCEPT !.active = FALSE]]
      /\ acked' = acked \cup {k}
      /\ Become(c, NoReq)
      /\ UNCHANGED <<authOn, expired, keyCalls, touched>>

(***************************************************************************)
(* Time and crashes                                                        *)
(***************************************************************************)

Expire ==
  ~expired /\ expired' = TRUE /\ UNCHANGED <<authOn, keys, req, keyCalls, acked, touched>>

KeysCrash ==
  /\ keyCalls < MaxKeyCalls /\ keyCalls' = keyCalls + 1
  /\ req' = [c \in Callers |-> NoReq]
  /\ UNCHANGED <<authOn, keys, expired, acked, touched>>

KeysNext ==
  \/ \E c \in Callers : \/ Arrive(c) \/ Serve(c) \/ Authorize(c) \/ InsertKey(c) \/ GetKey(c)
                        \/ InsertRotated(c) \/ RevokeGet(c) \/ RevokePut(c)
  \/ Expire \/ KeysCrash

(***************************************************************************)
(* Properties                                                              *)
(***************************************************************************)

\* Every variable has its type.
KeysTypeOK ==
  /\ authOn \in BOOLEAN /\ expired \in BOOLEAN
  /\ keys \in [KeyIds -> KeyRecord \cup {NoKey}]
  /\ req \in [Callers -> Requests] /\ keyCalls \in 0..MaxKeyCalls
  /\ acked \subseteq KeyIds /\ touched \subseteq KeyIds

\* Once the revocation of a key has been answered no request gets in with it: revocations and
\* rotations write whole records back that they read earlier, and none of them may switch the
\* key on again.
RevokedIsRefused == \A c \in Callers : Waits(c, "served") => ~req[c].late

\* Rotating a key never locks its owner out: as long as nobody has asked to revoke a key of a
\* chain of rotations, one key of the chain is active, whatever rotations overlap and wherever
\* the process dies.
RotationNeverLocksOut ==
  \A r \in KeyIds :
    LET chain == {k \in KeyIds : keys[k] # NoKey /\ keys[k].root = r}
    IN  (chain # {} /\ chain \cap touched = {}) => \E k \in chain : keys[k].active
=============================================================================
