---------------------------- MODULE ApiKeysProofs ----------------------------
(***************************************************************************)
(* Proofs about ApiKeys: types, no use after a revocation, and rotations   *)
(* that never lock an owner out.                                           *)
(***************************************************************************)
EXTENDS ApiKeys, FiniteSetTheorems, TLAPS

\* The keys alone: MCControl runs them next to other parts of the server.
KeysSpec == KeysInit /\ [][KeysNext]_keyVars

Existing == {k \in KeyIds : keys[k] # NoKey}
Chain(r) == {k \in KeyIds : keys[k] # NoKey /\ keys[k].root = r}

\* Ids are given out in order and never twice.
KeysNumbered == \E n \in 0..MaxKeys : Existing = 1..n

\* A request that holds a record works on a stored key of the same chain.
HoldsStored(r) ==
  /\ r.step \in {"insertRotated", "revokeGet", "revokePut"} => r.id \in KeyIds /\ keys[r.id] # NoKey
  /\ r.step \in {"insertRotated", "revokePut"} => r.old \in KeyRecord /\ r.old.root = keys[r.id].root

Typed == KeysTypeOK /\ KeysNumbered /\ \A c \in Callers : HoldsStored(req[c])

\* A key whose revocation was answered is stored and stays switched off.
AckedIsOff == \A k \in acked : k \in Existing /\ ~keys[k].active

\* A key on its way to be switched off was meant to be, or has a successor in its chain.
Succeeded(r) ==
  /\ r.step = "getKey" /\ r.next = "revoke" => r.id \in touched
  /\ r.step \in {"revokeGet", "revokePut"} =>
       r.id \in touched \/ \E k \in Chain(keys[r.id].root) : k > r.id

\* The newest key of a chain nobody asked to revoke is active.
NewestIsActive ==
  \A r \in KeyIds :
    Chain(r) # {} /\ Chain(r) \cap touched = {} =>
      \E m \in Chain(r) : keys[m].active /\ \A k \in Chain(r) : k <= m

Rotating == (\A c \in Callers : Succeeded(req[c])) /\ NewestIsActive
-----------------------------------------------------------------------------
(* Types *)

\* The next id is the one after the last.
LEMMA FreshIsNext ==
  ASSUME Typed
  PROVE  \E n \in 0..MaxKeys : Existing = 1..n /\ Fresh = n + 1
<1>1. PICK n \in 0..MaxKeys : Existing = 1..n
  BY DEF Typed, KeysNumbered
<1>2. MaxKeys \in Nat /\ n \in Nat
  BY KeysAssumption
<1>3. Cardinality(1..n) = n
  BY <1>2, FS_Interval
<1>4. Fresh = 1 + Cardinality(Existing)
  BY DEF Fresh, Existing
<1> QED  BY <1>1, <1>2, <1>3, <1>4

\* A fresh id is unused, and greater than all that are used.
LEMMA FreshIsNew ==
  ASSUME Typed, Fresh <= MaxKeys
  PROVE  /\ Fresh \in KeyIds /\ Fresh \notin Existing /\ keys[Fresh] = NoKey
         /\ \A k \in Existing : k < Fresh
<1>1. PICK n \in 0..MaxKeys : Existing = 1..n /\ Fresh = n + 1
  BY FreshIsNext
<1>2. MaxKeys \in Nat /\ n \in Nat
  BY KeysAssumption
<1>3. Fresh \in KeyIds /\ Fresh \notin Existing
  BY <1>1, <1>2 DEF KeyIds
<1> QED  BY <1>1, <1>2, <1>3 DEF Existing

LEMMA InitTyped == KeysInit => Typed
<1> SUFFICES ASSUME KeysInit PROVE Typed
  OBVIOUS
<1>1. MaxKeys \in Nat /\ MaxKeyCalls \in Nat /\ NoKey \notin KeyRecord
  BY KeysAssumption
<1>2. /\ authOn \in BOOLEAN /\ expired \in BOOLEAN
      /\ req \in [Callers -> Requests] /\ \A c \in Callers : req[c].step = "none"
      /\ keyCalls \in 0..MaxKeyCalls /\ acked \subseteq KeyIds /\ touched \subseteq KeyIds
  <2>1. NoReq \in Requests /\ NoReq.step = "none"
    BY DEF Requests, NoReq
  <2>2. authOn \in BOOLEAN /\ expired \in BOOLEAN
    BY DEF KeysInit
  <2>3. req = [c \in Callers |-> NoReq] /\ keyCalls = 0 /\ acked = {} /\ touched = {}
    BY DEF KeysInit
  <2> QED  BY <1>1, <2>1, <2>2, <2>3
<1>3. \A c \in Callers : HoldsStored(req[c])
  BY <1>2 DEF HoldsStored
<1>4. CASE keys = [k \in KeyIds |-> NoKey]
  <2>1. Existing = 1..0 /\ 0 \in 0..MaxKeys
    BY <1>1, <1>4 DEF Existing
  <2>2. keys \in [KeyIds -> KeyRecord \cup {NoKey}]
    BY <1>4
  <2> QED  BY <1>2, <1>3, <2>1, <2>2 DEF Typed, KeysTypeOK, KeysNumbered
<1>5. ASSUME NEW admin \in BOOLEAN, NEW expires \in BOOLEAN,
             keys = [k \in KeyIds |-> IF k # 1 THEN NoKey
                       ELSE [admin |-> admin, expires |-> expires, active |-> TRUE, root |-> 1]]
      PROVE  Typed
  <2> DEFINE one == [admin |-> admin, expires |-> expires, active |-> TRUE, root |-> 1]
  <2>1. 1 \in KeyIds => one \in KeyRecord
    BY DEF KeyRecord
  <2>2. keys \in [KeyIds -> KeyRecord \cup {NoKey}]
    BY <1>5, <2>1
  <2>3. CASE MaxKeys = 0
    <3>1. Existing = 1..0 /\ 0 \in 0..MaxKeys
      BY <1>1, <2>3 DEF Existing, KeyIds
    <3> QED  BY <1>2, <1>3, <2>2, <3>1 DEF Typed, KeysTypeOK, KeysNumbered
  <2>4. CASE MaxKeys # 0
    <3>1. 1 \in KeyIds
      BY <1>1, <2>4 DEF KeyIds
    <3>2. keys[1] # NoKey /\ \A k \in KeyIds : k # 1 => keys[k] = NoKey
      BY <1>1, <1>5, <2>1, <3>1
    <3>3. Existing = 1..1 /\ 1 \in 0..MaxKeys
      BY <1>1, <2>4, <3>1, <3>2 DEF Existing
    <3> QED  BY <1>2, <1>3, <2>2, <3>3 DEF Typed, KeysTypeOK, KeysNumbered
  <2> QED  BY <2>3, <2>4
<1> QED  BY <1>4, <1>5 DEF KeysInit

\* Taking up a request, or the next step of one, changes no other.
LEMMA OneBecomes ==
  ASSUME Typed, NEW c \in Callers, NEW r \in Requests, Become(c, r)
  PROVE  /\ req' \in [Callers -> Requests] /\ req'[c] = r
         /\ \A d \in Callers : d # c => req'[d] = req[d]
BY DEF Typed, KeysTypeOK, Become

\* Types are kept by a step that writes no key.
LEMMA NoWriteTyped ==
  ASSUME Typed, NEW c \in Callers, NEW r \in Requests, Become(c, r), HoldsStored(r),
         UNCHANGED <<authOn, keys, expired>>, keyCalls' \in 0..MaxKeyCalls,
         acked' \subseteq KeyIds, touched' \subseteq KeyIds
  PROVE  Typed'
<1>1. KeysTypeOK'
  BY OneBecomes DEF Typed, KeysTypeOK
<1>2. KeysNumbered'
  BY DEF Typed, KeysNumbered, Existing
<1>3. ASSUME NEW d \in Callers PROVE HoldsStored(req[d])'
  BY OneBecomes DEF Typed, HoldsStored
<1> QED  BY <1>1, <1>2, <1>3 DEF Typed

\* Types are kept when a fresh key is stored.
LEMMA InsertTyped ==
  ASSUME Typed, NEW c \in Callers, NEW r \in Requests, Become(c, r), NEW k \in KeyRecord,
         Fresh <= MaxKeys, keys' = [keys EXCEPT ![Fresh] = k], HoldsStored(r),
         UNCHANGED <<authOn, expired, keyCalls, acked, touched>>
  PROVE  Typed' /\ Existing' = Existing \cup {Fresh} /\ \A i \in Existing : keys'[i] = keys[i]
<1>1. /\ Fresh \in KeyIds /\ Fresh \notin Existing /\ keys[Fresh] = NoKey
      /\ keys \in [KeyIds -> KeyRecord \cup {NoKey}] /\ NoKey \notin KeyRecord
  BY FreshIsNew, KeysAssumption DEF Typed, KeysTypeOK
<1>2. keys' \in [KeyIds -> KeyRecord \cup {NoKey}] /\ keys'[Fresh] = k /\ k # NoKey
      /\ \A i \in KeyIds : i # Fresh => keys'[i] = keys[i]
  BY <1>1
<1>3. Existing' = Existing \cup {Fresh} /\ \A i \in Existing : keys'[i] = keys[i]
  BY <1>1, <1>2 DEF Existing
<1>4. KeysTypeOK'
  BY <1>2, OneBecomes DEF Typed, KeysTypeOK
<1>5. KeysNumbered'
  <2>1. PICK n \in 0..MaxKeys : Existing = 1..n /\ Fresh = n + 1
    BY FreshIsNext
  <2>2. MaxKeys \in Nat /\ n \in Nat
    BY KeysAssumption
  <2>3. Existing' = 1..(n + 1) /\ n + 1 \in 0..MaxKeys
    BY <1>3, <2>1, <2>2
  <2> QED  BY <2>3 DEF KeysNumbered
<1>6. ASSUME NEW q, HoldsStored(q) PROVE
        /\ q.step \in {"insertRotated", "revokeGet", "revokePut"} => q.id \in KeyIds /\ keys'[q.id] # NoKey
        /\ q.step \in {"insertRotated", "revokePut"} => q.old \in KeyRecord /\ q.old.root = keys'[q.id].root
  BY <1>1, <1>2, <1>6 DEF HoldsStored
<1>7. ASSUME NEW d \in Callers PROVE HoldsStored(req[d])'
  BY <1>6, OneBecomes DEF Typed, HoldsStored
<1> QED  BY <1>3, <1>4, <1>5, <1>7 DEF Typed

\* Types are kept when a record is written back switched off.
LEMMA RevokePutTyped ==
  ASSUME Typed, NEW c \in Callers, RevokePut(c)
  PROVE  /\ Typed' /\ Existing' = Existing /\ req[c].id \in Existing
         /\ \A k \in Existing : keys'[k].root = keys[k].root
         /\ ~keys'[req[c].id].active
         /\ \A k \in Existing : k # req[c].id => keys'[k] = keys[k]
<1> DEFINE i == req[c].id
           off == [req[c].old EXCEPT !.active = FALSE]
<1>1. /\ i \in KeyIds /\ keys[i] # NoKey /\ req[c].old \in KeyRecord /\ req[c].old.root = keys[i].root
      /\ keys \in [KeyIds -> KeyRecord \cup {NoKey}] /\ NoKey \notin KeyRecord
  BY KeysAssumption DEF Typed, KeysTypeOK, HoldsStored, RevokePut, Waits
<1>2. off \in KeyRecord /\ off.root = req[c].old.root /\ ~off.active
  BY <1>1 DEF KeyRecord
<1>3. keys' \in [KeyIds -> KeyRecord \cup {NoKey}] /\ keys'[i] = off
      /\ \A k \in KeyIds : k # i => keys'[k] = keys[k]
  BY <1>1, <1>2 DEF RevokePut
<1>4. Existing' = Existing /\ i \in Existing /\ \A k \in Existing : keys'[k].root = keys[k].root
  <2> HIDE DEF i, off
  <2>1. off # NoKey
    BY <1>1, <1>2
  <2>2. \A k \in KeyIds : keys'[k] # NoKey <=> keys[k] # NoKey
    BY <1>1, <1>3, <2>1
  <2>3. i \in Existing /\ Existing' = Existing
    BY <1>1, <2>2 DEF Existing
  <2>4. \A k \in KeyIds : keys'[k].root = keys[k].root
    BY <1>1, <1>2, <1>3
  <2> QED  BY <2>3, <2>4 DEF Existing
<1>5. NoReq \in Requests /\ NoReq.step = "none" /\ Become(c, NoReq)
  BY DEF Requests, NoReq, RevokePut
<1>6. KeysTypeOK'
  BY <1>1, <1>3, <1>5, OneBecomes DEF Typed, KeysTypeOK, RevokePut
<1>7. KeysNumbered'
  BY <1>4 DEF Typed, KeysNumbered
<1>8. ASSUME NEW d \in Callers PROVE HoldsStored(req[d])'
  <2>1. HoldsStored(req[d])
    BY DEF Typed
  <2>2. CASE d = c
    BY <2>2, <1>5, OneBecomes DEF HoldsStored
  <2>3. CASE d # c
    <3>1. req'[d] = req[d]
      BY <2>3, <1>5, OneBecomes
    <3>2. req[d].id \in KeyIds /\ keys[req[d].id] # NoKey =>
            keys'[req[d].id] # NoKey /\ keys'[req[d].id].root = keys[req[d].id].root
      BY <1>4 DEF Existing
    <3> QED  BY <2>1, <3>1, <3>2 DEF HoldsStored
  <2> QED  BY <2>2, <2>3
<1> QED  BY <1>2, <1>3, <1>4, <1>6, <1>7, <1>8 DEF Typed, Existing

\* A step that writes no key turns the request of c into r and may add to touched.
NoWrite(c, r) ==
  /\ Become(c, r) /\ r \in Requests /\ HoldsStored(r)
  /\ UNCHANGED <<authOn, keys, expired, acked>>
  /\ keyCalls' \in 0..MaxKeyCalls /\ touched \subseteq touched' /\ touched' \subseteq KeyIds

\* A request never comes in with a key whose revocation was answered.
LEMMA ArriveSteps ==
  ASSUME Typed, AckedIsOff, NEW c \in Callers, Arrive(c)
  PROVE  \E r \in Requests : /\ NoWrite(c, r) /\ r.step \in {"served", "authorize"}
                             /\ r.step = "served" => ~r.late
<1>1. PICK cred \in Credentials, route \in Routes :
        /\ keyCalls' = keyCalls + 1 /\ keyCalls < MaxKeyCalls /\ (authOn => Authentic(cred))
        /\ Become(c, IF route = "data"
                       THEN [step |-> "served", cred |-> cred, late |-> authOn /\ cred \in acked]
                       ELSE [step |-> "authorize", cred |-> cred, route |-> route])
        /\ UNCHANGED <<authOn, keys, expired, acked, touched>>
  BY DEF Arrive
<1>2. keyCalls' \in 0..MaxKeyCalls
  BY <1>1, KeysAssumption DEF Typed, KeysTypeOK
<1>3. ~(authOn /\ cred \in acked)
  <2>1. SUFFICES ASSUME cred \in acked, Authentic(cred) PROVE FALSE
    BY <1>1
  <2>2. cred \in KeyIds /\ ~keys[cred].active
    BY <2>1 DEF AckedIsOff, Typed, KeysTypeOK
  <2>3. cred # Master
    BY <2>2, KeysAssumption DEF Master, KeyIds
  <2> QED  BY <2>1, <2>2, <2>3 DEF Authentic, Valid
<1>4. CASE route = "data"
  <2> DEFINE r == [step |-> "served", cred |-> cred, late |-> FALSE]
  <2>1. (authOn /\ cred \in acked) = FALSE
    BY <1>3
  <2>2. Become(c, r)
    BY <1>1, <1>4, <2>1
  <2>3. r \in Requests /\ r.step = "served" /\ ~r.late
    BY DEF Requests
  <2>4. NoWrite(c, r)
    BY <1>1, <1>2, <2>2, <2>3 DEF NoWrite, HoldsStored, Typed, KeysTypeOK
  <2> QED  BY <2>3, <2>4
<1>5. CASE route # "data"
  <2> DEFINE r == [step |-> "authorize", cred |-> cred, route |-> route]
  <2>1. r \in Requests /\ r.step = "authorize"
    BY <1>5 DEF Requests
  <2>2. NoWrite(c, r)
    BY <1>1, <1>2, <1>5, <2>1 DEF NoWrite, HoldsStored, Typed, KeysTypeOK
  <2> QED  BY <2>1, <2>2
<1> QED  BY <1>4, <1>5

LEMMA NoReqIsRequest == NoReq \in Requests /\ NoReq.step = "none" /\ HoldsStored(NoReq)
BY DEF Requests, NoReq, HoldsStored

\* Authorizing a request writes no key; a key to revoke is marked as touched.
LEMMA AuthorizeSteps ==
  ASSUME Typed, NEW c \in Callers, Authorize(c)
  PROVE  \E r \in Requests : /\ NoWrite(c, r) /\ r.step \in {"none", "insertKey", "getKey"}
                             /\ r.step = "getKey" /\ r.next = "revoke" => r.id \in touched'
<1>1. keyCalls' \in 0..MaxKeyCalls /\ UNCHANGED <<authOn, keys, expired, acked>>
      /\ touched \subseteq KeyIds
  BY DEF Authorize, Typed, KeysTypeOK
<1>2. CASE Become(c, NoReq) /\ UNCHANGED touched
  <2>1. NoWrite(c, NoReq)
    BY <1>1, <1>2, NoReqIsRequest DEF NoWrite
  <2> QED  BY <2>1, NoReqIsRequest
<1>3. CASE Become(c, [step |-> "insertKey"]) /\ UNCHANGED touched
  <2> DEFINE r == [step |-> "insertKey"]
  <2>1. r \in Requests /\ r.step = "insertKey" /\ HoldsStored(r)
    BY DEF Requests, HoldsStored
  <2>2. NoWrite(c, r)
    BY <1>1, <1>3, <2>1 DEF NoWrite
  <2> QED  BY <2>1, <2>2
<1>4. ASSUME NEW k \in KeyIds, req[c].route \in {"revoke", "rotate"},
             Become(c, [step |-> "getKey", id |-> k, next |-> req[c].route]),
             touched' = IF req[c].route = "revoke" THEN touched \cup {k} ELSE touched
      PROVE  \E r \in Requests : /\ NoWrite(c, r) /\ r.step \in {"none", "insertKey", "getKey"}
                                 /\ r.step = "getKey" /\ r.next = "revoke" => r.id \in touched'
  <2> DEFINE r == [step |-> "getKey", id |-> k, next |-> req[c].route]
  <2>1. r \in Requests /\ r.step = "getKey" /\ HoldsStored(r) /\ (r.next = "revoke" => r.id \in touched')
    BY <1>4 DEF Requests, HoldsStored
  <2>2. touched \subseteq touched' /\ touched' \subseteq KeyIds
    BY <1>1, <1>4
  <2>3. NoWrite(c, r)
    BY <1>1, <1>4, <2>1, <2>2 DEF NoWrite
  <2> QED  BY <2>1, <2>3
<1> QED  BY <1>2, <1>3, <1>4 DEF Authorize

\* Reading a key writes none: a rotation goes on to store a new key, a revocation to write this one back.
LEMMA GetKeySteps ==
  ASSUME Typed, NEW c \in Callers, GetKey(c)
  PROVE  \E r \in Requests : /\ NoWrite(c, r) /\ UNCHANGED touched
                             /\ \/ r.step \in {"none", "insertRotated"}
                                \/ r.step = "revokePut" /\ req[c].next = "revoke" /\ r.id = req[c].id
<1> DEFINE k == req[c].id
<1>1. /\ req[c] \in Requests /\ req[c].step = "getKey" /\ Become(c, AfterGet(c, k))
      /\ UNCHANGED <<authOn, keys, expired, keyCalls, acked, touched>>
  BY DEF GetKey, Waits, Typed, KeysTypeOK
<1>2. k \in KeyIds /\ req[c].next \in {"revoke", "rotate"}
  BY <1>1 DEF Requests, NoReq
<1>3. keyCalls' \in 0..MaxKeyCalls /\ touched' \subseteq KeyIds
  BY <1>1 DEF Typed, KeysTypeOK
<1>4. CASE keys[k] = NoKey
  <2>1. NoWrite(c, NoReq)
    BY <1>1, <1>3, <1>4, NoReqIsRequest DEF NoWrite, AfterGet
  <2> QED  BY <1>1, <2>1, NoReqIsRequest
<1>5. CASE keys[k] # NoKey
  <2> DEFINE r == [step |-> IF req[c].next = "rotate" THEN "insertRotated" ELSE "revokePut", id |-> k,
                   old |-> keys[k]]
  <2>1. keys[k] \in KeyRecord
    BY <1>2, <1>5 DEF Typed, KeysTypeOK
  <2>2. /\ r \in Requests /\ HoldsStored(r)
        /\ r.step = "insertRotated" \/ (r.step = "revokePut" /\ req[c].next = "revoke")
    BY <1>2, <1>5, <2>1 DEF Requests, HoldsStored
  <2>3. NoWrite(c, r)
    BY <1>1, <1>3, <1>5, <2>2 DEF NoWrite, AfterGet
  <2> QED  BY <1>1, <2>2, <2>3
<1> QED  BY <1>4, <1>5

\* The revocation that ends a rotation reads the key it writes back.
LEMMA RevokeGetSteps ==
  ASSUME Typed, NEW c \in Callers, RevokeGet(c)
  PROVE  \E r \in Requests : /\ NoWrite(c, r) /\ UNCHANGED touched /\ req[c].step = "revokeGet"
                             /\ r.step = "revokePut" /\ r.id = req[c].id
<1> DEFINE k == req[c].id
           r == [step |-> "revokePut", id |-> k, old |-> keys[k]]
<1>1. /\ k \in KeyIds /\ keys[k] # NoKey /\ keys[k] \in KeyRecord /\ req[c].step = "revokeGet"
      /\ UNCHANGED <<authOn, keys, expired, keyCalls, acked, touched>> /\ Become(c, r)
  BY DEF RevokeGet, Waits, Typed, KeysTypeOK, HoldsStored
<1>2. keyCalls' \in 0..MaxKeyCalls /\ touched' \subseteq KeyIds
  BY <1>1 DEF Typed, KeysTypeOK
<1>3. r \in Requests /\ HoldsStored(r) /\ r.step = "revokePut" /\ r.id = k
  BY <1>1 DEF Requests, HoldsStored
<1>4. NoWrite(c, r)
  BY <1>1, <1>2, <1>3 DEF NoWrite
<1> QED  BY <1>1, <1>3, <1>4
-----------------------------------------------------------------------------
(* The invariant *)

Safe == Typed /\ AckedIsOff /\ RevokedIsRefused /\ Rotating

LEMMA InitSafe == KeysInit => Safe
<1> SUFFICES ASSUME KeysInit PROVE Safe
  OBVIOUS
<1>1. Typed
  BY InitTyped
<1>2. req = [c \in Callers |-> NoReq] /\ acked = {} /\ NoReq.step = "none"
  BY DEF KeysInit, NoReq
<1>3. AckedIsOff /\ RevokedIsRefused /\ \A c \in Callers : Succeeded(req[c])
  BY <1>2 DEF AckedIsOff, RevokedIsRefused, Waits, Succeeded
<1>4. \A k \in Existing : k = 1 /\ keys[k].active
  BY DEF KeysInit, Existing
<1>5. \A r \in KeyIds : \A k \in Chain(r) : k = 1 /\ keys[k].active
  BY <1>4 DEF Chain, Existing
<1>6. NewestIsActive
  BY <1>5 DEF NewestIsActive
<1> QED  BY <1>1, <1>3, <1>6 DEF Safe, Rotating

\* A step that writes no key keeps the invariant if the request it leads to satisfies it.
LEMMA NoWriteSafe ==
  ASSUME Safe, NEW c \in Callers, NEW r \in Requests, NoWrite(c, r),
         r.step = "served" => ~r.late, Succeeded(r)'
  PROVE  Safe'
<1>1. Typed'
  BY NoWriteTyped DEF Safe, Typed, KeysTypeOK, NoWrite
<1>2. req'[c] = r /\ \A d \in Callers : d # c => req'[d] = req[d]
  BY OneBecomes DEF Safe, NoWrite
<1>3. AckedIsOff'
  BY DEF Safe, AckedIsOff, Existing, NoWrite
<1>4. RevokedIsRefused'
  BY <1>2 DEF Safe, RevokedIsRefused, Waits
<1>5. keys' = keys /\ touched \subseteq touched' /\ \A i : Chain(i)' = Chain(i)
  BY DEF NoWrite, Chain
<1>6. ASSUME NEW d \in Callers PROVE Succeeded(req[d])'
  BY <1>2, <1>5 DEF Safe, Rotating, Succeeded, Chain
<1>7. NewestIsActive'
  BY <1>5 DEF Safe, Rotating, NewestIsActive
<1> QED  BY <1>1, <1>3, <1>4, <1>6, <1>7 DEF Safe, Rotating

LEMMA ServeSafe == ASSUME Safe, NEW c \in Callers, Serve(c) PROVE Safe'
<1>1. NoWrite(c, NoReq)
  BY NoReqIsRequest DEF Serve, NoWrite, Safe, Typed, KeysTypeOK
<1>2. Succeeded(NoReq)'
  BY NoReqIsRequest DEF Succeeded
<1> QED  BY <1>1, <1>2, NoReqIsRequest, NoWriteSafe

LEMMA ArriveSafe == ASSUME Safe, NEW c \in Callers, Arrive(c) PROVE Safe'
<1>1. PICK r \in Requests : NoWrite(c, r) /\ r.step \in {"served", "authorize"} /\ (r.step = "served" => ~r.late)
  BY ArriveSteps DEF Safe
<1>2. Succeeded(r)'
  BY <1>1 DEF Succeeded
<1> QED  BY <1>1, <1>2, NoWriteSafe

LEMMA AuthorizeSafe == ASSUME Safe, NEW c \in Callers, Authorize(c) PROVE Safe'
<1>1. PICK r \in Requests : /\ NoWrite(c, r) /\ r.step \in {"none", "insertKey", "getKey"}
                            /\ r.step = "getKey" /\ r.next = "revoke" => r.id \in touched'
  BY AuthorizeSteps DEF Safe
<1>2. r.step # "served" /\ r.step # "revokeGet" /\ r.step # "revokePut"
  BY <1>1
<1>3. Succeeded(r)'
  BY <1>1, <1>2 DEF Succeeded
<1> QED  BY <1>1, <1>2, <1>3, NoWriteSafe

LEMMA GetKeySafe == ASSUME Safe, NEW c \in Callers, GetKey(c) PROVE Safe'
<1>1. PICK r \in Requests : /\ NoWrite(c, r) /\ UNCHANGED touched
                            /\ \/ r.step \in {"none", "insertRotated"}
                               \/ r.step = "revokePut" /\ req[c].next = "revoke" /\ r.id = req[c].id
  BY GetKeySteps DEF Safe
<1>2. req[c].next = "revoke" => req[c].id \in touched
  BY DEF Safe, Rotating, Succeeded, GetKey, Waits
<1>3. Succeeded(r)'
  BY <1>1, <1>2 DEF Succeeded
<1> QED  BY <1>1, <1>3, NoWriteSafe

LEMMA RevokeGetSafe == ASSUME Safe, NEW c \in Callers, RevokeGet(c) PROVE Safe'
<1>1. PICK r \in Requests : /\ NoWrite(c, r) /\ UNCHANGED touched /\ req[c].step = "revokeGet"
                            /\ r.step = "revokePut" /\ r.id = req[c].id
  BY RevokeGetSteps DEF Safe
<1>2. r.id \in touched \/ \E k \in Chain(keys[r.id].root) : k > r.id
  BY <1>1 DEF Safe, Rotating, Succeeded
<1>3. keys' = keys
  BY <1>1 DEF NoWrite
<1>4. Succeeded(r)'
  BY <1>1, <1>2, <1>3 DEF Succeeded, Chain
<1> QED  BY <1>1, <1>4, NoWriteSafe

\* Storing a fresh active key keeps the invariant: it is the newest of its chain.
LEMMA InsertSafe ==
  ASSUME Safe, NEW c \in Callers, NEW r \in Requests, Become(c, r), NEW k \in KeyRecord,
         Fresh <= MaxKeys, keys' = [keys EXCEPT ![Fresh] = k], HoldsStored(r), k.active,
         UNCHANGED <<authOn, expired, keyCalls, acked, touched>>,
         r.step \in {"none", "revokeGet"},
         r.step = "revokeGet" => keys[r.id].root = k.root
  PROVE  Safe'
<1>1. Typed' /\ Existing' = Existing \cup {Fresh} /\ \A i \in Existing : keys'[i] = keys[i]
  BY InsertTyped DEF Safe
<1>2. /\ Fresh \in KeyIds /\ Fresh \notin Existing /\ (\A i \in Existing : i < Fresh) /\ keys'[Fresh] = k
      /\ k # NoKey /\ Existing \subseteq KeyIds /\ KeyIds \subseteq Nat
  BY FreshIsNew, KeysAssumption DEF Safe, Typed, KeysTypeOK, Existing, KeyIds
<1>3. req'[c] = r /\ \A d \in Callers : d # c => req'[d] = req[d]
  BY OneBecomes DEF Safe
<1>4. AckedIsOff'
  BY <1>1 DEF Safe, AckedIsOff
<1>5. RevokedIsRefused'
  BY <1>3 DEF Safe, RevokedIsRefused, Waits
<1>6. \A i \in KeyIds : Chain(i)' = IF i = k.root THEN Chain(i) \cup {Fresh} ELSE Chain(i)
  BY <1>1, <1>2 DEF Chain, Existing
<1>7. NewestIsActive'
  <2> SUFFICES ASSUME NEW i \in KeyIds, Chain(i)' # {}, Chain(i)' \cap touched = {}
               PROVE  \E m \in Chain(i)' : keys'[m].active /\ \A j \in Chain(i)' : j <= m
    BY DEF NewestIsActive
  <2>1. Chain(i) \subseteq Existing
    BY DEF Chain, Existing
  <2>2. CASE i = k.root
    BY <1>2, <1>6, <2>1, <2>2
  <2>3. CASE i # k.root
    <3>1. PICK m \in Chain(i) : keys[m].active /\ \A j \in Chain(i) : j <= m
      BY <1>6, <2>3 DEF Safe, Rotating, NewestIsActive
    <3> QED  BY <1>1, <1>6, <2>1, <2>3, <3>1
  <2> QED  BY <2>2, <2>3
<1>8. ASSUME NEW d \in Callers PROVE Succeeded(req[d])'
  <2>1. CASE d = c
    <3>1. CASE r.step = "revokeGet"
      <4>1. r.id \in Existing /\ keys'[r.id].root = k.root /\ k.root \in KeyIds
        BY <1>1, <3>1 DEF HoldsStored, Existing, KeyRecord
      <4>2. Fresh \in KeyIds /\ keys'[Fresh] # NoKey /\ keys'[Fresh].root = keys'[r.id].root /\ Fresh > r.id
        BY <1>2, <4>1
      <4>3. Succeeded(r)'
        BY <3>1, <4>2 DEF Succeeded, Chain
      <4> QED  BY <1>3, <2>1, <4>3 DEF Succeeded
    <3> QED  BY <1>3, <2>1, <3>1 DEF Succeeded
  <2>2. CASE d # c
    <3>1. Succeeded(req[d]) /\ HoldsStored(req[d]) /\ req'[d] = req[d]
      BY <1>3, <2>2 DEF Safe, Rotating, Typed
    <3>2. CASE req[d].step \in {"revokeGet", "revokePut"} /\ req[d].id \notin touched
      <4>1. /\ req[d].id \in Existing /\ keys'[req[d].id] = keys[req[d].id]
            /\ keys[req[d].id] \in KeyRecord
        BY <1>1, <3>1, <3>2 DEF HoldsStored, Existing, Safe, Typed, KeysTypeOK
      <4>2. PICK j \in Chain(keys[req[d].id].root) : j > req[d].id
        BY <3>1, <3>2 DEF Succeeded
      <4>3. j \in KeyIds /\ keys'[j] # NoKey /\ keys'[j].root = keys'[req[d].id].root
        BY <1>1, <4>1, <4>2 DEF Chain, Existing
      <4> QED  BY <3>1, <3>2, <4>2, <4>3 DEF Succeeded, Chain
    <3> QED  BY <3>1, <3>2 DEF Succeeded
  <2> QED  BY <2>1, <2>2
<1> QED  BY <1>1, <1>4, <1>5, <1>7, <1>8 DEF Safe, Rotating

LEMMA InsertKeySafe == ASSUME Safe, NEW c \in Callers, InsertKey(c) PROVE Safe'
<1>1. PICK admin \in BOOLEAN, expires \in BOOLEAN :
        /\ Fresh <= MaxKeys /\ Become(c, NoReq)
        /\ keys' = [keys EXCEPT ![Fresh] = [admin |-> admin, expires |-> expires, active |-> TRUE,
                                            root |-> Fresh]]
        /\ UNCHANGED <<authOn, expired, keyCalls, acked, touched>>
  BY DEF InsertKey
<1> DEFINE k == [admin |-> admin, expires |-> expires, active |-> TRUE, root |-> Fresh]
<1>2. k \in KeyRecord /\ k.active
  BY <1>1, FreshIsNew DEF KeyRecord, Safe
<1>3. NoReq.step # "revokeGet"
  BY NoReqIsRequest
<1> QED  BY <1>1, <1>2, <1>3, NoReqIsRequest, InsertSafe

LEMMA InsertRotatedSafe == ASSUME Safe, NEW c \in Callers, InsertRotated(c) PROVE Safe'
<1> DEFINE k == [req[c].old EXCEPT !.active = TRUE]
           r == [step |-> "revokeGet", id |-> req[c].id]
<1>1. /\ Fresh <= MaxKeys /\ keys' = [keys EXCEPT ![Fresh] = k] /\ Become(c, r)
      /\ UNCHANGED <<authOn, expired, keyCalls, acked, touched>>
  BY DEF InsertRotated
<1>2. /\ req[c].old \in KeyRecord /\ req[c].id \in KeyIds /\ keys[req[c].id] # NoKey
      /\ req[c].old.root = keys[req[c].id].root
  BY DEF InsertRotated, Waits, Safe, Typed, HoldsStored
<1>3. k \in KeyRecord /\ k.active /\ k.root = req[c].old.root
  BY <1>2 DEF KeyRecord
<1>4. r \in Requests /\ r.step = "revokeGet" /\ r.id = req[c].id /\ HoldsStored(r)
  BY <1>2 DEF Requests, HoldsStored
<1> QED  BY <1>1, <1>2, <1>3, <1>4, InsertSafe

\* Switching a key off keeps the invariant: it was to be revoked, or has a successor.
LEMMA RevokePutSafe == ASSUME Safe, NEW c \in Callers, RevokePut(c) PROVE Safe'
<1> DEFINE i == req[c].id
<1>1. /\ Typed' /\ Existing' = Existing /\ i \in Existing /\ ~keys'[i].active
      /\ \A k \in Existing : keys'[k].root = keys[k].root
      /\ \A k \in Existing : k # i => keys'[k] = keys[k]
  BY RevokePutTyped DEF Safe
<1>2. /\ acked' = acked \cup {i} /\ UNCHANGED touched /\ NoReq \in Requests /\ Become(c, NoReq)
      /\ NoReq.step = "none" /\ req[c].step = "revokePut"
  BY NoReqIsRequest DEF RevokePut, Waits
<1>3. req'[c] = NoReq /\ \A d \in Callers : d # c => req'[d] = req[d]
  BY <1>2, OneBecomes DEF Safe
<1>4. AckedIsOff'
  BY <1>1, <1>2 DEF Safe, AckedIsOff
<1>5. RevokedIsRefused'
  BY <1>2, <1>3 DEF Safe, RevokedIsRefused, Waits
<1>6. \A j : Chain(j)' = Chain(j)
  BY <1>1 DEF Chain, Existing
<1>7. NewestIsActive'
  <2> SUFFICES ASSUME NEW j \in KeyIds, Chain(j) # {}, Chain(j) \cap touched = {}
               PROVE  \E m \in Chain(j) : keys'[m].active /\ \A k \in Chain(j) : k <= m
    BY <1>2, <1>6 DEF NewestIsActive
  <2>1. PICK m \in Chain(j) : keys[m].active /\ \A k \in Chain(j) : k <= m
    BY DEF Safe, Rotating, NewestIsActive
  <2>2. m # i
    <3>1. SUFFICES ASSUME m = i PROVE FALSE
      OBVIOUS
    <3>2. i \notin touched /\ keys[i].root = j
      BY <2>1, <3>1 DEF Chain
    <3>3. PICK k \in Chain(keys[i].root) : k > i
      BY <1>2, <3>2 DEF Safe, Rotating, Succeeded
    <3>4. k <= i /\ k \in Nat /\ i \in Nat
      BY <2>1, <3>1, <3>2, <3>3, KeysAssumption DEF Chain, KeyIds
    <3> QED  BY <3>3, <3>4
  <2>3. m \in Existing
    BY <2>1 DEF Chain, Existing
  <2> QED  BY <1>1, <2>1, <2>2, <2>3
<1>8. ASSUME NEW d \in Callers PROVE Succeeded(req[d])'
  <2>1. CASE d = c
    BY <1>2, <1>3, <2>1 DEF Succeeded
  <2>2. CASE d # c
    <3>1. Succeeded(req[d]) /\ HoldsStored(req[d]) /\ req'[d] = req[d]
      BY <1>3, <2>2 DEF Safe, Rotating, Typed
    <3>2. req[d].step \in {"revokeGet", "revokePut"} => keys'[req[d].id].root = keys[req[d].id].root
      BY <1>1, <3>1 DEF HoldsStored, Existing
    <3> QED  BY <1>2, <1>6, <3>1, <3>2 DEF Succeeded
  <2> QED  BY <2>1, <2>2
<1> QED  BY <1>1, <1>4, <1>5, <1>7, <1>8 DEF Safe, Rotating

LEMMA NextSafe == Safe /\ [KeysNext]_keyVars => Safe'
<1> SUFFICES ASSUME Safe, [KeysNext]_keyVars PROVE Safe'
  OBVIOUS
<1>1. CASE UNCHANGED keyVars
  BY <1>1 DEF keyVars, Safe, Typed, KeysTypeOK, KeysNumbered, Existing, HoldsStored, AckedIsOff,
              RevokedIsRefused, Waits, Rotating, Succeeded, NewestIsActive, Chain
<1>2. ASSUME NEW c \in Callers,
             Arrive(c) \/ Serve(c) \/ Authorize(c) \/ InsertKey(c) \/ GetKey(c)
               \/ InsertRotated(c) \/ RevokeGet(c) \/ RevokePut(c)
      PROVE  Safe'
  BY <1>2, ArriveSafe, ServeSafe, AuthorizeSafe, InsertKeySafe, GetKeySafe, InsertRotatedSafe,
     RevokeGetSafe, RevokePutSafe
<1>3. CASE Expire
  <2>1. expired' = TRUE /\ UNCHANGED <<authOn, keys, req, keyCalls, acked, touched>>
    BY <1>3 DEF Expire
  <2> QED  BY <2>1 DEF Safe, Typed, KeysTypeOK, KeysNumbered, Existing, HoldsStored, AckedIsOff,
                       RevokedIsRefused, Waits, Rotating, Succeeded, NewestIsActive, Chain
<1>4. CASE KeysCrash
  <2>1. /\ req' = [c \in Callers |-> NoReq] /\ keyCalls' \in 0..MaxKeyCalls
        /\ UNCHANGED <<authOn, keys, expired, acked, touched>>
    BY <1>4, KeysAssumption DEF KeysCrash, Safe, Typed, KeysTypeOK
  <2>2. req' \in [Callers -> Requests] /\ \A c \in Callers : req'[c].step = "none"
    BY <2>1, NoReqIsRequest
  <2>3. Typed'
    BY <2>1, <2>2 DEF Safe, Typed, KeysTypeOK, KeysNumbered, Existing, HoldsStored
  <2>4. AckedIsOff' /\ RevokedIsRefused'
    BY <2>1, <2>2 DEF Safe, AckedIsOff, Existing, RevokedIsRefused, Waits
  <2>5. Rotating'
    BY <2>1, <2>2 DEF Safe, Rotating, Succeeded, NewestIsActive, Chain
  <2> QED  BY <2>3, <2>4, <2>5 DEF Safe
<1> QED  BY <1>1, <1>2, <1>3, <1>4 DEF KeysNext

\* The invariant holds in every state.
THEOREM KeysAreSafe == KeysSpec => []Safe
<1> QED  BY InitSafe, NextSafe, PTL DEF KeysSpec
-----------------------------------------------------------------------------
(* Theorems *)

\* Keys, requests and history keep their types for any number of callers, keys and requests.
THEOREM KeysTypeCorrect == KeysSpec => []KeysTypeOK
<1>1. Safe => KeysTypeOK
  BY DEF Safe, Typed
<1> QED  BY <1>1, KeysAreSafe, PTL

\* After the answer to its revocation a key admits no request (store.rs, revoke and update).
THEOREM RevokedKeysAreRefused == KeysSpec => []RevokedIsRefused
<1>1. Safe => RevokedIsRefused
  BY DEF Safe
<1> QED  BY <1>1, KeysAreSafe, PTL

\* However rotations overlap and wherever the process dies, an owner who asked for no revocation
\* has an active key (routes/auth.rs, rotate_key).
THEOREM OwnersKeepAKey == KeysSpec => []RotationNeverLocksOut
<1>1. Safe => RotationNeverLocksOut
  BY DEF Safe, Rotating, NewestIsActive, Chain, RotationNeverLocksOut
<1> QED  BY <1>1, KeysAreSafe, PTL
=============================================================================
