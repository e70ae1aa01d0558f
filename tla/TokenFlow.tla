----------------------------- MODULE TokenFlow -----------------------------
(***************************************************************************)
(* How a Hub token turns into an access to an object in the CAS: the token *)
(* store (shared by several Hub instances through one database), the       *)
(* signers, the LFS batch, resolve and token-exchange endpoints that       *)
(* derive short-lived tokens, the LFS proxy that forwards them, and the    *)
(* guard of the CAS that accepts them.  Signatures are abstract: a token   *)
(* is its claims, and only issued claims exist.  A step takes no time; the *)
(* clock moves between steps.  Keys are rotated while all this goes on.    *)
(***************************************************************************)
EXTENDS Naturals, FiniteSets

CONSTANTS
  Hubs,        \* Hub instances on one database
  HubTokens,   \* hf_ tokens
  Scopes,      \* the scopes a Hub token may be created with, each a set of words
  Oids,        \* LFS objects
  Reqs,        \* slots for requests that are being handled by a Hub
  UserTtl,     \* ttl_seconds: user tokens
  ProxyTtl,    \* proxy_ttl_seconds: proxy tokens of the Hub
  CasProxyTtl, \* PROXY_TOKEN_TTL_SECONDS: proxy tokens of the CAS
  CasSigns,    \* the CAS has a private key
  MaxLifetime, \* MAX_TOKEN_LIFETIME_SECS
  Timeout,     \* internal_timeout_seconds of the Hub's CAS client
  MaxTime,     \* bound on the clock
  MaxIssued,   \* bound on the live derived tokens
  ExpiryTimes, \* expirations that are given to Hub tokens
  None

\* A row of the tokens table; Never is later than every time.
Never == MaxTime + 1
Rows  == [salt : Hubs, scope : Scopes, revoked : 0..Never, expires : 0..Never]

ASSUME TokenAssumption ==
  /\ {UserTtl, ProxyTtl, CasProxyTtl} \subseteq 1..MaxLifetime
  /\ MaxLifetime \in Nat /\ Timeout \in Nat /\ MaxTime \in Nat /\ MaxIssued \in Nat
  /\ Scopes \subseteq SUBSET {"read", "write"} /\ CasSigns \in BOOLEAN /\ ExpiryTimes \subseteq 0..MaxTime
  /\ None \notin Hubs \cup Oids \cup HubTokens \cup Rows

VARIABLES
  now,      \* the clock all instances and the CAS read
  salt,     \* _config.token_hash_salt: the instance that generated it, or None
  boot,     \* get_or_generate_hash_salt of each instance
  mySalt,   \* hash_salt of each instance
  kid,      \* the key each instance signs with
  switched, \* when the last of the instances and the CAS got the new key
  casKeys,  \* verification_keys of the CAS
  casKid,   \* signing_kid of the CAS
  row,      \* rows of the tokens table
  issued,   \* derived tokens in the hands of clients
  req,      \* requests in progress
  stored    \* objects the CAS holds

hubs == <<salt, boot, mySalt, kid, switched>>
cas  == <<casKeys, casKid>>
vars == <<now, hubs, cas, row, issued, req, stored>>

Ops  == {"upload", "download"}
Kids == {"old", "new"}
Required(op)   == IF op = "upload" THEN "write" ELSE "read"
ProxyScope(op) == IF op = "upload" THEN "lfs-upload" ELSE "lfs-download"

\* The last three are history and never read: the Hub token that the chain of
\* tokens starts from, when that one was found valid, and when the first token
\* of the chain was signed.
Claims ==
  [kind : {"user", "proxy"}, scope : {"read", "write", "lfs-upload", "lfs-download"},
   oid : Oids \cup {None}, op : Ops \cup {None}, iat : Nat, exp : Nat, kid : Kids,
   root : HubTokens, asked : Nat, signed : Nat]

Idle     == [at |-> "idle"]
Carrying == {"batch", "actions", "spool", "forward", "done"}
InHub    == Carrying \cup {"checked"}

\* What the variables may hold; a live derived token has a legal lifetime.
TypeOK ==
  /\ now \in 0..MaxTime
  /\ salt \in Hubs \cup {None} /\ mySalt \in [Hubs -> Hubs \cup {None}]
  /\ boot \in [Hubs -> {"read", "insert", "reselect", "up"}]
  /\ kid \in [Hubs -> Kids] /\ switched \in 0..Never
  /\ casKeys \subseteq Kids /\ casKid \in Kids /\ row \in [HubTokens -> Rows \cup {None}]
  /\ issued \subseteq Claims
  /\ \A c \in issued : c.exp - c.iat \in 1..MaxLifetime
  /\ \A r \in Reqs : req[r].at \in InHub \cup {"idle", "answered", "acked"}
  /\ stored \subseteq Oids

Init ==
  /\ now = 0
  /\ salt = None /\ boot = [h \in Hubs |-> "read"] /\ mySalt = [h \in Hubs |-> None]
  /\ kid = [h \in Hubs |-> "old"] /\ switched = Never
  /\ casKeys = Kids /\ casKid = "old"
  /\ row = [t \in HubTokens |-> None]
  /\ issued = {} /\ req = [r \in Reqs |-> Idle] /\ stored = {}

-----------------------------------------------------------------------------
(* The token store. *)

Step(h, next) == boot' = [boot EXCEPT ![h] = next]

ReadSalt(h) ==
  /\ boot[h] = "read"
  /\ \/ salt # None /\ mySalt' = [mySalt EXCEPT ![h] = salt] /\ Step(h, "up")
     \/ salt = None /\ UNCHANGED mySalt /\ Step(h, "insert")
  /\ UNCHANGED <<now, salt, kid, switched, cas, row, issued, req, stored>>

\* INSERT OR IGNORE of a fresh salt.
InsertSalt(h) ==
  /\ boot[h] = "insert" /\ Step(h, "reselect")
  /\ salt' = IF salt = None THEN h ELSE salt
  /\ UNCHANGED <<now, mySalt, kid, switched, cas, row, issued, req, stored>>

\* Mutant: goes on with the salt it generated.
ReselectSaltKeepsOwn(h) ==
  /\ boot[h] = "reselect" /\ Step(h, "up")
  /\ mySalt' = [mySalt EXCEPT ![h] = h]
  /\ UNCHANGED <<now, salt, kid, switched, cas, row, issued, req, stored>>

ReselectSalt(h) ==
  /\ boot[h] = "reselect" /\ Step(h, "up")
  /\ mySalt' = [mySalt EXCEPT ![h] = IF salt = None THEN h ELSE salt]
  /\ UNCHANGED <<now, salt, kid, switched, cas, row, issued, req, stored>>

create_token(h, t, scope) ==
  /\ boot[h] = "up" /\ row[t] = None
  /\ row' = [row EXCEPT ![t] = [salt |-> mySalt[h], scope |-> scope,
                                revoked |-> Never, expires |-> Never]]
  /\ UNCHANGED <<now, hubs, cas, issued, req, stored>>

\* A row is found by the hash of the token, which depends on the salt.
Found(h, t) == row[t] # None /\ row[t].salt = mySalt[h]

\* The row keeps the time at which the UPDATE took effect; the code's
\* revoked_at, only ever compared with NULL, is read off the clock before it.
revoke_token(h, t) ==
  /\ boot[h] = "up" /\ Found(h, t) /\ row[t].revoked = Never
  /\ row' = [row EXCEPT ![t].revoked = now]
  /\ UNCHANGED <<now, hubs, cas, issued, req, stored>>

set_token_expiration(h, t, at) ==
  /\ boot[h] = "up" /\ Found(h, t)
  /\ row' = [row EXCEPT ![t].expires = at]
  /\ UNCHANGED <<now, hubs, cas, issued, req, stored>>

\* Mutant: revoked_at is not looked at.
validate_token_unrevoked(h, t) ==
  boot[h] = "up" /\ Found(h, t) /\ row[t].expires >= now

validate_token(h, t) ==
  boot[h] = "up" /\ Found(h, t) /\ row[t].revoked = Never /\ row[t].expires >= now

scope_allows(scope, required) ==
  required \in scope \/ (required = "read" /\ "write" \in scope)

-----------------------------------------------------------------------------
(* Signing and verifying. *)

\* What comes before: a request that has been let in, or another token.
Chain(q) == [root |-> q.root, asked |-> q.asked, signed |-> now]

sign(h, chain, scope) ==
  [kind |-> "user", scope |-> scope, oid |-> None, op |-> None,
   iat |-> now, exp |-> now + UserTtl, kid |-> kid[h],
   root |-> chain.root, asked |-> chain.asked, signed |-> chain.signed]

sign_proxy(h, chain, oid, op) ==
  [kind |-> "proxy", scope |-> ProxyScope(op), oid |-> oid, op |-> op,
   iat |-> now, exp |-> now + ProxyTtl, kid |-> kid[h],
   root |-> chain.root, asked |-> chain.asked, signed |-> chain.signed]

\* The CAS signs proxy tokens too, with a lifetime and a key of its own.
sign_proxy_token(chain, oid, op) ==
  [kind |-> "proxy", scope |-> ProxyScope(op), oid |-> oid, op |-> op,
   iat |-> now, exp |-> now + CasProxyTtl, kid |-> casKid,
   root |-> chain.root, asked |-> chain.asked, signed |-> chain.signed]

\* Mutant: the longest lifetime is refused.
validate_claims_for_kind_strict(c) ==
  /\ c.exp > c.iat /\ c.exp - c.iat < MaxLifetime
  /\ c.kind = "proxy" => c.oid # None /\ c.op \in Ops /\ c.scope = ProxyScope(c.op)

validate_claims_for_kind(c) ==
  /\ c.exp > c.iat /\ c.exp - c.iat <= MaxLifetime
  /\ c.kind = "proxy" => c.oid # None /\ c.op \in Ops /\ c.scope = ProxyScope(c.op)

verify_token_any_kind(c, keys) ==
  c.kid \in keys /\ c.exp > now /\ c.iat <= now /\ validate_claims_for_kind(c)

check_scope(c, required) == c.kind = "user" /\ c.scope = required

\* Mutant: the operation is not compared.
authorize_lfs_object_any_op(c, op, oid) ==
  IF c.kind = "proxy" THEN c.oid = oid ELSE check_scope(c, Required(op))

authorize_lfs_object(c, op, oid) ==
  IF c.kind = "proxy" THEN c.scope = ProxyScope(op) /\ c.oid = oid /\ c.op = op
                      ELSE check_scope(c, Required(op))

CasAccepts(c, op, oid) ==
  verify_token_any_kind(c, casKeys) /\ authorize_lfs_object(c, op, oid)

\* The Hub knows its own key only.
validate_proxy_token(h, c, oid, op) ==
  /\ c.kind = "proxy" /\ verify_token_any_kind(c, {kid[h]})
  /\ c.scope = ProxyScope(op) /\ c.oid = oid /\ c.op = op

\* Clients keep MaxIssued tokens at most.
Issue(c) ==
  \E kept \in SUBSET issued : Cardinality(kept) < MaxIssued /\ issued' = kept \cup {c}

-----------------------------------------------------------------------------
(* Endpoints of the Hub that derive tokens. *)

\* The Hub token is looked up and its scope compared, by the AuthUser extractor
\* or at the start of LfsBatchService::batch.  The handler, which one is seen at
\* its end, then works with what it has been told: it reads the database, and
\* the token may be revoked or expire before it signs.
AuthUser(r, h, t, scope) ==
  /\ req[r].at = "idle"
  /\ validate_token(h, t) /\ scope_allows(row[t].scope, scope)
  /\ req' = [req EXCEPT ![r] = [at |-> "checked", hub |-> h, scope |-> scope,
                                root |-> t, asked |-> now]]
  /\ UNCHANGED <<now, hubs, cas, row, issued, stored>>

exchange(r) ==
  /\ req[r].at = "checked"
  /\ Issue(sign(req[r].hub, Chain(req[r]), req[r].scope))
  /\ req' = [req EXCEPT ![r] = Idle]
  /\ UNCHANGED <<now, hubs, cas, row, stored>>

\* A redirect to the object, or a small file that the Hub reads itself.
resolve(r, oid) ==
  /\ req[r].at = "checked" /\ req[r].scope = "read"
  /\ \/ /\ Issue(sign_proxy(req[r].hub, Chain(req[r]), oid, "download"))
        /\ req' = [req EXCEPT ![r] = Idle]
     \/ /\ req' = [req EXCEPT ![r] = [at |-> "forward", hub |-> req[r].hub, op |-> "download",
                     oid |-> oid, tok |-> sign(req[r].hub, Chain(req[r]), "read")]]
        /\ UNCHANGED issued
  /\ UNCHANGED <<now, hubs, cas, row, stored>>

\* LfsBatchService::batch up to proxy_batch.
BatchStart(r, op, oid) ==
  /\ req[r].at = "checked" /\ req[r].scope = Required(op)
  /\ req' = [req EXCEPT ![r] = [at |-> "batch", hub |-> req[r].hub, op |-> op, oid |-> oid,
               tok |-> sign(req[r].hub, Chain(req[r]), Required(op)), since |-> now]]
  /\ UNCHANGED <<now, hubs, cas, row, issued, stored>>

\* batch_operation of the CAS: the answer tells how long its action will work.
batch_operation(r) ==
  /\ req[r].at = "batch"
  /\ \/ /\ verify_token_any_kind(req[r].tok, casKeys)
        /\ check_scope(req[r].tok, Required(req[r].op))
        /\ req' = [req EXCEPT ![r] = [at |-> "actions", hub |-> req[r].hub, op |-> req[r].op,
                     oid |-> req[r].oid, tok |-> req[r].tok, since |-> req[r].since,
                     expires_in |-> IF CasSigns THEN CasProxyTtl ELSE req[r].tok.exp - now]]
     \/ /\ ~(verify_token_any_kind(req[r].tok, casKeys)
             /\ check_scope(req[r].tok, Required(req[r].op)))
        /\ req' = [req EXCEPT ![r] = Idle]
  /\ UNCHANGED <<now, hubs, cas, row, issued, stored>>

\* The answer arrives in time: rewrite_batch_urls puts a token of the Hub in.
rewrite_batch_urls(r) ==
  /\ req[r].at = "actions" /\ now <= req[r].since + Timeout
  /\ LET c == sign_proxy(req[r].hub, req[r].tok, req[r].oid, req[r].op) IN
       /\ Issue(c)
       /\ req' = [req EXCEPT ![r] = [at |-> "answered", tok |-> c,
                                     until |-> now + req[r].expires_in]]
  /\ UNCHANGED <<now, hubs, cas, row, stored>>

-----------------------------------------------------------------------------
(* Objects through the Hub, and directly. *)

\* lfs_upload and lfs_download: LfsObjectGuard::authorize.
ObjectStart(r, h, c, op, oid) ==
  /\ req[r].at = "idle" /\ boot[h] = "up"
  /\ c \in issued /\ validate_proxy_token(h, c, oid, op)
  /\ req' = [req EXCEPT ![r] = [at |-> IF op = "upload" THEN "spool" ELSE "forward",
                                hub |-> h, op |-> op, oid |-> oid, tok |-> c]]
  /\ UNCHANGED <<now, hubs, cas, row, issued, stored>>

\* The payload is in the temp file: its hash is the oid, or the request fails.
Spooled(r) ==
  /\ req[r].at = "spool"
  /\ \/ req' = [req EXCEPT ![r].at = "forward"]
     \/ req' = [req EXCEPT ![r] = Idle]
  /\ UNCHANGED <<now, hubs, cas, row, issued, stored>>

\* The CAS checks the forwarded token itself; an upload is stored or fails.
CasHandles(r) ==
  /\ req[r].at = "forward"
  /\ \/ /\ CasAccepts(req[r].tok, req[r].op, req[r].oid)
        /\ stored' = IF req[r].op = "upload" THEN stored \cup {req[r].oid} ELSE stored
        /\ req' = [req EXCEPT ![r].at = "done"]
     \/ req' = [req EXCEPT ![r] = Idle] /\ UNCHANGED stored
  /\ UNCHANGED <<now, hubs, cas, row, issued>>

\* Mutant: a request that timed out is answered like one that succeeded.
HubReplyOptimistic(r) ==
  /\ req[r].at \in {"forward", "done"}
  /\ req' = [req EXCEPT ![r] = [at |-> "acked", op |-> req[r].op, oid |-> req[r].oid]]
  /\ UNCHANGED <<now, hubs, cas, row, issued, stored>>

\* The answer of the CAS reaches the client.
HubReply(r) ==
  /\ req[r].at = "done"
  /\ req' = [req EXCEPT ![r] = [at |-> "acked", op |-> req[r].op, oid |-> req[r].oid]]
  /\ UNCHANGED <<now, hubs, cas, row, issued, stored>>

\* The Hub gives up: its client times out (504) or the connection fails (502),
\* whether or not the CAS has done its part; or the caller goes away.
GiveUp(r) ==
  /\ req[r].at \in InHub
  /\ req' = [req EXCEPT ![r] = Idle]
  /\ UNCHANGED <<now, hubs, cas, row, issued, stored>>

Finish(r) ==
  /\ req[r].at \in {"answered", "acked"}
  /\ req' = [req EXCEPT ![r] = Idle]
  /\ UNCHANGED <<now, hubs, cas, row, issued, stored>>

\* A client that talks to the CAS itself.
DirectAccess(c, op, oid) ==
  /\ c \in issued /\ CasAccepts(c, op, oid)
  /\ stored' = IF op = "upload" THEN stored \cup {oid} ELSE stored
  /\ UNCHANGED <<now, hubs, cas, row, issued, req>>

\* A batch request of such a client: the CAS signs the token of the action.
DirectBatch(c, op, oid) ==
  /\ CasSigns /\ c \in issued
  /\ verify_token_any_kind(c, casKeys) /\ check_scope(c, Required(op))
  /\ Issue(sign_proxy_token(c, oid, op))
  /\ UNCHANGED <<now, hubs, cas, row, req, stored>>

-----------------------------------------------------------------------------
(* The operator and the clock. *)

\* An instance is restarted with the new key; what it was doing is lost.
Restart(h) ==
  /\ boot[h] = "up" /\ kid[h] = "old"
  /\ kid' = [kid EXCEPT ![h] = "new"] /\ Step(h, "read")
  /\ mySalt' = [mySalt EXCEPT ![h] = None]
  /\ switched' = IF casKid = "new" /\ \A g \in Hubs \ {h} : kid[g] = "new" THEN now ELSE Never
  /\ req' = [r \in Reqs |->
               IF req[r].at \in InHub /\ req[r].hub = h
               THEN Idle ELSE req[r]]
  /\ UNCHANGED <<now, salt, cas, row, issued, stored>>

RestartCas ==
  /\ casKid = "old" /\ casKid' = "new"
  /\ switched' = IF \A h \in Hubs : kid[h] = "new" THEN now ELSE Never
  /\ UNCHANGED <<now, salt, boot, mySalt, kid, casKeys, row, issued, req, stored>>

\* The old key is removed once everybody has switched and the tokens that it
\* signed have had the time to expire.
RemoveOldKey ==
  /\ "old" \in casKeys
  /\ \A ttl \in {UserTtl, ProxyTtl, CasProxyTtl} : now >= switched + ttl
  /\ casKeys' = casKeys \ {"old"}
  /\ UNCHANGED <<now, hubs, casKid, row, issued, req, stored>>

\* Tokens that expire are forgotten: nothing accepts them any more.
Tick ==
  /\ now < MaxTime /\ now' = now + 1
  /\ issued' = {c \in issued : c.exp > now + 1}
  /\ UNCHANGED <<hubs, cas, row, req, stored>>

Next ==
  \/ Tick \/ RestartCas \/ RemoveOldKey
  \/ \E h \in Hubs :
       \/ ReadSalt(h) \/ InsertSalt(h) \/ ReselectSalt(h) \/ Restart(h)
       \/ \E t \in HubTokens :
            \/ \E scope \in Scopes : create_token(h, t, scope)
            \/ revoke_token(h, t)
            \/ \E at \in ExpiryTimes : set_token_expiration(h, t, at)
            \/ \E r \in Reqs, scope \in {"read", "write"} : AuthUser(r, h, t, scope)
       \/ \E r \in Reqs, c \in issued, op \in Ops, oid \in Oids : ObjectStart(r, h, c, op, oid)
  \/ \E r \in Reqs :
       \/ exchange(r)
       \/ \E oid \in Oids : resolve(r, oid) \/ \E op \in Ops : BatchStart(r, op, oid)
       \/ batch_operation(r) \/ rewrite_batch_urls(r) \/ Spooled(r) \/ CasHandles(r)
       \/ HubReply(r) \/ GiveUp(r) \/ Finish(r)
  \/ \E c \in issued, op \in Ops, oid \in Oids :
       DirectAccess(c, op, oid) \/ DirectBatch(c, op, oid)

Spec == Init /\ [][Next]_vars

-----------------------------------------------------------------------------
(* Properties. *)

\* However the instances interleave their first start, they agree on the hash
\* salt, so a token created on one is known to all of them.
TokensPortable ==
  \A h \in Hubs : boot[h] = "up" => \A t \in HubTokens : row[t] # None => Found(h, t)

\* Every token that may still be presented to the CAS.
Live == issued \cup {req[r].tok : r \in {q \in Reqs : req[q].at \in Carrying}}

\* What the CAS would let happen is covered by the Hub token at the start of
\* the chain: an upload needs its write scope, and a proxy token opens its own
\* object for its own operation only.
AccessInScope ==
  \A c \in Live, op \in Ops, oid \in Oids : CasAccepts(c, op, oid) =>
    /\ op = "upload" => "write" \in row[c.root].scope
    /\ c.kind = "proxy" => c.oid = oid /\ c.op = op

\* A revocation is immediate for the Hub's own look-up and for nothing else:
\* what the CAS accepts goes back to a request that found its Hub token before
\* it was revoked, and ends a known time after that request signed, which may
\* be after the revocation.  Nothing tells the CAS.  The longest chains are a
\* user token followed, where the CAS signs, by a batch at the CAS in its last
\* moment, and a batch at the Hub followed by the proxy token it ends with.
RevocationTakesEffect ==
  \A c \in Live, op \in Ops, oid \in Oids : CasAccepts(c, op, oid) =>
    /\ c.asked <= row[c.root].revoked
    /\ \/ now < c.signed + UserTtl + (IF CasSigns THEN CasProxyTtl - 1 ELSE 0)
       \/ now < c.signed + Timeout + ProxyTtl

\* The CAS, which knows keys and no Hub tokens, lets nothing happen that the
\* Hub token behind it does not cover, or has not covered for too long.
AccessSound == TypeOK /\ AccessInScope /\ RevocationTakesEffect

\* A token that the Hub or the CAS has handed out works until it expires: the CAS accepts
\* it for what it was issued for, throughout a rotation of the keys, and so do
\* the Hub instances that hold its key.
HandedOutWorks ==
  \A c \in issued : c.exp > now =>
    /\ c.kind = "proxy" =>
         /\ CasAccepts(c, c.op, c.oid)
         /\ \A h \in Hubs : kid[h] = c.kid => validate_proxy_token(h, c, c.oid, c.op)
    /\ c.kind = "user" => \E op \in Ops : \A oid \in Oids : CasAccepts(c, op, oid)

\* An upload that the Hub has confirmed is in the CAS, whatever timed out or
\* expired on the way.
AckedUploadStored ==
  \A r \in Reqs : req[r].at = "acked" /\ req[r].op = "upload" => req[r].oid \in stored

=============================================================================
