-------------------------- MODULE TokenFlowProofs --------------------------
(***************************************************************************)
(* Tokens, revocation and key rotation for any number of Hub instances,    *)
(* tokens, objects and requests, and any lifetimes.  Three arguments meet  *)
(* in the invariant: the instances agree on one salt (SaltSound), the old  *)
(* key outlives the tokens it signed (KeysSound), and every derived token  *)
(* goes back to a request that found its Hub token valid, whenever that    *)
(* one is revoked, and is bounded by the time that request signed          *)
(* (ClaimSound).                                                           *)
(***************************************************************************)
EXTENDS TokenFlow, TLAPS

\* What a request holds at each of its steps.
ReqType ==
  {Idle}
  \cup [at : {"checked"}, hub : Hubs, scope : {"read", "write"}, root : HubTokens, asked : Nat]
  \cup [at : {"batch"}, hub : Hubs, op : Ops, oid : Oids, tok : Claims, since : Nat]
  \cup [at : {"actions"}, hub : Hubs, op : Ops, oid : Oids, tok : Claims, since : Nat,
        expires_in : Nat]
  \cup [at : {"spool", "forward", "done"}, hub : Hubs, op : Ops, oid : Oids, tok : Claims]
  \cup [at : {"answered"}, tok : Claims, until : Nat]
  \cup [at : {"acked"}, op : Ops, oid : Oids]

\* Whoever is up uses the salt of the database, and so does every row.
SaltSound ==
  /\ \A h \in Hubs : /\ boot[h] = "up" => salt # None /\ mySalt[h] = salt
                     /\ boot[h] = "reselect" => salt # None
  /\ \A t \in HubTokens : row[t] # None => row[t].salt = salt

\* The rotation: who signs with which key, and when the old one may go.
KeysSound ==
  /\ "new" \in casKeys
  /\ switched # Never => switched <= now /\ casKid = "new" /\ \A h \in Hubs : kid[h] = "new"
  /\ "old" \notin casKeys =>
       switched # Never /\ \A ttl \in {UserTtl, ProxyTtl, CasProxyTtl} : now >= switched + ttl

\* A derived token: within its root's scope and lifetime, signed with a key
\* that is still known, and at the end of a chain that starts before its root
\* is revoked.
ClaimSound(c) ==
  LET root == row[c.root]
  IN  /\ c \in Claims /\ root # None /\ c.iat <= now
      /\ c.kid = "old" => c.iat <= switched
      /\ c.asked <= root.revoked /\ c.asked <= now
      /\ c.kind = "user" =>
           /\ c.scope \in {"read", "write"} /\ scope_allows(root.scope, c.scope)
           /\ c.exp = c.iat + UserTtl /\ c.iat = c.signed
      /\ c.kind = "proxy" =>
           /\ c.oid \in Oids /\ c.op \in Ops /\ c.scope = ProxyScope(c.op)
           /\ scope_allows(root.scope, Required(c.op))
           /\ \/ c.exp = c.iat + ProxyTtl /\ c.iat <= c.signed + Timeout
              \/ CasSigns /\ c.exp = c.iat + CasProxyTtl /\ c.iat < c.signed + UserTtl

ReqSound(r) ==
  /\ req[r] \in ReqType
  /\ req[r].at = "checked" =>
       LET root == row[req[r].root]
       IN  /\ root # None /\ scope_allows(root.scope, req[r].scope)
           /\ req[r].asked <= root.revoked /\ req[r].asked <= now
  /\ req[r].at \in Carrying => ClaimSound(req[r].tok)
  /\ req[r].at \in {"batch", "actions"} =>
       /\ req[r].tok.kind = "user" /\ req[r].tok.scope = Required(req[r].op)
       /\ req[r].since = req[r].tok.iat
  /\ req[r].at \in {"done", "acked"} /\ req[r].op = "upload" => req[r].oid \in stored

IInv ==
  /\ TypeOK /\ SaltSound /\ KeysSound /\ DOMAIN req = Reqs
  /\ \A c \in issued : ClaimSound(c)
  /\ \A r \in Reqs : ReqSound(r)

-----------------------------------------------------------------------------
\* The lifetimes are positive numbers, and Never is later than any time.
LEMMA Times ==
  /\ UserTtl \in Nat /\ ProxyTtl \in Nat /\ CasProxyTtl \in Nat
  /\ 1 <= UserTtl /\ 1 <= ProxyTtl /\ 1 <= CasProxyTtl
  /\ UserTtl <= MaxLifetime /\ ProxyTtl <= MaxLifetime /\ CasProxyTtl <= MaxLifetime
  /\ MaxLifetime \in Nat /\ Timeout \in Nat /\ MaxTime \in Nat
  /\ Never \in Nat /\ Never = MaxTime + 1
BY TokenAssumption DEF Never

\* Rows keep their scope, and are revoked at most once and not in the past.
RowsKeep ==
  \A t \in HubTokens : row[t] # None =>
    /\ row'[t] # None /\ row'[t].scope = row[t].scope
    /\ \/ row'[t].revoked = row[t].revoked
       \/ row[t].revoked = Never /\ row'[t].revoked = now

\* Time passes, roots are revoked and keys are rotated: what a token may do
\* stays bounded.
LEMMA ClaimKeeps ==
  ASSUME TypeOK, NEW c, ClaimSound(c), RowsKeep,
         now' \in Nat, now <= now', switched' \in Nat, switched' = switched \/ now <= switched'
  PROVE  ClaimSound(c)'
<1>1. /\ c \in Claims /\ c.root \in HubTokens /\ c.iat \in Nat /\ c.asked \in Nat
      /\ row[c.root] # None /\ row[c.root] \in Rows
  BY DEF ClaimSound, Claims, TypeOK
<1>2. now \in Nat /\ switched \in Nat /\ now <= MaxTime /\ row[c.root].revoked \in Nat
  BY <1>1, Times DEF TypeOK, Rows
<1>3. /\ row'[c.root] # None /\ row'[c.root].scope = row[c.root].scope
      /\ \/ row'[c.root].revoked = row[c.root].revoked
         \/ row[c.root].revoked = Never /\ row'[c.root].revoked = now
  BY <1>1 DEF RowsKeep
<1>4. /\ c.iat <= now' /\ (c.kid = "old" => c.iat <= switched')
      /\ c.asked <= row'[c.root].revoked /\ c.asked <= now'
  <2>1. /\ c.iat <= now /\ (c.kid = "old" => c.iat <= switched)
        /\ c.asked <= row[c.root].revoked /\ c.asked <= now
    BY DEF ClaimSound
  <2> QED BY <1>1, <1>2, <1>3, <2>1
<1>5. c.kind = "user" =>
        /\ c.scope \in {"read", "write"} /\ scope_allows(row'[c.root].scope, c.scope)
        /\ c.exp = c.iat + UserTtl /\ c.iat = c.signed
  BY <1>3 DEF ClaimSound
<1>6. c.kind = "proxy" =>
        /\ c.oid \in Oids /\ c.op \in Ops /\ c.scope = ProxyScope(c.op)
        /\ scope_allows(row'[c.root].scope, Required(c.op))
        /\ \/ c.exp = c.iat + ProxyTtl /\ c.iat <= c.signed + Timeout
           \/ CasSigns /\ c.exp = c.iat + CasProxyTtl /\ c.iat < c.signed + UserTtl
  BY <1>3 DEF ClaimSound
<1> QED BY <1>1, <1>3, <1>4, <1>5, <1>6 DEF ClaimSound

\* A request that does not move.
LEMMA ReqKeeps ==
  ASSUME TypeOK, NEW r \in Reqs, ReqSound(r), RowsKeep, req'[r] = req[r],
         now' \in Nat, now <= now', switched' \in Nat, switched' = switched \/ now <= switched',
         stored \subseteq stored'
  PROVE  ReqSound(r)'
<1>1. PICK q : q = req[r]
  OBVIOUS
<1>2. q.at \in Carrying => ClaimSound(q.tok)
  BY <1>1 DEF ReqSound
<1>3. PICK tok : tok = q.tok
  OBVIOUS
<1>4. q.at \in Carrying => ClaimSound(tok)'
  BY <1>2, <1>3, ClaimKeeps
<1>5. q.at \in Carrying => ClaimSound(req[r].tok)'
  BY <1>1, <1>3, <1>4 DEF ClaimSound
<1>6. q.at = "checked" =>
        /\ row'[q.root] # None /\ scope_allows(row'[q.root].scope, q.scope)
        /\ q.asked <= row'[q.root].revoked /\ q.asked <= now'
  <2> SUFFICES ASSUME q.at = "checked"
               PROVE  /\ row'[q.root] # None /\ scope_allows(row'[q.root].scope, q.scope)
                      /\ q.asked <= row'[q.root].revoked /\ q.asked <= now'
    OBVIOUS
  <2>1. /\ q.root \in HubTokens /\ q.asked \in Nat /\ row[q.root] # None
        /\ scope_allows(row[q.root].scope, q.scope)
        /\ q.asked <= row[q.root].revoked /\ q.asked <= now
    BY <1>1 DEF ReqSound, ReqType, Idle
  <2>2. now \in Nat /\ row[q.root].revoked \in Nat
    BY <2>1, Times DEF TypeOK, Rows
  <2>3. /\ row'[q.root] # None /\ row'[q.root].scope = row[q.root].scope
        /\ \/ row'[q.root].revoked = row[q.root].revoked
           \/ row[q.root].revoked = Never /\ row'[q.root].revoked = now
    BY <2>1 DEF RowsKeep
  <2> QED BY <2>1, <2>2, <2>3
<1> QED BY <1>1, <1>5, <1>6 DEF ReqSound

\* The tokens of clients, some of which are dropped.
LEMMA IssuedKeeps ==
  ASSUME IInv, RowsKeep, NEW kept \in SUBSET issued,
         now' \in Nat, now <= now', switched' \in Nat, switched' = switched \/ now <= switched'
  PROVE  \A c \in kept : ClaimSound(c)'
BY ClaimKeeps DEF IInv

\* Nothing changes but what the lemma says: the rest of the invariant.
LEMMA FrameKeeps ==
  ASSUME IInv, UNCHANGED <<now, hubs, cas, row>>
  PROVE  SaltSound' /\ KeysSound' /\ RowsKeep /\ now' \in Nat /\ now <= now'
         /\ switched' = switched /\ switched' \in Nat
BY Times DEF IInv, TypeOK, SaltSound, KeysSound, RowsKeep, hubs, cas

\* A token is handed out.
LEMMA IssueKeeps ==
  ASSUME IInv, UNCHANGED <<now, hubs, cas, row, stored>>, NEW c, Issue(c), ClaimSound(c),
         c.exp - c.iat \in 1..MaxLifetime,
         DOMAIN req' = Reqs, \A r \in Reqs : ReqSound(r)'
  PROVE  IInv'
<1>1. SaltSound' /\ KeysSound' /\ RowsKeep /\ now' \in Nat /\ now <= now'
      /\ switched' = switched /\ switched' \in Nat
  BY FrameKeeps
<1>2. PICK kept \in SUBSET issued : issued' = kept \cup {c}
  BY DEF Issue
<1>3. \A d \in kept : ClaimSound(d)'
  BY <1>1, IssuedKeeps
<1>4. ClaimSound(c)'
  BY <1>1, ClaimKeeps DEF IInv
<1>5. TypeOK'
  <2>1. issued' \subseteq Claims /\ \A d \in issued' : d.exp - d.iat \in 1..MaxLifetime
    BY <1>2 DEF IInv, TypeOK, ClaimSound
  <2>2. \A r \in Reqs : req'[r].at \in InHub \cup {"idle", "answered", "acked"}
    BY DEF ReqSound, ReqType, Idle, InHub, Carrying
  <2> QED BY <2>1, <2>2 DEF IInv, TypeOK, hubs, cas
<1> QED BY <1>1, <1>2, <1>3, <1>4, <1>5 DEF IInv

\* A request moves.
LEMMA MoveKeeps ==
  ASSUME IInv, UNCHANGED <<now, hubs, cas, row, issued>>,
         NEW r \in Reqs, NEW next, req' = [req EXCEPT ![r] = next],
         stored \subseteq stored', stored' \subseteq Oids, ReqSound(r)'
  PROVE  IInv'
<1>1. SaltSound' /\ KeysSound' /\ RowsKeep /\ now' \in Nat /\ now <= now'
      /\ switched' = switched /\ switched' \in Nat
  BY FrameKeeps
<1>2. \A c \in issued : ClaimSound(c)'
  BY <1>1, IssuedKeeps
<1>3. ASSUME NEW q \in Reqs PROVE ReqSound(q)'
  <2>1. CASE q # r
    <3>1. req'[q] = req[q]
      BY <2>1 DEF IInv
    <3> QED BY <1>1, <3>1, ReqKeeps DEF IInv
  <2> QED BY <2>1
<1>4. TypeOK'
  <2>1. \A q \in Reqs : req'[q].at \in InHub \cup {"idle", "answered", "acked"}
    BY <1>3 DEF ReqSound, ReqType, Idle, InHub, Carrying
  <2> QED BY <2>1 DEF IInv, TypeOK, hubs, cas
<1> QED BY <1>1, <1>2, <1>3, <1>4 DEF IInv

\* What a signer is given: where the chain starts, and when it was first signed.
Chains == [root : HubTokens, asked : Nat, signed : Nat]

ChainSound(chain, scope) ==
  LET root == row[chain.root]
  IN  /\ root # None /\ scope_allows(root.scope, scope)
      /\ chain.asked <= root.revoked /\ chain.asked <= now

\* The three signers make sound tokens, of a root that allows it.
LEMMA SignSound ==
  ASSUME IInv, NEW h \in Hubs, NEW chain \in Chains, NEW scope \in {"read", "write"},
         ChainSound(chain, scope), chain.signed = now
  PROVE  /\ ClaimSound(sign(h, chain, scope))
         /\ sign(h, chain, scope).exp - sign(h, chain, scope).iat \in 1..MaxLifetime
<1>1. now \in Nat /\ now <= MaxTime /\ kid[h] \in Kids /\ (kid[h] = "old" => switched = Never)
  BY Times DEF IInv, TypeOK, KeysSound
<1>2. sign(h, chain, scope) \in Claims
  BY <1>1, Times DEF sign, Claims, Chains
<1>3. now <= Never
  BY <1>1, Times
<1> QED BY <1>1, <1>2, <1>3, Times DEF sign, ClaimSound, ChainSound, Chains

\* sign_proxy: the request that asks for it, if it went to the CAS, has not
\* waited for longer than the Hub's client does.
LEMMA SignProxySound ==
  ASSUME IInv, NEW h \in Hubs, NEW chain, NEW oid \in Oids, NEW op \in Ops,
         chain.root \in HubTokens, chain.asked \in Nat, chain.signed \in Nat,
         ChainSound(chain, Required(op)), now <= chain.signed + Timeout
  PROVE  /\ ClaimSound(sign_proxy(h, chain, oid, op))
         /\ sign_proxy(h, chain, oid, op).exp - sign_proxy(h, chain, oid, op).iat \in 1..MaxLifetime
<1>1. now \in Nat /\ now <= MaxTime /\ kid[h] \in Kids /\ (kid[h] = "old" => switched = Never)
  BY Times DEF IInv, TypeOK, KeysSound
<1>2. sign_proxy(h, chain, oid, op) \in Claims
  BY <1>1, Times DEF sign_proxy, Claims, ProxyScope
<1>3. now <= Never
  BY <1>1, Times
<1> QED BY <1>1, <1>2, <1>3, Times DEF sign_proxy, ClaimSound, ChainSound

\* sign_proxy_token of the CAS: it was shown a user token that still lived.
LEMMA SignProxyTokenSound ==
  ASSUME IInv, CasSigns, NEW chain, NEW oid \in Oids, NEW op \in Ops,
         chain.root \in HubTokens, chain.asked \in Nat, chain.signed \in Nat,
         ChainSound(chain, Required(op)), now < chain.signed + UserTtl
  PROVE  /\ ClaimSound(sign_proxy_token(chain, oid, op))
         /\ sign_proxy_token(chain, oid, op).exp - sign_proxy_token(chain, oid, op).iat \in 1..MaxLifetime
<1>1. now \in Nat /\ now <= MaxTime /\ casKid \in Kids /\ (casKid = "old" => switched = Never)
  BY Times DEF IInv, TypeOK, KeysSound
<1>2. sign_proxy_token(chain, oid, op) \in Claims
  BY <1>1, Times DEF sign_proxy_token, Claims, ProxyScope
<1>3. now <= Never
  BY <1>1, Times
<1> QED BY <1>1, <1>2, <1>3, Times DEF sign_proxy_token, ClaimSound, ChainSound

\* Rows, keys or the clock change, and requests stay what they are.
LEMMA EnvKeeps ==
  ASSUME IInv, RowsKeep, UNCHANGED <<req, stored>>, issued' \subseteq issued,
         now' \in 0..MaxTime, now <= now', switched' \in 0..Never,
         switched' = switched \/ now <= switched',
         SaltSound', KeysSound',
         salt' \in Hubs \cup {None}, mySalt' \in [Hubs -> Hubs \cup {None}],
         boot' \in [Hubs -> {"read", "insert", "reselect", "up"}], kid' \in [Hubs -> Kids],
         casKeys' \subseteq Kids, casKid' \in Kids, row' \in [HubTokens -> Rows \cup {None}]
  PROVE  IInv'
<1>1. now' \in Nat /\ switched' \in Nat
  BY Times
<1>2. \A c \in issued' : ClaimSound(c)'
  BY <1>1, IssuedKeeps
<1>3. \A r \in Reqs : ReqSound(r)'
  BY <1>1, ReqKeeps DEF IInv
<1>4. TypeOK'
  BY DEF IInv, TypeOK
<1> QED BY <1>2, <1>3, <1>4 DEF IInv

\* No hub has a salt, and nothing has been issued.
LEMMA InitInv == Init => IInv
<1> SUFFICES ASSUME Init PROVE IInv
  OBVIOUS
<1>1. Never \in 0..Never /\ 0 \in 0..MaxTime
  BY Times
<1>2. \A r \in Reqs : ReqSound(r)
  <2> SUFFICES ASSUME NEW r \in Reqs PROVE ReqSound(r)
    OBVIOUS
  <2>1. req[r] = Idle /\ req[r].at = "idle"
    BY DEF Init, Idle
  <2> QED BY <2>1 DEF ReqSound, ReqType, Carrying
<1>3. TypeOK
  BY <1>1, Times DEF Init, TypeOK, Idle, Kids
<1>4. SaltSound
  BY DEF Init, SaltSound
<1>5. KeysSound
  BY DEF Init, KeysSound, Kids
<1> QED BY <1>2, <1>3, <1>4, <1>5 DEF Init, IInv

-----------------------------------------------------------------------------
(* One lemma per group of actions. *)

\* The start of an instance: the salt is set once.
LEMMA SaltSteps ==
  ASSUME IInv, NEW h \in Hubs, ReadSalt(h) \/ InsertSalt(h) \/ ReselectSalt(h)
  PROVE  IInv'
<1>1. /\ UNCHANGED <<now, kid, switched, cas, row, issued, req, stored>>
      /\ boot' \in [Hubs -> {"read", "insert", "reselect", "up"}]
      /\ salt' \in Hubs \cup {None} /\ mySalt' \in [Hubs -> Hubs \cup {None}]
  BY DEF ReadSalt, InsertSalt, ReselectSalt, Step, IInv, TypeOK
<1>2. /\ now' \in 0..MaxTime /\ now <= now' /\ switched' \in 0..Never /\ switched' = switched
      /\ kid' \in [Hubs -> Kids] /\ casKeys' \subseteq Kids /\ casKid' \in Kids
      /\ row' \in [HubTokens -> Rows \cup {None}]
  BY <1>1, Times DEF IInv, TypeOK, cas
<1>3. KeysSound' /\ RowsKeep
  BY <1>1 DEF IInv, KeysSound, RowsKeep, cas
<1>4. None \notin Hubs
  BY TokenAssumption
<1>5. SaltSound'
  <2>1. SaltSound /\ boot \in [Hubs -> {"read", "insert", "reselect", "up"}]
        /\ mySalt \in [Hubs -> Hubs \cup {None}] /\ row' = row
    BY <1>1 DEF IInv, TypeOK
  <2>2. CASE ReadSalt(h)
    BY <2>1, <2>2 DEF SaltSound, ReadSalt, Step
  <2>3. CASE InsertSalt(h)
    <3>1. salt # None => salt' = salt
      BY <2>3 DEF InsertSalt
    <3>2. salt' # None /\ mySalt' = mySalt
      BY <1>4, <2>3 DEF InsertSalt
    <3>3. \A g \in Hubs : boot'[g] = "up" => boot[g] = "up"
      BY <2>1, <2>3 DEF InsertSalt, Step
    <3>4. \A t \in HubTokens : row[t] # None => salt # None
      BY <1>4, <2>1 DEF SaltSound, IInv, TypeOK, Rows
    <3> QED BY <2>1, <3>1, <3>2, <3>3, <3>4 DEF SaltSound
  <2>4. CASE ReselectSalt(h)
    BY <2>1, <2>4 DEF SaltSound, ReselectSalt, Step
  <2> QED BY <2>2, <2>3, <2>4
<1> QED BY <1>1, <1>2, <1>3, <1>5, EnvKeeps

\* create_token, revoke_token and set_token_expiration.
LEMMA RowSteps ==
  ASSUME IInv, NEW h \in Hubs, NEW t \in HubTokens, boot[h] = "up",
         NEW new \in Rows, row' = [row EXCEPT ![t] = new], new.salt = mySalt[h],
         row[t] # None => /\ new.scope = row[t].scope
                          /\ \/ new.revoked = row[t].revoked
                             \/ row[t].revoked = Never /\ new.revoked = now,
         UNCHANGED <<now, hubs, cas, issued, req, stored>>
  PROVE  IInv'
<1>1. None \notin Rows
  BY TokenAssumption
<1>2. row' \in [HubTokens -> Rows \cup {None}]
  BY DEF IInv, TypeOK
<1>3. RowsKeep
  BY <1>1 DEF IInv, TypeOK, RowsKeep
<1>4. SaltSound'
  BY DEF IInv, TypeOK, SaltSound, hubs
<1>5. KeysSound'
  BY DEF IInv, KeysSound, hubs, cas
<1>6. /\ now' \in 0..MaxTime /\ now <= now' /\ switched' \in 0..Never /\ switched' = switched
      /\ salt' \in Hubs \cup {None} /\ mySalt' \in [Hubs -> Hubs \cup {None}]
      /\ boot' \in [Hubs -> {"read", "insert", "reselect", "up"}]
      /\ kid' \in [Hubs -> Kids] /\ casKeys' \subseteq Kids /\ casKid' \in Kids
  BY Times DEF IInv, TypeOK, hubs, cas
<1> QED BY <1>2, <1>3, <1>4, <1>5, <1>6, EnvKeeps

\* A new token is stored under the salt of the hub that creates it.
LEMMA CreateInv ==
  ASSUME IInv, NEW h \in Hubs, NEW t \in HubTokens, NEW scope \in Scopes, create_token(h, t, scope)
  PROVE  IInv'
<1> DEFINE new == [salt |-> mySalt[h], scope |-> scope, revoked |-> Never, expires |-> Never]
<1>1. boot[h] = "up" /\ row[t] = None /\ row' = [row EXCEPT ![t] = new]
      /\ UNCHANGED <<now, hubs, cas, issued, req, stored>>
  BY DEF create_token
<1>2. mySalt[h] \in Hubs
  BY <1>1 DEF IInv, TypeOK, SaltSound
<1>3. new \in Rows /\ new.salt = mySalt[h]
  BY <1>2, Times DEF Rows
<1>4. PICK n \in Rows : n = new
  BY <1>3
<1>5. row' = [row EXCEPT ![t] = n] /\ n.salt = mySalt[h]
  BY <1>1, <1>3, <1>4
<1>6. row[t] # None => /\ n.scope = row[t].scope
                       /\ \/ n.revoked = row[t].revoked
                          \/ row[t].revoked = Never /\ n.revoked = now
  BY <1>1, <1>3, <1>4
<1> QED BY <1>1, <1>5, <1>6, RowSteps

\* Revoking a token can only take access away.
LEMMA RevokeInv ==
  ASSUME IInv, NEW h \in Hubs, NEW t \in HubTokens, revoke_token(h, t)
  PROVE  IInv'
<1> DEFINE new == [row[t] EXCEPT !.revoked = now]
<1>1. boot[h] = "up" /\ row[t] # None /\ row[t].salt = mySalt[h] /\ row[t].revoked = Never
      /\ row' = [row EXCEPT ![t] = new]
      /\ UNCHANGED <<now, hubs, cas, issued, req, stored>>
  BY DEF revoke_token, Found
<1>2. row[t] \in Rows /\ now \in 0..Never
  BY <1>1, Times DEF IInv, TypeOK
<1>3. new \in Rows /\ new.salt = row[t].salt /\ new.scope = row[t].scope /\ new.revoked = now
  BY <1>2 DEF Rows
<1>4. PICK n \in Rows : n = new
  BY <1>3
<1>5. row' = [row EXCEPT ![t] = n] /\ n.salt = mySalt[h]
  BY <1>1, <1>3, <1>4
<1>6. row[t] # None => /\ n.scope = row[t].scope
                       /\ \/ n.revoked = row[t].revoked
                          \/ row[t].revoked = Never /\ n.revoked = now
  BY <1>1, <1>3, <1>4
<1> QED BY <1>1, <1>5, <1>6, RowSteps

\* An expiration time changes neither the salt nor the scope of a token.
LEMMA ExpireInv ==
  ASSUME IInv, NEW h \in Hubs, NEW t \in HubTokens, NEW at \in ExpiryTimes,
         set_token_expiration(h, t, at)
  PROVE  IInv'
<1> DEFINE new == [row[t] EXCEPT !.expires = at]
<1>1. boot[h] = "up" /\ row[t] # None /\ row[t].salt = mySalt[h]
      /\ row' = [row EXCEPT ![t] = new]
      /\ UNCHANGED <<now, hubs, cas, issued, req, stored>>
  BY DEF set_token_expiration, Found
<1>2. row[t] \in Rows /\ at \in 0..Never
  BY <1>1, Times, TokenAssumption DEF IInv, TypeOK
<1>3. new \in Rows /\ new.salt = row[t].salt /\ new.scope = row[t].scope
      /\ new.revoked = row[t].revoked
  BY <1>2 DEF Rows
<1>4. PICK n \in Rows : n = new
  BY <1>3
<1> HIDE DEF new
<1>5. row' = [row EXCEPT ![t] = n] /\ n.salt = mySalt[h]
  BY <1>1, <1>3, <1>4
<1>6. row[t] # None => /\ n.scope = row[t].scope
                       /\ \/ n.revoked = row[t].revoked
                          \/ row[t].revoked = Never /\ n.revoked = now
  BY <1>1, <1>3, <1>4
<1> QED BY <1>1, <1>5, <1>6, RowSteps

\* A token is handed out and no request moves.
LEMMA IssueAlone ==
  ASSUME IInv, UNCHANGED <<now, hubs, cas, row, req, stored>>, NEW c, Issue(c), ClaimSound(c),
         c.exp - c.iat \in 1..MaxLifetime
  PROVE  IInv'
<1>1. RowsKeep /\ now' \in Nat /\ now <= now' /\ switched' = switched /\ switched' \in Nat
  BY FrameKeeps
<1>2. \A r \in Reqs : ReqSound(r)'
  BY <1>1, ReqKeeps DEF IInv
<1>3. DOMAIN req' = Reqs
  BY DEF IInv
<1> QED BY <1>2, <1>3, IssueKeeps

\* The CAS signs for a client that shows a user token in its last moment.
LEMMA DirectBatchInv ==
  ASSUME IInv, NEW c \in issued, NEW op \in Ops, NEW oid \in Oids, DirectBatch(c, op, oid)
  PROVE  IInv'
<1>1. CasSigns /\ c.exp > now /\ c.kind = "user" /\ c.scope = Required(op)
      /\ UNCHANGED <<now, hubs, cas, row, req, stored>>
  BY DEF DirectBatch, verify_token_any_kind, check_scope
<1>2. ClaimSound(c) /\ c \in Claims
  BY DEF IInv, ClaimSound
<1>3. c.root \in HubTokens /\ c.asked \in Nat /\ c.signed \in Nat /\ c.exp \in Nat /\ c.iat \in Nat
  BY <1>2 DEF Claims
<1>4. ChainSound(c, Required(op)) /\ c.exp = c.signed + UserTtl
  BY <1>1, <1>2 DEF ClaimSound, ChainSound
<1>5. now < c.signed + UserTtl
  BY <1>1, <1>3, <1>4, Times DEF IInv, TypeOK
<1>6. PICK d : d = sign_proxy_token(c, oid, op)
  OBVIOUS
<1>7. ClaimSound(d) /\ d.exp - d.iat \in 1..MaxLifetime
  BY <1>1, <1>3, <1>4, <1>5, <1>6, SignProxyTokenSound
<1>8. Issue(d)
  BY <1>6 DEF DirectBatch
<1> QED BY <1>1, <1>7, <1>8, IssueAlone

\* What a request has become, from what it has been given.
LEMMA NewReq ==
  ASSUME IInv, UNCHANGED <<now, hubs, cas, row>>,
         NEW r \in Reqs, NEW n \in ReqType, req' = [req EXCEPT ![r] = n],
         NEW tok, n.at \in Carrying => n.tok = tok /\ ClaimSound(tok),
         n.at = "checked" => ChainSound(n, n.scope),
         n.at \in {"batch", "actions"} =>
           tok.kind = "user" /\ tok.scope = Required(n.op) /\ n.since = tok.iat,
         n.at \in {"done", "acked"} /\ n.op = "upload" => n.oid \in stored'
  PROVE  ReqSound(r)'
<1>1. req'[r] = n
  BY DEF IInv
<1>2. RowsKeep /\ now' \in Nat /\ now <= now' /\ switched' = switched /\ switched' \in Nat
  BY FrameKeeps
<1>3. n.at \in Carrying => ClaimSound(tok)'
  BY <1>2, ClaimKeeps DEF IInv
<1>4. n.at \in Carrying => ClaimSound(req[r].tok)'
  BY <1>1, <1>3 DEF ClaimSound
<1>5. {"batch", "actions"} \subseteq Carrying
  BY DEF Carrying
<1>6. n.at = "checked" => ChainSound(n, n.scope)'
  BY DEF ChainSound
<1> QED BY <1>1, <1>4, <1>5, <1>6 DEF ReqSound, ChainSound

\* A request is dropped.
LEMMA IdleInv ==
  ASSUME IInv, UNCHANGED <<now, hubs, cas, row, issued, stored>>,
         NEW r \in Reqs, req' = [req EXCEPT ![r] = Idle]
  PROVE  IInv'
<1>1. Idle \in ReqType /\ Idle.at = "idle"
  BY DEF ReqType, Idle
<1>2. PICK n \in ReqType : n = Idle
  BY <1>1
<1>3. req' = [req EXCEPT ![r] = n] /\ n.at = "idle"
  BY <1>1, <1>2
<1>4. ReqSound(r)'
  <2>1. n.at \notin Carrying /\ n.at # "checked" /\ n.at \notin {"batch", "actions"} /\ n.at \notin {"done", "acked"}
    BY <1>3 DEF Carrying
  <2> QED BY <1>3, <2>1, NewReq
<1> QED BY <1>3, <1>4, MoveKeeps DEF IInv, TypeOK

\* A request is let in: its Hub token is valid at this moment.
LEMMA AuthUserInv ==
  ASSUME IInv, NEW r \in Reqs, NEW h \in Hubs, NEW t \in HubTokens,
         NEW scope \in {"read", "write"}, AuthUser(r, h, t, scope)
  PROVE  IInv'
<1>1. /\ row[t] # None /\ row[t].revoked = Never /\ scope_allows(row[t].scope, scope)
      /\ UNCHANGED <<now, hubs, cas, row, issued, stored>>
  BY DEF AuthUser, validate_token, Found
<1>2. now \in Nat /\ now <= Never
  BY Times DEF IInv, TypeOK
<1>3. PICK n : n = [at |-> "checked", hub |-> h, scope |-> scope, root |-> t, asked |-> now]
  OBVIOUS
<1>4. n \in ReqType /\ n.at = "checked" /\ n.scope = scope /\ n.root = t /\ n.asked = now
  BY <1>2, <1>3 DEF ReqType
<1>5. ChainSound(n, n.scope)
  BY <1>1, <1>2, <1>4 DEF ChainSound
<1>6. req' = [req EXCEPT ![r] = n]
  BY <1>3 DEF AuthUser
<1>7. ReqSound(r)'
  <2>1. n.at \notin Carrying /\ n.at \notin {"batch", "actions"} /\ n.at \notin {"done", "acked"}
    BY <1>4 DEF Carrying
  <2> QED BY <1>1, <1>4, <1>5, <1>6, <2>1, NewReq
<1> QED BY <1>1, <1>6, <1>7, MoveKeeps DEF IInv, TypeOK

\* What a request knows that has been let in, whatever has become of its Hub
\* token since then.
LEMMA CheckedReq ==
  ASSUME IInv, NEW r \in Reqs, req[r].at = "checked"
  PROVE  /\ req[r].hub \in Hubs /\ req[r].scope \in {"read", "write"}
         /\ Chain(req[r]) \in Chains /\ Chain(req[r]).signed = now
         /\ ChainSound(Chain(req[r]), req[r].scope)
<1>1. PICK q : q = req[r]
  OBVIOUS
<1>2. q \in [at : {"checked"}, hub : Hubs, scope : {"read", "write"}, root : HubTokens, asked : Nat]
  BY <1>1 DEF IInv, ReqSound, ReqType, Idle
<1>3. now \in Nat
  BY Times DEF IInv, TypeOK
<1>4. Chain(q) \in Chains /\ Chain(q).signed = now /\ Chain(q).root = q.root /\ Chain(q).asked = q.asked
  BY <1>2, <1>3 DEF Chain, Chains
<1>5. row[q.root] # None /\ scope_allows(row[q.root].scope, q.scope)
      /\ q.asked <= row[q.root].revoked /\ q.asked <= now
  BY <1>1 DEF IInv, ReqSound
<1>6. ChainSound(Chain(q), q.scope)
  BY <1>4, <1>5 DEF ChainSound
<1> QED BY <1>1, <1>2, <1>4, <1>6

\* A token is handed out and the request is over.
LEMMA IssueAndEnd ==
  ASSUME IInv, UNCHANGED <<now, hubs, cas, row, stored>>, NEW c, Issue(c), ClaimSound(c),
         c.exp - c.iat \in 1..MaxLifetime, NEW r \in Reqs, NEW n \in ReqType,
         n.at \in {"idle", "answered"}, req' = [req EXCEPT ![r] = n]
  PROVE  IInv'
<1>1. ReqSound(r)'
  <2>1. /\ n.at \notin Carrying /\ n.at # "checked" /\ n.at \notin {"batch", "actions"}
        /\ n.at \notin {"done", "acked"}
    BY DEF Carrying
  <2> QED BY <2>1, NewReq
<1>2. ASSUME NEW p \in Reqs PROVE ReqSound(p)'
  <2>1. CASE p # r
    <3>1. req'[p] = req[p]
      BY <2>1 DEF IInv
    <3>2. RowsKeep /\ now' \in Nat /\ now <= now' /\ switched' = switched /\ switched' \in Nat
      BY FrameKeeps
    <3> QED BY <3>1, <3>2, ReqKeeps DEF IInv
  <2> QED BY <1>1, <2>1
<1>3. DOMAIN req' = Reqs
  BY DEF IInv
<1> QED BY <1>2, <1>3, IssueKeeps

\* A CAS token is issued with the scope that the Hub token was found to allow.
LEMMA ExchangeInv ==
  ASSUME IInv, NEW r \in Reqs, exchange(r)
  PROVE  IInv'
<1>1. PICK chain \in Chains, h \in Hubs, scope \in {"read", "write"} :
        /\ chain = Chain(req[r]) /\ h = req[r].hub /\ scope = req[r].scope
        /\ chain.signed = now /\ ChainSound(chain, scope)
  BY CheckedReq DEF exchange
<1>2. PICK c : c = sign(h, chain, scope)
  OBVIOUS
<1>3. ClaimSound(c) /\ c.exp - c.iat \in 1..MaxLifetime
  BY <1>1, <1>2, SignSound
<1>4. Issue(c) /\ req' = [req EXCEPT ![r] = Idle] /\ UNCHANGED <<now, hubs, cas, row, stored>>
  BY <1>1, <1>2 DEF exchange
<1>5. Idle \in ReqType /\ Idle.at = "idle"
  BY DEF ReqType, Idle
<1> QED BY <1>3, <1>4, <1>5, IssueAndEnd

\* A redirect carries a token for one object, to be read, and a small file is
\* read with a user token.
LEMMA ResolveInv ==
  ASSUME IInv, NEW r \in Reqs, NEW oid \in Oids, resolve(r, oid)
  PROVE  IInv'
<1>1. PICK chain \in Chains, h \in Hubs :
        /\ chain = Chain(req[r]) /\ h = req[r].hub
        /\ chain.signed = now /\ ChainSound(chain, "read")
  BY CheckedReq DEF resolve
<1>2. UNCHANGED <<now, hubs, cas, row, stored>>
  BY DEF resolve
<1>3. CASE /\ Issue(sign_proxy(req[r].hub, Chain(req[r]), oid, "download"))
           /\ req' = [req EXCEPT ![r] = Idle]
  <2>1. chain.root \in HubTokens /\ chain.asked \in Nat /\ chain.signed \in Nat
    BY DEF Chains
  <2>2. now <= chain.signed + Timeout
    BY <1>1, <2>1, Times
  <2>3. PICK c : c = sign_proxy(h, chain, oid, "download")
    OBVIOUS
  <2>4. "download" \in Ops /\ Required("download") = "read"
    BY DEF Ops, Required
  <2>5. ClaimSound(c) /\ c.exp - c.iat \in 1..MaxLifetime
    BY <1>1, <2>1, <2>2, <2>3, <2>4, SignProxySound
  <2>6. Issue(c)
    BY <1>1, <1>3, <2>3
  <2>7. Idle \in ReqType /\ Idle.at = "idle"
    BY DEF ReqType, Idle
  <2> QED BY <1>2, <1>3, <2>5, <2>6, <2>7, IssueAndEnd
<1>4. CASE /\ req' = [req EXCEPT ![r] = [at |-> "forward", hub |-> req[r].hub, op |-> "download",
                        oid |-> oid, tok |-> sign(req[r].hub, Chain(req[r]), "read")]]
           /\ UNCHANGED issued
  <2>1. PICK tok : tok = sign(h, chain, "read")
    OBVIOUS
  <2>2. ClaimSound(tok) /\ tok \in Claims
    BY <1>1, <2>1, SignSound DEF ClaimSound
  <2>3. PICK n : n = [at |-> "forward", hub |-> h, op |-> "download", oid |-> oid, tok |-> tok]
    OBVIOUS
  <2>4. n \in ReqType /\ n.at = "forward" /\ n.tok = tok
    BY <2>2, <2>3 DEF ReqType, Ops
  <2>5. req' = [req EXCEPT ![r] = n]
    BY <1>1, <1>4, <2>1, <2>3
  <2>6. ReqSound(r)'
    <3>1. n.at # "checked" /\ n.at \notin {"batch", "actions"} /\ n.at \notin {"done", "acked"}
      BY <2>4
    <3> QED BY <1>2, <2>2, <2>4, <2>5, <3>1, NewReq
  <2> QED BY <1>2, <1>4, <2>5, <2>6, MoveKeeps DEF IInv, TypeOK
<1> QED BY <1>3, <1>4 DEF resolve

\* A batch goes to the CAS with a user token of the Hub.
LEMMA BatchStartInv ==
  ASSUME IInv, NEW r \in Reqs, NEW op \in Ops, NEW oid \in Oids, BatchStart(r, op, oid)
  PROVE  IInv'
<1>1. PICK chain \in Chains, h \in Hubs, scope \in {"read", "write"} :
        /\ chain = Chain(req[r]) /\ h = req[r].hub /\ scope = Required(op)
        /\ chain.signed = now /\ ChainSound(chain, scope)
  BY CheckedReq DEF BatchStart
<1>2. UNCHANGED <<now, hubs, cas, row, issued, stored>>
  BY DEF BatchStart
<1>3. PICK tok : tok = sign(h, chain, scope)
  OBVIOUS
<1>4. ClaimSound(tok)
  BY <1>1, <1>3, SignSound
<1>5. tok \in Claims /\ tok.kind = "user" /\ tok.scope = Required(op) /\ tok.iat = now
  BY <1>1, <1>3, <1>4 DEF sign, ClaimSound
<1>6. PICK n : n = [at |-> "batch", hub |-> h, op |-> op, oid |-> oid, tok |-> tok, since |-> now]
  OBVIOUS
<1>7. n \in ReqType /\ n.at = "batch" /\ n.tok = tok /\ n.op = op /\ n.since = now
  BY <1>5, <1>6, Times DEF ReqType, IInv, TypeOK
<1>8. req' = [req EXCEPT ![r] = n]
  BY <1>1, <1>3, <1>6 DEF BatchStart
<1>9. ReqSound(r)'
  BY <1>2, <1>4, <1>5, <1>7, <1>8, NewReq
<1> QED BY <1>2, <1>8, <1>9, MoveKeeps DEF IInv, TypeOK

\* An LFS batch answers with tokens for the operation it was asked for.
LEMMA BatchOperationInv ==
  ASSUME IInv, NEW r \in Reqs, batch_operation(r)
  PROVE  IInv'
<1> DEFINE ok == verify_token_any_kind(req[r].tok, casKeys)
                 /\ check_scope(req[r].tok, Required(req[r].op))
           Ttl == IF CasSigns THEN CasProxyTtl ELSE req[r].tok.exp - now
           Next1 == [at |-> "actions", hub |-> req[r].hub, op |-> req[r].op,
                     oid |-> req[r].oid, tok |-> req[r].tok, since |-> req[r].since,
                     expires_in |-> Ttl]
<1>1. req[r].at = "batch" /\ UNCHANGED <<now, hubs, cas, row, issued, stored>>
  BY DEF batch_operation
<1>2. CASE ok /\ req' = [req EXCEPT ![r] = Next1]
  <2>1. PICK q : q = req[r]
    OBVIOUS
  <2>2. q \in [at : {"batch"}, hub : Hubs, op : Ops, oid : Oids, tok : Claims, since : Nat]
    BY <1>1, <2>1 DEF IInv, ReqSound, ReqType, Idle
  <2>3. PICK tok : tok = q.tok
    OBVIOUS
  <2>4. ClaimSound(tok) /\ tok.kind = "user" /\ tok.scope = Required(q.op) /\ q.since = tok.iat
    BY <1>1, <2>1, <2>3 DEF IInv, ReqSound, Carrying
  <2>5. tok \in Claims /\ tok.exp > now
    BY <1>2, <2>1, <2>3, <2>4 DEF verify_token_any_kind, ClaimSound
  <2>6. PICK ttl : ttl = Ttl
    OBVIOUS
  <2>7. ttl \in Nat
    <3>1. now \in Nat /\ tok.exp \in Nat
      BY <2>5, Times DEF Claims, IInv, TypeOK
    <3>2. tok.exp - now \in Nat
      BY <2>5, <3>1
    <3> QED BY <2>1, <2>3, <2>6, <3>2, Times
  <2>8. PICK n : n = [at |-> "actions", hub |-> q.hub, op |-> q.op, oid |-> q.oid, tok |-> tok,
                      since |-> q.since, expires_in |-> ttl]
    OBVIOUS
  <2>9. n \in ReqType /\ n.at = "actions" /\ n.tok = tok /\ n.op = q.op /\ n.since = q.since
    BY <2>2, <2>5, <2>7, <2>8 DEF ReqType
  <2>10. req' = [req EXCEPT ![r] = n]
    BY <1>2, <2>1, <2>3, <2>6, <2>8
  <2>11. ReqSound(r)'
    BY <1>1, <2>4, <2>9, <2>10, NewReq
  <2> QED BY <1>1, <2>10, <2>11, MoveKeeps DEF IInv, TypeOK
<1>3. CASE req' = [req EXCEPT ![r] = Idle]
  BY <1>1, <1>3, IdleInv
<1> QED BY <1>2, <1>3 DEF batch_operation

\* The proxy token of the answer: the request has not waited longer than the
\* client of the Hub lets it since it signed.
LEMMA RewriteInv ==
  ASSUME IInv, NEW r \in Reqs, rewrite_batch_urls(r)
  PROVE  IInv'
<1>1. /\ req[r].at = "actions" /\ now <= req[r].since + Timeout
      /\ UNCHANGED <<now, hubs, cas, row, stored>>
  BY DEF rewrite_batch_urls
<1>2. PICK q : q = req[r]
  OBVIOUS
<1>3. q \in [at : {"actions"}, hub : Hubs, op : Ops, oid : Oids, tok : Claims, since : Nat,
             expires_in : Nat]
  BY <1>1, <1>2 DEF IInv, ReqSound, ReqType, Idle
<1>4. PICK tok : tok = q.tok
  OBVIOUS
<1>5. ClaimSound(tok) /\ tok.kind = "user" /\ tok.scope = Required(q.op) /\ q.since = tok.iat
  BY <1>1, <1>2, <1>4 DEF IInv, ReqSound, Carrying
<1>6. PICK h \in Hubs, op \in Ops, oid \in Oids : h = q.hub /\ op = q.op /\ oid = q.oid
  BY <1>3
<1>7. tok.root \in HubTokens /\ tok.asked \in Nat /\ tok.signed \in Nat
  BY <1>3, <1>4 DEF Claims
<1>8. ChainSound(tok, Required(op)) /\ now <= tok.signed + Timeout
  BY <1>1, <1>2, <1>5, <1>6 DEF ClaimSound, ChainSound
<1>9. PICK c : c = sign_proxy(h, tok, oid, op)
  OBVIOUS
<1>10. ClaimSound(c) /\ c.exp - c.iat \in 1..MaxLifetime
  BY <1>7, <1>8, <1>9, SignProxySound
<1>11. PICK n : n = [at |-> "answered", tok |-> c, until |-> now + q.expires_in]
  OBVIOUS
<1>12. Issue(c) /\ req' = [req EXCEPT ![r] = n]
  BY <1>2, <1>4, <1>6, <1>9, <1>11 DEF rewrite_batch_urls
<1>13. n \in ReqType /\ n.at = "answered"
  <2>1. c \in Claims /\ now + q.expires_in \in Nat
    BY <1>3, <1>10, Times DEF ClaimSound, IInv, TypeOK
  <2> QED BY <1>11, <2>1 DEF ReqType
<1> QED BY <1>1, <1>10, <1>12, <1>13, IssueAndEnd

\* A proxied request is let in when its token fits it at that time.
LEMMA ObjectStartInv ==
  ASSUME IInv, NEW r \in Reqs, NEW h \in Hubs, NEW c \in issued, NEW op \in Ops,
         NEW oid \in Oids, ObjectStart(r, h, c, op, oid)
  PROVE  IInv'
<1>1. ClaimSound(c) /\ c \in Claims /\ UNCHANGED <<now, hubs, cas, row, issued, stored>>
  BY DEF IInv, ClaimSound, ObjectStart
<1>2. PICK n : n = [at |-> IF op = "upload" THEN "spool" ELSE "forward",
                    hub |-> h, op |-> op, oid |-> oid, tok |-> c]
  OBVIOUS
<1>3. n \in ReqType /\ n.at \in {"spool", "forward"} /\ n.tok = c
  BY <1>1, <1>2 DEF ReqType
<1>4. req' = [req EXCEPT ![r] = n]
  BY <1>2 DEF ObjectStart
<1>5. ReqSound(r)'
  <2>1. n.at # "checked" /\ n.at \notin {"batch", "actions"} /\ n.at \notin {"done", "acked"}
    BY <1>3
  <2> QED BY <1>1, <1>3, <1>4, <2>1, NewReq
<1> QED BY <1>1, <1>4, <1>5, MoveKeeps DEF IInv, TypeOK

\* A request with a proxy token goes on.
LEMMA AdvanceInv ==
  ASSUME IInv, NEW r \in Reqs, req[r].at \in {"spool", "forward"},
         UNCHANGED <<now, hubs, cas, row, issued>>,
         NEW to \in {"forward", "done"}, req' = [req EXCEPT ![r].at = to],
         stored \subseteq stored', stored' \subseteq Oids,
         to = "done" /\ req[r].op = "upload" => req[r].oid \in stored'
  PROVE  IInv'
<1>1. PICK q : q = req[r]
  OBVIOUS
<1>2. q \in [at : {"spool", "forward", "done"}, hub : Hubs, op : Ops, oid : Oids, tok : Claims]
  BY <1>1 DEF IInv, ReqSound, ReqType, Idle
<1>3. PICK tok : tok = q.tok
  OBVIOUS
<1>4. ClaimSound(tok)
  BY <1>1, <1>3 DEF IInv, ReqSound, Carrying
<1>5. PICK n : n = [q EXCEPT !.at = to]
  OBVIOUS
<1>6. n \in ReqType /\ n.at = to /\ n.tok = tok /\ n.op = q.op /\ n.oid = q.oid
  BY <1>2, <1>3, <1>5 DEF ReqType
<1>7. req' = [req EXCEPT ![r] = n]
  BY <1>1, <1>5 DEF IInv
<1>8. ReqSound(r)'
  <2>1. n.at # "checked" /\ n.at \notin {"batch", "actions"} /\ (n.at \in {"done", "acked"} => to = "done")
    BY <1>6
  <2>2. n.at \in {"done", "acked"} /\ n.op = "upload" => n.oid \in stored'
    BY <1>1, <1>6, <2>1
  <2> QED BY <1>4, <1>6, <1>7, <2>1, <2>2, NewReq
<1> QED BY <1>7, <1>8, MoveKeeps

\* The body is on the hub, or could not be spooled.
LEMMA SpooledInv ==
  ASSUME IInv, NEW r \in Reqs, Spooled(r)
  PROVE  IInv'
<1>1. req[r].at = "spool" /\ UNCHANGED <<now, hubs, cas, row, issued, stored>>
  BY DEF Spooled
<1>2. CASE req' = [req EXCEPT ![r].at = "forward"]
  BY <1>1, <1>2, AdvanceInv DEF IInv, TypeOK
<1>3. CASE req' = [req EXCEPT ![r] = Idle]
  BY <1>1, <1>3, IdleInv
<1> QED BY <1>2, <1>3 DEF Spooled

\* The CAS checks the token of the hub: an acknowledged object is stored.
LEMMA CasHandlesInv ==
  ASSUME IInv, NEW r \in Reqs, CasHandles(r)
  PROVE  IInv'
<1>1. req[r].at = "forward" /\ UNCHANGED <<now, hubs, cas, row, issued>>
  BY DEF CasHandles
<1>2. CASE /\ stored' = IF req[r].op = "upload" THEN stored \cup {req[r].oid} ELSE stored
           /\ req' = [req EXCEPT ![r].at = "done"]
  <2>1. req[r].oid \in Oids
    BY <1>1 DEF IInv, ReqSound, ReqType, Idle
  <2>2. stored \subseteq stored' /\ stored' \subseteq Oids
        /\ (req[r].op = "upload" => req[r].oid \in stored')
    BY <1>2, <2>1 DEF IInv, TypeOK
  <2> QED BY <1>1, <1>2, <2>2, AdvanceInv
<1>3. CASE req' = [req EXCEPT ![r] = Idle] /\ UNCHANGED stored
  BY <1>1, <1>3, IdleInv
<1> QED BY <1>2, <1>3 DEF CasHandles

\* The client learns of an upload that the CAS has answered.
LEMMA HubReplyInv ==
  ASSUME IInv, NEW r \in Reqs, HubReply(r)
  PROVE  IInv'
<1>1. req[r].at = "done" /\ UNCHANGED <<now, hubs, cas, row, issued, stored>>
  BY DEF HubReply
<1>2. PICK op \in Ops, oid \in Oids : op = req[r].op /\ oid = req[r].oid
  BY <1>1 DEF IInv, ReqSound, ReqType, Idle
<1>3. op = "upload" => oid \in stored
  BY <1>1, <1>2 DEF IInv, ReqSound
<1>4. PICK n : n = [at |-> "acked", op |-> op, oid |-> oid]
  OBVIOUS
<1>5. n \in ReqType /\ n.at = "acked" /\ n.op = op /\ n.oid = oid
  BY <1>4 DEF ReqType
<1>6. req' = [req EXCEPT ![r] = n]
  BY <1>2, <1>4 DEF HubReply
<1>7. ReqSound(r)'
  <2>1. n.at \notin Carrying /\ n.at # "checked" /\ n.at \notin {"batch", "actions"}
    BY <1>5 DEF Carrying
  <2>2. n.op = "upload" => n.oid \in stored'
    BY <1>1, <1>3, <1>5
  <2> QED BY <1>1, <1>5, <1>6, <2>1, <2>2, NewReq
<1> QED BY <1>1, <1>6, <1>7, MoveKeeps DEF IInv, TypeOK

\* A client that brings its token to the CAS itself.
LEMMA DirectAccessInv ==
  ASSUME IInv, NEW c \in issued, NEW op \in Ops, NEW oid \in Oids, DirectAccess(c, op, oid)
  PROVE  IInv'
<1>1. /\ stored \subseteq stored' /\ stored' \subseteq Oids
      /\ UNCHANGED <<now, hubs, cas, row, issued, req>>
  BY DEF DirectAccess, IInv, TypeOK
<1>2. SaltSound' /\ KeysSound' /\ RowsKeep /\ now' \in Nat /\ now <= now'
      /\ switched' = switched /\ switched' \in Nat
  BY <1>1, FrameKeeps
<1>3. \A d \in issued' : ClaimSound(d)'
  BY <1>1, <1>2, IssuedKeeps
<1>4. \A r \in Reqs : ReqSound(r)'
  BY <1>1, <1>2, ReqKeeps DEF IInv
<1>5. TypeOK'
  BY <1>1 DEF IInv, TypeOK, hubs, cas
<1> QED BY <1>1, <1>2, <1>3, <1>4, <1>5 DEF IInv

-----------------------------------------------------------------------------
(* The operator and the clock. *)

\* An instance moves to the new key: nobody can have switched before it did.
LEMMA RestartInv ==
  ASSUME IInv, NEW h \in Hubs, Restart(h)
  PROVE  IInv'
<1>1. /\ boot[h] = "up" /\ kid[h] = "old"
      /\ kid' = [kid EXCEPT ![h] = "new"] /\ boot' = [boot EXCEPT ![h] = "read"]
      /\ mySalt' = [mySalt EXCEPT ![h] = None]
      /\ switched' = (IF casKid = "new" /\ \A g \in Hubs \ {h} : kid[g] = "new" THEN now ELSE Never)
      /\ req' = [r \in Reqs |-> IF req[r].at \in InHub /\ req[r].hub = h THEN Idle ELSE req[r]]
      /\ UNCHANGED <<now, salt, cas, row, issued, stored>>
  BY DEF Restart, Step
<1>2. now \in 0..MaxTime /\ switched \in 0..Never /\ switched = Never
  BY <1>1 DEF IInv, TypeOK, KeysSound
<1>3. /\ now' \in Nat /\ now <= now' /\ switched' \in 0..Never /\ switched' \in Nat
      /\ now <= switched'
  BY <1>1, <1>2, Times
<1>4. RowsKeep
  BY <1>1 DEF RowsKeep
<1>5. \A c \in issued' : ClaimSound(c)'
  BY <1>1, <1>3, <1>4, IssuedKeeps
<1>6. ASSUME NEW r \in Reqs PROVE ReqSound(r)'
  <2>1. CASE req'[r] = req[r]
    BY <1>1, <1>3, <1>4, <2>1, ReqKeeps DEF IInv
  <2>2. CASE req'[r] = Idle
    <3>1. req'[r].at = "idle" /\ req'[r] \in ReqType
      BY <2>2 DEF Idle, ReqType
    <3> QED BY <3>1 DEF ReqSound, Carrying
  <2> QED BY <1>1, <2>1, <2>2
<1>7. SaltSound'
  BY <1>1 DEF IInv, TypeOK, SaltSound
<1>8. KeysSound'
  <2>1. "new" \in casKeys' /\ "old" \in casKeys'
    BY <1>1, <1>2 DEF IInv, KeysSound, cas, TypeOK
  <2>2. switched' # Never => switched' <= now' /\ casKid' = "new" /\ \A g \in Hubs : kid'[g] = "new"
    BY <1>1, <1>2, Times DEF IInv, TypeOK, cas
  <2> QED BY <2>1, <2>2 DEF KeysSound
<1>9. TypeOK'
  <2>1. \A r \in Reqs : req'[r].at \in InHub \cup {"idle", "answered", "acked"}
    BY <1>6 DEF ReqSound, ReqType, Idle, InHub, Carrying
  <2>2. mySalt' \in [Hubs -> Hubs \cup {None}] /\ kid' \in [Hubs -> Kids]
        /\ boot' \in [Hubs -> {"read", "insert", "reselect", "up"}]
    BY <1>1 DEF IInv, TypeOK, Kids
  <2> QED BY <1>1, <1>3, <2>1, <2>2 DEF IInv, TypeOK, cas
<1> QED BY <1>1, <1>5, <1>6, <1>7, <1>8, <1>9 DEF IInv

\* The CAS signs with the next key from now on.
LEMMA RestartCasInv ==
  ASSUME IInv, RestartCas
  PROVE  IInv'
<1>1. /\ casKid = "old" /\ casKid' = "new"
      /\ switched' = (IF \A h \in Hubs : kid[h] = "new" THEN now ELSE Never)
      /\ UNCHANGED <<now, salt, boot, mySalt, kid, casKeys, row, issued, req, stored>>
  BY DEF RestartCas
<1>2. now \in 0..MaxTime /\ switched \in 0..Never /\ switched = Never
  BY <1>1 DEF IInv, TypeOK, KeysSound
<1>3. /\ now' \in 0..MaxTime /\ now <= now' /\ switched' \in 0..Never /\ now <= switched'
  BY <1>1, <1>2, Times
<1>4. RowsKeep
  BY <1>1 DEF RowsKeep
<1>5. SaltSound'
  BY <1>1 DEF IInv, SaltSound
<1>6. KeysSound'
  <2>1. "new" \in casKeys' /\ "old" \in casKeys'
    BY <1>1, <1>2 DEF IInv, KeysSound
  <2>2. switched' # Never => switched' <= now' /\ casKid' = "new" /\ \A g \in Hubs : kid'[g] = "new"
    BY <1>1, <1>2, Times
  <2> QED BY <2>1, <2>2 DEF KeysSound
<1>7. /\ salt' \in Hubs \cup {None} /\ mySalt' \in [Hubs -> Hubs \cup {None}]
      /\ boot' \in [Hubs -> {"read", "insert", "reselect", "up"}]
      /\ kid' \in [Hubs -> Kids] /\ casKeys' \subseteq Kids /\ casKid' \in Kids
      /\ row' \in [HubTokens -> Rows \cup {None}]
  BY <1>1 DEF IInv, TypeOK, Kids
<1> QED BY <1>1, <1>3, <1>4, <1>5, <1>6, <1>7, EnvKeeps

\* Never is not a time that is waited for: the clock stays before it.
LEMMA RemoveOldKeyInv ==
  ASSUME IInv, RemoveOldKey
  PROVE  IInv'
<1>1. /\ \A ttl \in {UserTtl, ProxyTtl, CasProxyTtl} : now >= switched + ttl
      /\ casKeys' = casKeys \ {"old"}
      /\ UNCHANGED <<now, hubs, casKid, row, issued, req, stored>>
  BY DEF RemoveOldKey
<1>2. /\ now' \in 0..MaxTime /\ now <= now' /\ switched' \in 0..Never /\ switched' = switched
      /\ salt' \in Hubs \cup {None} /\ mySalt' \in [Hubs -> Hubs \cup {None}]
      /\ boot' \in [Hubs -> {"read", "insert", "reselect", "up"}]
      /\ kid' \in [Hubs -> Kids] /\ casKeys' \subseteq Kids /\ casKid' \in Kids
      /\ row' \in [HubTokens -> Rows \cup {None}]
  BY <1>1, Times DEF IInv, TypeOK, hubs
<1>3. RowsKeep /\ SaltSound'
  BY <1>1 DEF IInv, RowsKeep, SaltSound, hubs
<1>4. switched # Never
  BY <1>1, Times DEF IInv, TypeOK
<1>5. KeysSound'
  BY <1>1, <1>4 DEF IInv, KeysSound, hubs
<1> QED BY <1>1, <1>2, <1>3, <1>5, EnvKeeps

\* Time passes, and tokens that have expired are of no use to anyone.
LEMMA TickInv ==
  ASSUME IInv, Tick
  PROVE  IInv'
<1>1. /\ now < MaxTime /\ now' = now + 1 /\ issued' \subseteq issued
      /\ UNCHANGED <<hubs, cas, row, req, stored>>
  BY DEF Tick
<1>2. /\ now' \in 0..MaxTime /\ now <= now' /\ switched' \in 0..Never /\ switched' = switched
      /\ salt' \in Hubs \cup {None} /\ mySalt' \in [Hubs -> Hubs \cup {None}]
      /\ boot' \in [Hubs -> {"read", "insert", "reselect", "up"}]
      /\ kid' \in [Hubs -> Kids] /\ casKeys' \subseteq Kids /\ casKid' \in Kids
      /\ row' \in [HubTokens -> Rows \cup {None}]
  BY <1>1, Times DEF IInv, TypeOK, hubs, cas
<1>3. RowsKeep /\ SaltSound'
  BY <1>1 DEF IInv, RowsKeep, SaltSound, hubs
<1>4. KeysSound'
  <2>1. now \in Nat /\ switched \in Nat
    BY Times DEF IInv, TypeOK
  <2> QED BY <1>1, <2>1, Times DEF IInv, KeysSound, hubs, cas
<1> QED BY <1>1, <1>2, <1>3, <1>4, EnvKeeps

-----------------------------------------------------------------------------
(* The invariant, and what follows from it. *)

\* Every step keeps the invariant.
LEMMA NextInv == IInv /\ [Next]_vars => IInv'
<1> SUFFICES ASSUME IInv, [Next]_vars PROVE IInv'
  OBVIOUS
<1>1. CASE Tick \/ RestartCas \/ RemoveOldKey
  BY <1>1, TickInv, RestartCasInv, RemoveOldKeyInv
<1>2. CASE \E h \in Hubs : ReadSalt(h) \/ InsertSalt(h) \/ ReselectSalt(h) \/ Restart(h)
  BY <1>2, SaltSteps, RestartInv
<1>3. ASSUME NEW h \in Hubs, NEW t \in HubTokens,
             \/ \E scope \in Scopes : create_token(h, t, scope)
             \/ revoke_token(h, t)
             \/ \E at \in ExpiryTimes : set_token_expiration(h, t, at)
             \/ \E r \in Reqs, scope \in {"read", "write"} : AuthUser(r, h, t, scope)
      PROVE  IInv'
  BY <1>3, CreateInv, RevokeInv, ExpireInv, AuthUserInv
<1>4. ASSUME NEW h \in Hubs, NEW r \in Reqs, NEW c \in issued, NEW op \in Ops, NEW oid \in Oids,
             ObjectStart(r, h, c, op, oid)
      PROVE  IInv'
  BY <1>4, ObjectStartInv
<1>5. ASSUME NEW r \in Reqs, exchange(r)
             \/ (\E oid \in Oids : resolve(r, oid) \/ \E op \in Ops : BatchStart(r, op, oid))
             \/ batch_operation(r) \/ rewrite_batch_urls(r) \/ Spooled(r)
             \/ CasHandles(r) \/ HubReply(r) \/ GiveUp(r) \/ Finish(r)
      PROVE  IInv'
  <2>1. CASE GiveUp(r) \/ Finish(r)
    <3>1. req' = [req EXCEPT ![r] = Idle] /\ UNCHANGED <<now, hubs, cas, row, issued, stored>>
      BY <2>1 DEF GiveUp, Finish
    <3> QED BY <3>1, IdleInv
  <2>2. CASE \E oid \in Oids : resolve(r, oid) \/ \E op \in Ops : BatchStart(r, op, oid)
    BY <2>2, ResolveInv, BatchStartInv
  <2> QED BY <1>5, <2>1, <2>2, ExchangeInv, BatchOperationInv, RewriteInv, SpooledInv, CasHandlesInv, HubReplyInv
<1>6. ASSUME NEW c \in issued, NEW op \in Ops, NEW oid \in Oids,
             DirectAccess(c, op, oid) \/ DirectBatch(c, op, oid)
      PROVE  IInv'
  BY <1>6, DirectAccessInv, DirectBatchInv
<1>7. CASE UNCHANGED vars
  <2>1. UNCHANGED <<now, hubs, cas, row, issued, req, stored>>
    BY <1>7 DEF vars
  <2>2. SaltSound' /\ KeysSound' /\ RowsKeep /\ now' \in Nat /\ now <= now'
        /\ switched' = switched /\ switched' \in Nat
    BY <2>1, FrameKeeps
  <2>3. \A c \in issued' : ClaimSound(c)'
    BY <2>1, <2>2, IssuedKeeps
  <2>4. \A r \in Reqs : ReqSound(r)'
    BY <2>1, <2>2, ReqKeeps DEF IInv
  <2>5. TypeOK'
    BY <2>1 DEF IInv, TypeOK, hubs, cas
  <2> QED BY <2>1, <2>2, <2>3, <2>4, <2>5 DEF IInv
<1> QED BY <1>1, <1>2, <1>3, <1>4, <1>5, <1>6, <1>7 DEF Next

\* The invariant holds throughout.
THEOREM Invariance == Spec => []IInv
BY InitInv, NextInv, PTL DEF Spec

\* Every token that may still be presented is sound.
LEMMA LiveSound ==
  ASSUME IInv, NEW c \in Live PROVE ClaimSound(c)
BY DEF IInv, Live, ReqSound

\* Whatever order the instances start in, every one that is up knows the row of
\* every token: get_or_generate_hash_salt never lets two salts be used.
THEOREM TokensArePortable == Spec => []TokensPortable
<1>1. IInv => TokensPortable
  BY DEF IInv, SaltSound, TokensPortable, Found
<1> QED BY <1>1, Invariance, PTL

\* What the CAS accepts is covered by the Hub token at the start of the chain,
\* which a request found valid before it was revoked, and ends within the stated
\* time of that request's signature, for all lifetimes, any timeout of the Hub's
\* client and any time that passes between the look-up and the signature.
THEOREM AccessIsSound == Spec => []AccessSound
<1>1. IInv => AccessSound
  <2> SUFFICES ASSUME IInv PROVE AccessSound
    OBVIOUS
  <2>1. ASSUME NEW c \in Live, NEW op \in Ops, NEW oid \in Oids, CasAccepts(c, op, oid)
        PROVE  /\ op = "upload" => "write" \in row[c.root].scope
               /\ c.kind = "proxy" => c.oid = oid /\ c.op = op
    <3>1. ClaimSound(c) /\ c.kind \in {"user", "proxy"}
      BY LiveSound DEF ClaimSound, Claims
    <3>2. c.kind = "user" => c.scope = Required(op)
      BY <2>1 DEF CasAccepts, authorize_lfs_object, check_scope
    <3>3. c.kind = "proxy" => c.oid = oid /\ c.op = op
      BY <2>1 DEF CasAccepts, authorize_lfs_object
    <3>4. scope_allows(row[c.root].scope, Required(op))
      BY <3>1, <3>2, <3>3 DEF ClaimSound
    <3> QED BY <3>3, <3>4 DEF scope_allows, Required
  <2>2. ASSUME NEW c \in Live, NEW op \in Ops, NEW oid \in Oids, CasAccepts(c, op, oid)
        PROVE  /\ c.asked <= row[c.root].revoked
               /\ \/ now < c.signed + UserTtl + (IF CasSigns THEN CasProxyTtl - 1 ELSE 0)
                  \/ now < c.signed + Timeout + ProxyTtl
    <3>1. ClaimSound(c) /\ c.kind \in {"user", "proxy"} /\ c.asked <= row[c.root].revoked
          /\ c.exp \in Nat /\ c.iat \in Nat /\ c.signed \in Nat
      BY LiveSound DEF ClaimSound, Claims
    <3>2. now \in Nat
      BY Times DEF IInv, TypeOK
    <3>3. now < c.exp
      BY <2>2, <3>1, <3>2 DEF CasAccepts, verify_token_any_kind
    <3>4. CASE c.kind = "user"
      <4>1. c.exp = c.signed + UserTtl
        BY <3>1, <3>4 DEF ClaimSound
      <4>2. now < c.signed + UserTtl
        BY <3>3, <4>1
      <4> QED BY <3>1, <3>2, <4>2, Times
    <3>5. CASE c.kind = "proxy"
      <4>1. \/ c.exp = c.iat + ProxyTtl /\ c.iat <= c.signed + Timeout
            \/ CasSigns /\ c.exp = c.iat + CasProxyTtl /\ c.iat < c.signed + UserTtl
        BY <3>1, <3>5 DEF ClaimSound
      <4>2. \/ now < c.signed + Timeout + ProxyTtl
            \/ CasSigns /\ now < c.signed + UserTtl + (CasProxyTtl - 1)
        BY <3>1, <3>2, <3>3, <4>1, Times
      <4> QED BY <3>1, <4>2
    <3> QED BY <3>1, <3>4, <3>5
  <2> QED BY <2>1, <2>2 DEF AccessSound, AccessInScope, RevocationTakesEffect, IInv
<1> QED BY <1>1, Invariance, PTL

\* A token in the hands of a client works until it expires, also while the keys
\* are rotated: the old key goes only after the last token it signed.
THEOREM HandedOutTokensWork == Spec => []HandedOutWorks
<1>1. IInv => HandedOutWorks
  <2> SUFFICES ASSUME IInv, NEW c \in issued, c.exp > now
               PROVE  /\ c.kind = "proxy" =>
                           /\ CasAccepts(c, c.op, c.oid)
                           /\ \A h \in Hubs : kid[h] = c.kid => validate_proxy_token(h, c, c.oid, c.op)
                      /\ c.kind = "user" => \E op \in Ops : \A oid \in Oids : CasAccepts(c, op, oid)
    BY DEF HandedOutWorks
  <2>1. ClaimSound(c) /\ c \in Claims /\ c.iat \in Nat /\ c.exp \in Nat /\ c.kid \in Kids
        /\ c.kind \in {"user", "proxy"} /\ c.exp - c.iat \in 1..MaxLifetime
    BY DEF IInv, TypeOK, ClaimSound, Claims
  <2>2. now \in Nat /\ switched \in Nat
    BY Times DEF IInv, TypeOK
  <2>3. c.kid \in casKeys
    <3>1. ASSUME c.kid = "old", "old" \notin casKeys PROVE FALSE
      <4>1. c.iat <= switched /\ \A ttl \in {UserTtl, ProxyTtl, CasProxyTtl} : now >= switched + ttl
        BY <2>1, <3>1 DEF IInv, KeysSound, ClaimSound
      <4>2. PICK ttl \in {UserTtl, ProxyTtl, CasProxyTtl} : c.exp = c.iat + ttl
        BY <2>1 DEF ClaimSound
      <4>3. ttl \in Nat /\ now >= switched + ttl
        BY <4>1, Times
      <4> QED BY <2>1, <2>2, <4>1, <4>2, <4>3
    <3> QED BY <2>1, <3>1 DEF Kids, IInv, KeysSound
  <2>4. c.exp > c.iat /\ c.exp - c.iat <= MaxLifetime /\ c.iat <= now
    BY <2>1, <2>2, Times DEF ClaimSound
  <2>5. CASE c.kind = "proxy"
    <3>1. c.oid \in Oids /\ c.op \in Ops /\ c.scope = ProxyScope(c.op) /\ c.oid # None
      BY <2>1, <2>5, TokenAssumption DEF ClaimSound
    <3>2. validate_claims_for_kind(c)
      BY <2>4, <3>1 DEF validate_claims_for_kind
    <3>3. CasAccepts(c, c.op, c.oid)
      BY <2>3, <2>4, <2>5, <3>1, <3>2 DEF CasAccepts, verify_token_any_kind, authorize_lfs_object
    <3>4. \A h \in Hubs : kid[h] = c.kid => validate_proxy_token(h, c, c.oid, c.op)
      BY <2>4, <2>5, <3>1, <3>2 DEF validate_proxy_token, verify_token_any_kind
    <3> QED BY <2>5, <3>3, <3>4
  <2>6. CASE c.kind = "user"
    <3>1. validate_claims_for_kind(c)
      BY <2>4, <2>6 DEF validate_claims_for_kind
    <3>2. PICK op \in Ops : c.scope = Required(op)
      BY <2>1, <2>6 DEF ClaimSound, Required, Ops
    <3>3. \A oid \in Oids : CasAccepts(c, op, oid)
      BY <2>3, <2>4, <2>6, <3>1, <3>2
      DEF CasAccepts, verify_token_any_kind, authorize_lfs_object, check_scope
    <3> QED BY <2>6, <3>3
  <2> QED BY <2>1, <2>5, <2>6
<1> QED BY <1>1, Invariance, PTL

\* The Hub confirms an upload only after the CAS has stored it.
THEOREM AckedUploadsAreStored == Spec => []AckedUploadStored
<1>1. IInv => AckedUploadStored
  BY DEF IInv, ReqSound, AckedUploadStored
<1> QED BY <1>1, Invariance, PTL
=============================================================================
