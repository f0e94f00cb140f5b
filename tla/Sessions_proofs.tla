-------------------------- MODULE Sessions_proofs --------------------------
(***************************************************************************)
(* What holds of the tables of refresh tokens for any number of tabs,      *)
(* users and tokens: the rotation leaves a chain, and a token presented    *)
(* twice logs out the user it belongs to.  Then what the limiter in front  *)
(* of them keeps, for any number of threads that wait for its lock.        *)
(***************************************************************************)
EXTENDS Sessions, RateLimiter, FiniteSetTheorems, TLAPS

Token ==
  [owner : Owners, parent : Nat, expires_at : Nat, revoked : BOOLEAN, replaced_by : Nat]

Request ==
  {Idle} \union [step : {"issue"}, owner : Owners]
         \union [step : {"rotate"}, token : Nat]
         \union [step : {"revoke"}, token : Nat, seen : SUBSET Nat, known : Nat]

Rows ==
  /\ now \in Nat
  /\ token \in Seq(Token)
  /\ cookie \in [Browsers -> 0 .. Len(token)]
  /\ request \in [Tabs -> Request]

\* A token was made from one that was already there.
ParentsExist == \A i \in Ids : token[i].parent \in 0 .. Len(token)

\* A request refers to a row that was in the table when it was read.
Refers(t) == request[t].step \in {"rotate", "revoke"} => request[t].token \in Ids

\* A request that is about to revoke has selected every token of the user
\* that was live when it read, and no other user's.
Covers(t) ==
  request[t].step = "revoke" =>
    /\ request[t].known \in 0 .. Len(token)
    /\ request[t].seen \subseteq 1 .. request[t].known
    /\ \A j \in 1 .. request[t].known :
         IF j \in request[t].seen
         THEN UserOfToken(j) = UserOfToken(request[t].token)
         ELSE UserOfToken(j) = UserOfToken(request[t].token) => token[j].revoked

Requests == \A t \in Tabs : Refers(t) /\ Covers(t)

Inv == Rows /\ ParentsExist /\ Lineage /\ Requests

(***************************************************************************)
(* How a step may change the table: rows keep their owner and parent, none *)
(* is deleted and no revocation is undone.                                 *)
(***************************************************************************)
Kept ==
  /\ token' \in Seq(Token)
  /\ Len(token) <= Len(token')
  /\ \A i \in Ids : /\ token'[i].owner = token[i].owner
                    /\ token'[i].parent = token[i].parent
                    /\ token[i].revoked => token'[i].revoked

LEMMA InitHolds == Init => Inv
<1>. SUFFICES ASSUME Init PROVE Inv
  OBVIOUS
<1>1. Rows
  BY DEF Init, Rows, Request
<1>2. \A t \in Tabs : request[t].step = "idle"
  BY DEF Init, Idle
<1>3. Ids = {}
  BY DEF Init, Ids
<1>. QED
  BY <1>1, <1>2, <1>3 DEF Inv, ParentsExist, Lineage, Requests, Refers, Covers

\* The row that is inserted is a row, and the others stay as they are.
LEMMA Inserts ==
  ASSUME Rows, NEW owner \in Owners, NEW parent \in 0 .. Len(token), Insert(owner, parent)
  PROVE  /\ Kept
         /\ Len(token') = Len(token) + 1
         /\ \A i \in Ids : token'[i] = token[i]
         /\ token'[Len(token) + 1].parent = parent
         /\ token'[Len(token) + 1].owner = owner
<1>1. NewToken(owner, parent) \in Token
  BY SessionsAssumption DEF NewToken, Token, Rows
<1>2. token \in Seq(Token) /\ token' = Append(token, NewToken(owner, parent))
  BY DEF Insert, Rows
<1>3. /\ token' \in Seq(Token) /\ Len(token') = Len(token) + 1
      /\ \A i \in Ids : token'[i] = token[i]
      /\ token'[Len(token) + 1] = NewToken(owner, parent)
  BY <1>1, <1>2 DEF Ids
<1>4. Len(token) <= Len(token')
  BY <1>2, <1>3
<1>5. /\ token'[Len(token) + 1].parent = parent
      /\ token'[Len(token) + 1].owner = owner
  BY <1>3 DEF NewToken
<1>. QED
  BY <1>3, <1>4, <1>5 DEF Kept

\* What a rotation writes.
LEMMA Rotates ==
  ASSUME Rows, NEW old \in Ids, mark_rotated(old, Len(token) + 1)
  PROVE  /\ Kept
         /\ Len(token') = Len(token) + 1
         /\ \A i \in Ids \ {old} : token'[i] = token[i]
         /\ token'[old].revoked
         /\ token'[old].replaced_by = Len(token) + 1
         /\ token'[Len(token) + 1].parent = old
         /\ token'[Len(token) + 1].owner = token[old].owner
<1>. DEFINE new == Len(token) + 1
            row == [token[old] EXCEPT !.revoked = TRUE, !.replaced_by = new]
            rows == [token EXCEPT ![old] = row]
<1>0. old \in 1 .. Len(token) /\ token[old] \in Token /\ new \in Nat
  BY DEF Rows, Ids
<1>1. NewToken(token[old].owner, old) \in Token
  BY <1>0, SessionsAssumption DEF NewToken, Token, Rows
<1>2. /\ row \in Token /\ row.revoked /\ row.replaced_by = new
      /\ row.owner = token[old].owner /\ row.parent = token[old].parent
  BY <1>0 DEF Token
<1>. HIDE DEF row
<1>3. /\ rows \in Seq(Token) /\ Len(rows) = Len(token) /\ rows[old] = row
      /\ \A i \in Ids \ {old} : rows[i] = token[i]
  BY <1>0, <1>2 DEF Rows, Ids
<1>4. token' = Append(rows, NewToken(token[old].owner, old))
  BY DEF mark_rotated, row
<1>. HIDE DEF rows
<1>5. /\ token' \in Seq(Token) /\ Len(token') = new
      /\ \A i \in Ids : token'[i] = rows[i]
      /\ token'[new] = NewToken(token[old].owner, old)
  BY <1>1, <1>3, <1>4 DEF Ids, Rows
<1>6. /\ token'[old] = row /\ \A i \in Ids \ {old} : token'[i] = token[i]
      /\ Len(token) \in Nat /\ new = Len(token) + 1
  BY <1>0, <1>3, <1>5 DEF Ids, Rows
<1>7. \A i \in Ids : /\ token'[i].owner = token[i].owner
                     /\ token'[i].parent = token[i].parent
                     /\ token[i].revoked => token'[i].revoked
  BY <1>2, <1>6
<1>8. Kept
  BY <1>5, <1>6, <1>7 DEF Kept
<1>. QED
  BY <1>2, <1>5, <1>6, <1>8 DEF NewToken

\* What a logout or a detected reuse writes: some rows are revoked.
Revokes(rows) ==
  token' = [j \in Ids |->
              IF j \in rows THEN [token[j] EXCEPT !.revoked = TRUE] ELSE token[j]]

LEMMA RevokesRows ==
  ASSUME Rows, NEW rows, Revokes(rows)
  PROVE  /\ Kept
         /\ Len(token') = Len(token)
         /\ \A i \in Ids : /\ token'[i].replaced_by = token[i].replaced_by
                           /\ i \in rows => token'[i].revoked
                           /\ i \notin rows => token'[i] = token[i]
<1>1. ASSUME NEW i \in Ids
      PROVE  /\ token[i] \in Token /\ token'[i] \in Token
             /\ token'[i].owner = token[i].owner
             /\ token'[i].parent = token[i].parent
             /\ token'[i].replaced_by = token[i].replaced_by
             /\ token[i].revoked => token'[i].revoked
             /\ i \in rows => token'[i].revoked
             /\ i \notin rows => token'[i] = token[i]
  <2>1. token[i] \in Token
    BY <1>1 DEF Rows, Ids
  <2>2. /\ [token[i] EXCEPT !.revoked = TRUE] \in Token
        /\ [token[i] EXCEPT !.revoked = TRUE].owner = token[i].owner
        /\ [token[i] EXCEPT !.revoked = TRUE].parent = token[i].parent
        /\ [token[i] EXCEPT !.revoked = TRUE].replaced_by = token[i].replaced_by
        /\ [token[i] EXCEPT !.revoked = TRUE].revoked = TRUE
    BY <2>1 DEF Token
  <2>3. CASE i \in rows
    <3>1. token'[i] = [token[i] EXCEPT !.revoked = TRUE]
      BY <1>1, <2>3 DEF Revokes
    <3>. QED
      BY <2>1, <2>2, <2>3, <3>1
  <2>4. CASE i \notin rows
    <3>1. token'[i] = token[i]
      BY <1>1, <2>4 DEF Revokes
    <3>. QED
      BY <2>1, <2>4, <3>1
  <2>. QED
    BY <2>3, <2>4
<1>2. Ids = 1 .. Len(token) /\ Len(token) \in Nat
  BY DEF Rows, Ids
<1>3. token' \in [1 .. Len(token) -> Token]
  BY <1>1, <1>2 DEF Revokes
<1>4. token' \in Seq(Token) /\ Len(token') = Len(token)
  BY <1>2, <1>3
<1>5. /\ Len(token) <= Len(token')
      /\ \A i \in Ids : token[i].revoked => token'[i].revoked
  BY <1>1, <1>2, <1>4
<1>6. Kept
  BY <1>1, <1>4, <1>5 DEF Kept
<1>. QED
  BY <1>1, <1>4, <1>6

(***************************************************************************)
(* The chain, after each kind of write.                                    *)
(***************************************************************************)
LEMMA ChainInserted ==
  ASSUME Inv, NEW owner \in Owners, Insert(owner, 0)
  PROVE  ParentsExist' /\ Lineage'
<1>1. /\ Kept /\ Len(token') = Len(token) + 1 /\ \A i \in Ids : token'[i] = token[i]
      /\ token'[Len(token) + 1].parent = 0
  BY Inserts DEF Inv, Rows
<1>2. /\ Len(token) \in Nat /\ Ids = 1 .. Len(token) /\ Ids' = 1 .. Len(token) + 1
  BY <1>1 DEF Inv, Rows, Ids, Kept
<1>3. ParentsExist'
  BY <1>1, <1>2 DEF Inv, ParentsExist
<1>4. \A i \in Ids : Children(i)' = Children(i)
  BY <1>1, <1>2 DEF Children
<1>5. \A j \in Ids' : token'[j].parent # Len(token) + 1
  BY <1>1, <1>2 DEF Inv, ParentsExist
<1>6. \A k \in Ids' : k = Len(token) + 1 => Children(k)' = {}
  BY <1>5 DEF Children
<1>7. ASSUME NEW i \in Ids', Children(i)' # {}
      PROVE  /\ token'[i].revoked
             /\ token'[i].replaced_by \in Children(i)'
             /\ \A j \in Children(i)' :
                  j <= token'[i].replaced_by /\ token'[j].owner = token'[i].owner
  <2>1. i \in Ids
    BY <1>2, <1>6, <1>7
  <2>2. /\ token[i].revoked /\ token[i].replaced_by \in Children(i)
        /\ \A j \in Children(i) :
             j \in Ids /\ j <= token[i].replaced_by /\ token[j].owner = token[i].owner
    BY <1>4, <1>7, <2>1 DEF Inv, Lineage, Children
  <2>. QED
    BY <1>1, <1>4, <2>1, <2>2
<1>. QED
  BY <1>3, <1>7 DEF Lineage

LEMMA ChainRotated ==
  ASSUME Inv, NEW old \in Ids, mark_rotated(old, Len(token) + 1)
  PROVE  ParentsExist' /\ Lineage'
<1>. DEFINE new == Len(token) + 1
<1>1. /\ Kept /\ Len(token') = new
      /\ \A i \in Ids \ {old} : token'[i] = token[i]
      /\ token'[old].revoked /\ token'[old].replaced_by = new
      /\ token'[new].parent = old /\ token'[new].owner = token[old].owner
  BY Rotates DEF Inv
<1>2. /\ Len(token) \in Nat /\ Ids = 1 .. Len(token) /\ Ids' = 1 .. new
      /\ old \in 1 .. Len(token)
  BY <1>1 DEF Inv, Rows, Ids, Kept
<1>3. \A i \in Ids : token'[i].parent = token[i].parent /\ token'[i].owner = token[i].owner
  BY <1>1 DEF Kept
<1>4. ParentsExist'
  BY <1>1, <1>2, <1>3 DEF Inv, ParentsExist
<1>5. \A i \in Ids \ {old} : Children(i)' = Children(i)
  BY <1>1, <1>2, <1>3 DEF Children
<1>6. Children(old)' = Children(old) \union {new}
  BY <1>1, <1>2, <1>3 DEF Children
<1>7. \A k \in Ids' : k = new => Children(k)' = {}
  <2>1. \A j \in Ids' : token'[j].parent # new
    BY <1>1, <1>2, <1>3 DEF Inv, ParentsExist
  <2>. QED
    BY <2>1 DEF Children
<1>8. ASSUME NEW i \in Ids', Children(i)' # {}
      PROVE  /\ token'[i].revoked
             /\ token'[i].replaced_by \in Children(i)'
             /\ \A j \in Children(i)' :
                  j <= token'[i].replaced_by /\ token'[j].owner = token'[i].owner
  <2>1. CASE i = old
    <3>1. \A j \in Children(old) : j \in Ids /\ token[j].owner = token[old].owner
      BY DEF Inv, Lineage, Children
    <3>. QED
      BY <1>1, <1>2, <1>3, <1>6, <2>1, <3>1
  <2>2. CASE i \in Ids \ {old}
    <3>1. /\ token[i].revoked /\ token[i].replaced_by \in Children(i)
          /\ \A j \in Children(i) :
               /\ j \in Ids /\ j <= token[i].replaced_by
               /\ token[j].owner = token[i].owner
      BY <1>5, <1>8, <2>2 DEF Inv, Lineage, Children
    <3>. QED
      BY <1>1, <1>3, <1>5, <2>2, <3>1
  <2>3. i # new
    BY <1>7, <1>8
  <2>4. i \in Ids
    BY <1>2, <1>8, <2>3
  <2>. QED
    BY <2>1, <2>2, <2>4
<1>. QED
  BY <1>4, <1>8 DEF Lineage

LEMMA ChainRevoked ==
  ASSUME Inv, NEW rows, Revokes(rows)
  PROVE  ParentsExist' /\ Lineage'
<1>1. /\ Kept /\ Len(token') = Len(token)
      /\ \A i \in Ids : token'[i].replaced_by = token[i].replaced_by
  BY RevokesRows DEF Inv
<1>2. /\ Len(token) \in Nat /\ Ids = 1 .. Len(token) /\ Ids' = Ids
  BY <1>1 DEF Inv, Rows, Ids, Kept
<1>3. \A i \in Ids : /\ token'[i].parent = token[i].parent
                     /\ token'[i].owner = token[i].owner
                     /\ token[i].revoked => token'[i].revoked
  BY <1>1 DEF Kept
<1>4. ParentsExist'
  BY <1>1, <1>2, <1>3 DEF Inv, ParentsExist
<1>5. \A i \in Ids : Children(i)' = Children(i)
  BY <1>2, <1>3 DEF Children
<1>6. \A i \in Ids : \A j \in Children(i) : j \in Ids
  BY DEF Children
<1>. QED
  BY <1>1, <1>2, <1>3, <1>4, <1>5, <1>6 DEF Inv, Lineage
(***************************************************************************)
(* The requests: the one that a step is about, and the others.             *)
(***************************************************************************)
LEMMA StaysPut ==
  ASSUME Inv, Kept, NEW t \in Tabs, request'[t] = request[t]
  PROVE  Refers(t)' /\ Covers(t)'
<1>1. /\ Len(token) \in Nat /\ Ids = 1 .. Len(token)
      /\ Len(token') \in Nat /\ Ids' = 1 .. Len(token') /\ Len(token) <= Len(token')
  BY DEF Inv, Rows, Kept, Ids
<1>2. Refers(t) /\ Covers(t)
  BY DEF Inv, Requests
<1>3. \A i \in Ids : i \in Ids' /\ UserOfToken(i)' = UserOfToken(i)
                     /\ (token[i].revoked => token'[i].revoked)
  BY <1>1 DEF Kept, UserOfToken
<1>4. Refers(t)'
  BY <1>2, <1>3 DEF Refers
<1>5. ASSUME request[t].step = "revoke"
      PROVE  Covers(t)'
  <2>1. /\ request[t].token \in Ids /\ request[t].known \in 0 .. Len(token)
        /\ request[t].seen \subseteq 1 .. request[t].known
    BY <1>2, <1>5 DEF Refers, Covers
  <2>2. UserOfToken(request[t].token)' = UserOfToken(request[t].token)
    BY <2>1 DEF Kept, UserOfToken
  <2>3. \A j \in 1 .. request[t].known : j \in Ids
    BY <1>1, <2>1
  <2>. QED
    BY <1>1, <1>2, <1>3, <1>5, <2>1, <2>2, <2>3 DEF Covers
<1>. QED
  BY <1>4, <1>5 DEF Covers

LEMMA Waiting ==
  ASSUME Inv, Kept, NEW t \in Tabs, NEW r \in Request, Waits(t, r),
         Refers(t)', Covers(t)'
  PROVE  request' \in [Tabs -> Request] /\ Requests'
<1>1. request' \in [Tabs -> Request]
  BY DEF Inv, Rows, Waits
<1>2. \A u \in Tabs \ {t} : request'[u] = request[u]
  BY DEF Inv, Rows, Waits
<1>. QED
  BY <1>1, <1>2, StaysPut DEF Requests

\* A request that is answered, or that is about to issue, refers to no row.
LEMMA WaitingForNone ==
  ASSUME Inv, Kept, NEW t \in Tabs, NEW r \in Request, Waits(t, r),
         r.step \notin {"rotate", "revoke"}
  PROVE  request' \in [Tabs -> Request] /\ Requests'
<1>1. request'[t] = r
  BY DEF Inv, Rows, Waits
<1>. QED
  BY <1>1, Waiting DEF Refers, Covers

LEMMA Quiet ==
  ASSUME Inv, UNCHANGED token
  PROVE  /\ Kept /\ ParentsExist' /\ Lineage' /\ Len(token') = Len(token)
<1>1. Kept
  BY DEF Inv, Rows, Kept
<1>. QED
  BY <1>1 DEF Inv, ParentsExist, Lineage, Children, Ids

LEMMA CookieIsSet ==
  ASSUME Rows, NEW t \in Tabs, Cookie(t, Len(token) + 1), Len(token') = Len(token) + 1
  PROVE  cookie' \in [Browsers -> 0 .. Len(token')]
<1>1. Len(token) \in Nat /\ Len(token) + 1 \in 0 .. Len(token')
  BY DEF Rows
<1>2. \A b \in Browsers : cookie[b] \in 0 .. Len(token')
  BY <1>1 DEF Rows
<1>3. DOMAIN cookie = Browsers /\ cookie = [b \in Browsers |-> cookie[b]]
  BY DEF Rows
<1>4. CASE UNCHANGED cookie
  BY <1>2, <1>3, <1>4
<1>5. CASE cookie' = [cookie EXCEPT ![BrowserOf[t]] = Len(token) + 1]
  <2>1. cookie' = [b \in Browsers |-> IF b = BrowserOf[t] THEN Len(token) + 1 ELSE cookie[b]]
    BY <1>3, <1>5
  <2>. QED BY <1>1, <1>2, <2>1
<1>. QED
  BY <1>4, <1>5 DEF Cookie

LEMMA IdleRequest == Idle \in Request /\ Idle.step = "idle"
BY DEF Idle, Request

(***************************************************************************)
(* One lemma per kind of action.                                           *)
(***************************************************************************)
LEMMA StartsKeep ==
  ASSUME Inv, NEW t \in Tabs, NEW m \in Members,
         Authenticate(t, m) \/ accept_invite(t, m) \/ reset_password(t, m)
  PROVE  Inv'
<1>1. /\ UNCHANGED <<now, token, cookie>>
      /\ Waits(t, [step |-> "issue", owner |-> m])
  BY DEF Authenticate, accept_invite, reset_password
<1>2. [step |-> "issue", owner |-> m] \in Request
  BY DEF Request, Owners
<1>3. Kept /\ ParentsExist' /\ Lineage' /\ Len(token') = Len(token)
  BY <1>1, Quiet
<1>4. request' \in [Tabs -> Request] /\ Requests'
  BY <1>1, <1>2, <1>3, WaitingForNone
<1>. QED
  BY <1>1, <1>3, <1>4 DEF Inv, Rows

LEMMA IssueKeeps ==
  ASSUME Inv, NEW t \in Tabs, issue_session_tokens(t)
  PROVE  Inv'
<1>1. request[t].owner \in Owners
  BY DEF Inv, Rows, Request, Idle, issue_session_tokens
<1>2. /\ UNCHANGED now /\ Insert(request[t].owner, 0) /\ Cookie(t, Len(token) + 1)
      /\ Waits(t, Idle)
  BY DEF issue_session_tokens, Answered
<1>3. Kept /\ Len(token') = Len(token) + 1
  BY <1>1, <1>2, Inserts DEF Inv, Rows
<1>4. ParentsExist' /\ Lineage'
  BY <1>1, <1>2, ChainInserted
<1>5. request' \in [Tabs -> Request] /\ Requests'
  BY <1>2, <1>3, WaitingForNone, IdleRequest
<1>6. cookie' \in [Browsers -> 0 .. Len(token')]
  BY <1>2, <1>3, CookieIsSet DEF Inv
<1>. QED
  BY <1>2, <1>3, <1>4, <1>5, <1>6 DEF Inv, Rows, Kept

LEMMA CustomerKeeps ==
  ASSUME Inv, NEW t \in Tabs, NEW c \in Customers, register(t, c) \/ login(t, c)
  PROVE  Inv'
<1>1. /\ UNCHANGED <<now, request>> /\ Insert(c, 0) /\ Cookie(t, Len(token) + 1)
      /\ c \in Owners
  BY DEF register, login, CustomerSession, Owners
<1>2. Kept /\ Len(token') = Len(token) + 1
  BY <1>1, Inserts DEF Inv, Rows
<1>3. ParentsExist' /\ Lineage'
  BY <1>1, ChainInserted
<1>4. Requests'
  BY <1>1, <1>2, StaysPut DEF Requests
<1>5. cookie' \in [Browsers -> 0 .. Len(token')]
  BY <1>1, <1>2, CookieIsSet DEF Inv
<1>. QED
  BY <1>1, <1>2, <1>3, <1>4, <1>5 DEF Inv, Rows, Kept

LEMMA ReadKeeps ==
  ASSUME Inv, NEW t \in Tabs, ReadToken(t, cookie[BrowserOf[t]])
  PROVE  Inv'
<1>. DEFINE i == cookie[BrowserOf[t]]
            rotation == [step |-> "rotate", token |-> i]
            revocation == [step |-> "revoke", token |-> i,
                           seen |-> SelectedByReuse(i), known |-> Len(token)]
<1>1. UNCHANGED <<now, token, cookie>>
  BY DEF ReadToken
<1>2. Kept /\ ParentsExist' /\ Lineage' /\ Len(token') = Len(token)
  BY <1>1, Quiet
<1>3. i \in Ids /\ i \in Nat /\ Len(token) \in Nat /\ Ids = 1 .. Len(token)
  BY SessionsAssumption DEF ReadToken, Inv, Rows, Ids
<1>. HIDE DEF i
<1>4. CASE UNCHANGED request
  <2>1. Requests'
    BY <1>2, <1>4, StaysPut DEF Requests
  <2>. QED
    BY <1>1, <1>2, <1>4, <2>1 DEF Inv, Rows
<1>5. CASE Waits(t, rotation)
  <2>1. rotation \in Request
    BY <1>3 DEF Request
  <2>2. request'[t] = rotation
    BY <1>5 DEF Inv, Rows, Waits
  <2>3. Refers(t)' /\ Covers(t)'
    BY <1>1, <1>3, <2>2 DEF Refers, Covers, Ids
  <2>4. request' \in [Tabs -> Request] /\ Requests'
    BY <1>2, <1>5, <2>1, <2>3, Waiting
  <2>. QED
    BY <1>1, <1>2, <2>4 DEF Inv, Rows
<1>6. CASE Waits(t, revocation)
  <2>1. SelectedByReuse(i) = {j \in Ids : UserOfToken(j) = UserOfToken(i) /\ ~token[j].revoked}
    BY DEF SelectedByReuse, LiveOf
  <2>2. revocation \in Request
    BY <1>3, <2>1 DEF Request
  <2>3. request'[t] = revocation
    BY <1>6 DEF Inv, Rows, Waits
  <2>4. Refers(t)'
    BY <1>1, <1>3, <2>3 DEF Refers, Ids
  <2>5. Covers(t)'
    BY <1>1, <1>3, <2>1, <2>3 DEF Covers, UserOfToken
  <2>6. request' \in [Tabs -> Request] /\ Requests'
    BY <1>2, <1>6, <2>2, <2>4, <2>5, Waiting
  <2>. QED
    BY <1>1, <1>2, <2>6 DEF Inv, Rows
<1>. QED
  BY <1>4, <1>5, <1>6 DEF ReadToken, i

LEMMA RotateKeeps ==
  ASSUME Inv, NEW t \in Tabs, NEW owners, Rotate(t, owners)
  PROVE  Inv'
<1>1. request[t].token \in Ids
  BY DEF Inv, Requests, Refers, Rotate
<1>2. /\ UNCHANGED now /\ mark_rotated(request[t].token, Len(token) + 1)
      /\ Cookie(t, Len(token) + 1) /\ Waits(t, Idle)
  BY DEF Rotate, Answered
<1>3. Kept /\ Len(token') = Len(token) + 1
  BY <1>1, <1>2, Rotates DEF Inv
<1>4. ParentsExist' /\ Lineage'
  BY <1>1, <1>2, ChainRotated
<1>5. request' \in [Tabs -> Request] /\ Requests'
  BY <1>2, <1>3, WaitingForNone, IdleRequest
<1>6. cookie' \in [Browsers -> 0 .. Len(token')]
  BY <1>2, <1>3, CookieIsSet DEF Inv
<1>. QED
  BY <1>2, <1>3, <1>4, <1>5, <1>6 DEF Inv, Rows, Kept

LEMMA RevokeKeeps ==
  ASSUME Inv, NEW t \in Tabs, NEW owners, Revoke(t, owners)
  PROVE  Inv'
<1>1. Revokes(request[t].seen) /\ UNCHANGED <<now, cookie>> /\ Waits(t, Idle)
  BY DEF Revoke, Revokes, Answered
<1>2. Kept /\ Len(token') = Len(token)
  BY <1>1, RevokesRows DEF Inv
<1>3. ParentsExist' /\ Lineage'
  BY <1>1, ChainRevoked
<1>4. request' \in [Tabs -> Request] /\ Requests'
  BY <1>1, <1>2, WaitingForNone, IdleRequest
<1>. QED
  BY <1>1, <1>2, <1>3, <1>4 DEF Inv, Rows, Kept

LEMMA LogoutKeeps ==
  ASSUME Inv, NEW t \in Tabs, NEW owners, Logout(t, owners)
  PROVE  Inv'
<1>. DEFINE i == cookie[BrowserOf[t]]
<1>1. /\ token' = [token EXCEPT ![i].revoked = TRUE]
      /\ cookie' = [cookie EXCEPT ![BrowserOf[t]] = 0]
      /\ UNCHANGED <<now, request>>
  BY DEF Logout
<1>2. /\ i \in Ids /\ Len(token) \in Nat /\ Ids = 1 .. Len(token)
      /\ token \in [Ids -> Token]
  BY SessionsAssumption DEF Logout, Inv, Rows, Ids
<1>. HIDE DEF i
<1>3. Revokes({i})
  BY <1>1, <1>2 DEF Revokes
<1>4. Kept /\ Len(token') = Len(token)
  BY <1>3, RevokesRows DEF Inv
<1>5. ParentsExist' /\ Lineage'
  BY <1>3, ChainRevoked
<1>6. Requests'
  BY <1>1, <1>4, StaysPut DEF Requests
<1>7. cookie' \in [Browsers -> 0 .. Len(token')]
  <2>1. 0 \in 0 .. Len(token) /\ cookie \in [Browsers -> 0 .. Len(token)]
    BY <1>2 DEF Inv, Rows
  <2>. QED
    BY <1>1, <1>4, <2>1
<1>. QED
  BY <1>1, <1>4, <1>5, <1>6, <1>7 DEF Inv, Rows, Kept

LEMMA OthersKeep ==
  ASSUME Inv, UNCHANGED <<token, cookie, request>>, now' \in Nat
  PROVE  Inv'
<1>1. Kept /\ ParentsExist' /\ Lineage' /\ Len(token') = Len(token)
  BY Quiet
<1>2. Requests'
  BY <1>1, StaysPut DEF Requests
<1>. QED
  BY <1>1, <1>2 DEF Inv, Rows

LEMMA RestartKeeps ==
  ASSUME Inv, Restart
  PROVE  Inv'
<1>1. Kept /\ ParentsExist' /\ Lineage' /\ Len(token') = Len(token)
  BY Quiet DEF Restart
<1>2. \A t \in Tabs : request'[t] = Idle
  BY DEF Restart
<1>3. Requests'
  BY <1>2, IdleRequest DEF Requests, Refers, Covers
<1>4. request' \in [Tabs -> Request]
  BY IdleRequest DEF Restart
<1>. QED
  BY <1>1, <1>3, <1>4 DEF Restart, Inv, Rows

LEMMA NextKeeps ==
  ASSUME Inv, [Next]_vars
  PROVE  Inv'
<1>1. ASSUME NEW t \in Tabs, NEW m \in Members,
             Authenticate(t, m) \/ accept_invite(t, m) \/ reset_password(t, m)
      PROVE  Inv'
  BY <1>1, StartsKeep
<1>2. ASSUME NEW t \in Tabs, NEW c \in Customers, register(t, c) \/ login(t, c)
      PROVE  Inv'
  BY <1>2, CustomerKeeps
<1>3. ASSUME NEW t \in Tabs, ReadToken(t, cookie[BrowserOf[t]])
      PROVE  Inv'
  BY <1>3, ReadKeeps
<1>4. ASSUME NEW t \in Tabs, issue_session_tokens(t) \/ refresh(t) \/ refresh_session(t)
      PROVE  Inv'
  BY <1>4, IssueKeeps, RotateKeeps, RevokeKeeps DEF refresh, refresh_session
<1>5. ASSUME NEW t \in Tabs, logout(t) \/ revoke_session(t)
      PROVE  Inv'
  BY <1>5, LogoutKeeps DEF logout, revoke_session
<1>6. ASSUME NEW m \in Members, set_membership_status(m)
      PROVE  Inv'
  BY <1>6, OthersKeep DEF set_membership_status, Inv, Rows
<1>7. CASE Tick
  BY <1>7, OthersKeep DEF Tick, Inv, Rows
<1>8. CASE Restart
  BY <1>8, RestartKeeps
<1>9. CASE UNCHANGED vars
  BY <1>9, OthersKeep DEF vars, Inv, Rows
<1>. QED
  BY <1>1, <1>2, <1>3, <1>4, <1>5, <1>6, <1>7, <1>8, <1>9 DEF Next

THEOREM SessionsInvariant == Spec => []Inv
<1>1. Init => Inv
  BY InitHolds
<1>2. Inv /\ [Next]_vars => Inv'
  BY NextKeeps
<1>. QED
  BY <1>1, <1>2, PTL DEF Spec

\* repositories/refresh_token_repo.py, mark_rotated: a session is a chain that
\* can be followed both ways, however its refreshes interleave.
THEOREM LineageCorrect == Spec => []Lineage
<1>1. Inv => Lineage
  BY DEF Inv
<1>. QED
  BY <1>1, SessionsInvariant, PTL

(***************************************************************************)
(* A token presented twice.                                                *)
(***************************************************************************)
\* Only the second step of the request itself ends it with a write.
LEMMA WhoRevokes ==
  ASSUME Inv, Next, NEW t \in Tabs, request[t].step = "revoke",
         token' # token, request'[t] = Idle
  PROVE  Revokes(request[t].seen)
<1>0. /\ request[t] # Idle
      /\ \A u \in Tabs : \A r : Waits(u, r) /\ u # t => request'[t] = request[t]
  BY DEF Idle, Inv, Rows, Waits
<1>1. ASSUME NEW u \in Tabs, NEW m \in Members,
             Authenticate(u, m) \/ accept_invite(u, m) \/ reset_password(u, m)
      PROVE  FALSE
  BY <1>1 DEF Authenticate, accept_invite, reset_password
<1>2. ASSUME NEW u \in Tabs, NEW c \in Customers, register(u, c) \/ login(u, c)
      PROVE  FALSE
  BY <1>0, <1>2 DEF register, login, CustomerSession
<1>3. ASSUME NEW u \in Tabs, ReadToken(u, cookie[BrowserOf[u]])
      PROVE  FALSE
  BY <1>3 DEF ReadToken
<1>4. ASSUME NEW u \in Tabs, issue_session_tokens(u) \/ refresh(u) \/ refresh_session(u)
      PROVE  Revokes(request[t].seen)
  <2>1. Waits(u, Idle)
    BY <1>4 DEF issue_session_tokens, refresh, refresh_session, Rotate, Revoke, Answered
  <2>2. u = t
    BY <1>0, <2>1
  <2>. QED
    BY <1>4, <2>2 DEF issue_session_tokens, refresh, refresh_session, Rotate, Revoke, Revokes
<1>5. ASSUME NEW u \in Tabs, logout(u) \/ revoke_session(u)
      PROVE  FALSE
  BY <1>0, <1>5 DEF logout, revoke_session, Logout
<1>6. ~(\E m \in Members : set_membership_status(m))
  BY DEF set_membership_status
<1>7. ~Tick /\ ~Restart
  BY DEF Tick, Restart
<1>. QED
  BY <1>1, <1>2, <1>3, <1>4, <1>5, <1>6, <1>7 DEF Next

RevocationStep ==
  \A t \in Tabs :
    (request[t] # Idle /\ request[t].step = "revoke" /\ token' # token /\ request'[t] = Idle)
      => LET user == UserOfToken(request[t].token)
             revoked == {j \in Ids : token[j].revoked # token'[j].revoked}
         IN  /\ \A j \in revoked : UserOfToken(j) = user
             /\ \A j \in Ids : (UserOfToken(j) = user /\ ~token'[j].revoked)
                                => j > request[t].known

LEMMA RevocationIsComplete ==
  ASSUME Inv, [Next]_vars
  PROVE  RevocationStep
<1>. SUFFICES ASSUME NEW t \in Tabs, request[t].step = "revoke",
                     token' # token, request'[t] = Idle
              PROVE  /\ \A j \in Ids : token[j].revoked # token'[j].revoked
                          => UserOfToken(j) = UserOfToken(request[t].token)
                     /\ \A j \in Ids :
                          (UserOfToken(j) = UserOfToken(request[t].token) /\ ~token'[j].revoked)
                            => j > request[t].known
  BY DEF RevocationStep
<1>1. Revokes(request[t].seen)
  BY WhoRevokes DEF vars
<1>2. /\ Len(token) \in Nat /\ Ids = 1 .. Len(token)
      /\ request[t].known \in 0 .. Len(token)
      /\ request[t].seen \subseteq 1 .. request[t].known
  BY DEF Inv, Rows, Ids, Requests, Covers
<1>3. \A j \in 1 .. request[t].known :
         IF j \in request[t].seen
         THEN UserOfToken(j) = UserOfToken(request[t].token)
         ELSE UserOfToken(j) = UserOfToken(request[t].token) => token[j].revoked
  BY DEF Inv, Requests, Covers
<1>4. \A j \in Ids : /\ j \in request[t].seen => token'[j].revoked
                     /\ j \notin request[t].seen => token'[j] = token[j]
                     /\ token[j].revoked => token'[j].revoked
  BY <1>1, RevokesRows DEF Inv, Kept
<1>5. ASSUME NEW j \in Ids, token[j].revoked # token'[j].revoked
      PROVE  UserOfToken(j) = UserOfToken(request[t].token)
  BY <1>2, <1>3, <1>4, <1>5
<1>6. ASSUME NEW j \in Ids, UserOfToken(j) = UserOfToken(request[t].token),
             ~token'[j].revoked
      PROVE  j > request[t].known
  BY <1>2, <1>3, <1>4, <1>6
<1>. QED
  BY <1>5, <1>6

\* services/auth.py and services/customer_accounts.py, the detection of reuse:
\* it revokes every token the user had when it looked, and of nobody else,
\* whatever logins, refreshes and logouts run between its two steps.
THEOREM ReuseCorrect == Spec => RevokesTheUser
<1>1. Inv /\ [Next]_vars => [RevocationStep]_vars
  BY RevocationIsComplete
<1>. QED
  BY <1>1, SessionsInvariant, PTL DEF Spec, RevokesTheUser, RevocationStep

(***************************************************************************)
(* The limiter.                                                            *)
(***************************************************************************)
Times(key) == \A i \in DOMAIN admitted[key] :
  /\ admitted[key][i].at \in Nat /\ admitted[key][i].entered \in Nat
  /\ admitted[key][i].entered <= clock

\* What the list of a key no longer holds has left the window of the present
\* moment, although the call that dropped it may have read the clock earlier.
DroppedIsPast(key) == \A i \in DOMAIN admitted[key] \ hits[key] :
  admitted[key][i].at + Window[key] <= clock

InTime(t) == call[t] # Elsewhere =>
  call[t].key \in Keys /\ call[t].now \in Nat /\ call[t].now <= clock

\* Those of the attempts that were admitted before one and stand in its window.
Crowd(list, length, j) ==
  {i \in 1 .. j - 1 : list[i].at + length > list[j].entered}

Spaced(key) == \A j \in DOMAIN admitted[key] :
  Cardinality(Crowd(admitted[key], Window[key], j)) < MaxAttempts[key]

LimiterInv ==
  /\ clock \in Nat
  /\ DOMAIN call = Threads /\ \A t \in Threads : InTime(t)
  /\ admitted \in [Keys -> Seq([at : Nat, entered : Nat])]
  /\ DOMAIN hits = Keys
  /\ \A key \in Keys :
       /\ hits[key] \subseteq DOMAIN admitted[key]
       /\ Times(key) /\ DroppedIsPast(key) /\ Spaced(key)

LEMMA LimiterStarts ==
  ASSUME clock \in Nat, call = NoCall, admitted = NoAttempts, hits = EmptyLists
  PROVE  LimiterInv
BY DEF LimiterInv, NoCall, NoAttempts, EmptyLists, InTime, Times, DroppedIsPast, Spaced

\* What a call leaves out of the list, on top of what was out, is past too.
LEMMA Forgetting ==
  ASSUME LimiterInv, NEW key \in Keys, NEW read \in Nat, read <= clock
  PROVE  /\ timestamps(key, read) \subseteq DOMAIN admitted[key]
         /\ \A i \in DOMAIN admitted[key] \ timestamps(key, read) :
              admitted[key][i].at + Window[key] <= clock
         /\ IsFiniteSet(timestamps(key, read))
<1>1. /\ timestamps(key, read) \subseteq hits[key] /\ hits[key] \subseteq DOMAIN admitted[key]
      /\ admitted[key] \in Seq([at : Nat, entered : Nat])
  BY DEF timestamps, LimiterInv
<1>2. Window[key] \in Nat /\ clock \in Nat
  BY LimiterAssumption DEF LimiterInv
<1>3. ASSUME NEW i \in DOMAIN admitted[key], i \notin timestamps(key, read)
      PROVE  admitted[key][i].at + Window[key] <= clock
  <2>1. admitted[key][i].at \in Nat
    BY DEF LimiterInv, Times
  <2>2. CASE i \notin hits[key]
    BY <1>3, <2>2 DEF LimiterInv, DroppedIsPast
  <2>3. CASE i \in hits[key]
    <3>1. ~(admitted[key][i].at + Window[key] > read)
      BY <1>3, <2>3 DEF timestamps, AfterCutoff
    <3>. QED BY <3>1, <2>1, <1>2
  <2>. QED BY <2>2, <2>3
<1>4. DOMAIN admitted[key] = 1 .. Len(admitted[key]) /\ Len(admitted[key]) \in Nat
  BY <1>1
<1>5. IsFiniteSet(1 .. Len(admitted[key]))
  BY <1>4, FS_Interval
<1>6. timestamps(key, read) \subseteq 1 .. Len(admitted[key])
  BY <1>1, <1>4
<1>7. IsFiniteSet(timestamps(key, read))
  BY <1>5, <1>6, FS_Subset
<1>. QED
  BY <1>1, <1>3, <1>7

\* The one that is admitted finds fewer than the maximum in its window: what
\* stands in it is still in the list, and newer than the cutoff of the call.
LEMMA AdmittedIsSpaced ==
  ASSUME LimiterInv, NEW t \in Threads, hit(t), NEW key, key = call[t].key
  PROVE  /\ Spaced(key)' /\ Times(key)' /\ DroppedIsPast(key)'
         /\ hits'[key] \subseteq DOMAIN admitted'[key]
         /\ admitted' \in [Keys -> Seq([at : Nat, entered : Nat])]
<1> DEFINE read == call[t].now
           old == admitted[key]
           row == [at |-> read, entered |-> clock]
           n == Len(old) + 1
           kept == timestamps(key, read)
<1>1. key \in Keys /\ read \in Nat /\ read <= clock /\ clock \in Nat
  BY DEF hit, LimiterInv, InTime, Elsewhere
<1>2. /\ Cardinality(kept) < MaxAttempts[key]
      /\ admitted' = [admitted EXCEPT ![key] = Append(old, row)]
      /\ hits' = [hits EXCEPT ![key] = kept \union {n}]
      /\ clock' = clock
  BY DEF hit
<1>3. /\ kept \subseteq DOMAIN old /\ IsFiniteSet(kept)
      /\ \A i \in DOMAIN old \ kept : old[i].at + Window[key] <= clock
  BY <1>1, Forgetting
<1>4. /\ old \in Seq([at : Nat, entered : Nat]) /\ row \in [at : Nat, entered : Nat]
      /\ DOMAIN old = 1 .. Len(old) /\ Len(old) \in Nat
      /\ DOMAIN hits = Keys /\ Window[key] \in Nat /\ MaxAttempts[key] \in Nat
  BY <1>1, LimiterAssumption DEF LimiterInv
<1>5. Times(key) /\ Spaced(key) /\ admitted \in [Keys -> Seq([at : Nat, entered : Nat])]
  BY <1>1 DEF LimiterInv
<1> HIDE DEF read, kept
<1>6. Append(old, row) \in Seq([at : Nat, entered : Nat])
  BY <1>4
<1>7. /\ admitted'[key] = Append(old, row) /\ hits'[key] = kept \union {n}
      /\ admitted' \in [Keys -> Seq([at : Nat, entered : Nat])]
  BY <1>1, <1>2, <1>4, <1>5, <1>6
<1> PICK list : list = admitted'[key]
  OBVIOUS
<1>8. /\ DOMAIN list = 1 .. n /\ list[n].at = read /\ list[n].entered = clock
      /\ \A i \in 1 .. Len(old) : list[i] = old[i]
  BY <1>4, <1>6, <1>7
<1>9. \A i \in DOMAIN list : i = n \/ i \in DOMAIN old
  BY <1>4, <1>8
<1>10. Times(key)'
  <2>1. \A i \in DOMAIN list : /\ list[i].at \in Nat /\ list[i].entered \in Nat
                               /\ list[i].entered <= clock
    <3>1. read \in Nat /\ clock \in Nat
      BY <1>1 DEF read
    <3>2. \A i \in DOMAIN old : /\ old[i].at \in Nat /\ old[i].entered \in Nat
                                /\ old[i].entered <= clock
      BY <1>5 DEF Times
    <3>3. \A i \in DOMAIN old : list[i] = old[i]
      BY <1>4, <1>8
    <3>4. clock <= clock /\ list[n].at \in Nat /\ list[n].entered \in Nat /\ list[n].entered <= clock
      BY <1>8, <3>1
    <3>. HIDE DEF old, n
    <3>. QED BY <1>9, <3>2, <3>3, <3>4
  <2>. QED BY <1>2, <2>1 DEF Times
<1>11. DroppedIsPast(key)'
  <2>1. \A i \in DOMAIN list \ (kept \union {n}) : list[i].at + Window[key] <= clock
    BY <1>3, <1>4, <1>8, <1>9
  <2>. QED BY <1>2, <1>7, <2>1 DEF DroppedIsPast
<1>12. ASSUME NEW j \in DOMAIN list
       PROVE  Cardinality(Crowd(list, Window[key], j)) < MaxAttempts[key]
  <2>1. CASE j = n
    <3>1. ASSUME NEW i \in Crowd(list, Window[key], n) PROVE i \in kept
      <4>1. i \in DOMAIN old /\ old[i].at + Window[key] > clock
        <5>1. i \in 1 .. n - 1 /\ list[i].at + Window[key] > list[n].entered
          BY DEF Crowd
        <5>2. i \in 1 .. Len(old)
          BY <1>4, <5>1
        <5>3. list[i] = old[i] /\ list[n].entered = clock
          BY <1>8, <5>2
        <5>. QED BY <1>4, <5>1, <5>2, <5>3
      <4>2. old[i].at + Window[key] \in Nat
        <5>1. old[i].at \in Nat
          BY <4>1, <1>5 DEF Times
        <5>2. Window[key] \in Nat
          BY <1>4
        <5>. QED BY ONLY <5>1, <5>2
      <4>3. ~(old[i].at + Window[key] <= clock)
        BY <1>1, <4>1, <4>2
      <4>. QED BY <1>3, <4>1, <4>3
    <3>2. Cardinality(Crowd(list, Window[key], n)) <= Cardinality(kept)
      BY <1>3, <3>1, FS_Subset
    <3>3. IsFiniteSet(Crowd(list, Window[key], n))
      BY <1>3, <3>1, FS_Subset
    <3>4. Cardinality(Crowd(list, Window[key], n)) \in Nat /\ Cardinality(kept) \in Nat
      BY <1>3, <3>3, FS_CardinalityType
    <3>. QED BY <1>2, <1>4, <2>1, <3>2, <3>4
  <2>2. CASE j # n
    <3>1. j \in DOMAIN old /\ list[j] = old[j]
      BY <1>4, <1>8, <1>9, <2>2
    <3>2. \A i \in 1 .. j - 1 : list[i] = old[i]
      BY <1>4, <1>8, <3>1
    <3>3. Crowd(list, Window[key], j) = Crowd(old, Window[key], j)
      BY <3>1, <3>2 DEF Crowd
    <3>. QED BY <1>5, <3>1, <3>3 DEF Spaced
  <2>. QED BY <2>1, <2>2
<1>13. Spaced(key)'
  <2>1. UNCHANGED <<Window, MaxAttempts>> /\ admitted'[key] = list
    OBVIOUS
  <2>. QED BY <1>12, <2>1 DEF Spaced
<1>14. hits'[key] \subseteq DOMAIN admitted'[key]
  BY <1>3, <1>4, <1>7, <1>8
<1>. QED
  BY <1>7, <1>10, <1>11, <1>13, <1>14

\* Where a step leaves the lists of a key alone, only the clock may move on.
LEMMA KeyIsKept ==
  ASSUME LimiterInv, NEW key \in Keys, clock' \in Nat, clock <= clock',
         hits'[key] = hits[key], admitted'[key] = admitted[key]
  PROVE  /\ hits'[key] \subseteq DOMAIN admitted'[key]
         /\ Times(key)' /\ DroppedIsPast(key)' /\ Spaced(key)'
<1>1. /\ hits[key] \subseteq DOMAIN admitted[key] /\ Times(key) /\ DroppedIsPast(key)
      /\ Spaced(key) /\ clock \in Nat /\ Window[key] \in Nat
  BY LimiterAssumption DEF LimiterInv
<1>2. Times(key)'
  BY <1>1 DEF Times
<1>3. \A i \in DOMAIN admitted[key] : admitted[key][i].at + Window[key] \in Nat
  BY <1>1 DEF Times
<1>4. DroppedIsPast(key)'
  BY <1>1, <1>3 DEF DroppedIsPast
<1>5. Spaced(key)'
  BY <1>1 DEF Spaced
<1>. QED
  BY <1>1, <1>2, <1>4, <1>5

\* A thread that returns is in no call; the others are where they were.
LEMMA Returning ==
  ASSUME LimiterInv, NEW t \in Threads, Returns(t), UNCHANGED clock
  PROVE  DOMAIN call' = Threads /\ \A u \in Threads : InTime(u)'
BY DEF LimiterInv, Returns, InTime

LEMMA LimiterKept ==
  ASSUME LimiterInv, [LimiterNext]_limiterVars
  PROVE  LimiterInv'
<1>0. /\ clock \in Nat /\ DOMAIN call = Threads /\ DOMAIN hits = Keys
      /\ admitted \in [Keys -> Seq([at : Nat, entered : Nat])]
      /\ \A t \in Threads : InTime(t)
  BY DEF LimiterInv
<1>1. ASSUME NEW t \in Threads, NEW key \in Keys, Arrive(t, key)
      PROVE  LimiterInv'
  <2>1. /\ UNCHANGED <<clock, admitted, hits>>
        /\ call' = [call EXCEPT ![t] = [step |-> "hit", key |-> key, now |-> clock]]
    BY <1>1 DEF Arrive
  <2>2. \A u \in Threads : InTime(u)'
    BY <1>0, <2>1 DEF InTime
  <2>3. DOMAIN call' = Threads /\ clock <= clock'
    BY <1>0, <2>1
  <2>. QED
    BY <1>0, <2>1, <2>2, <2>3, KeyIsKept DEF LimiterInv
<1>2. ASSUME NEW t \in Threads, hit(t)
      PROVE  LimiterInv'
  <2>1. /\ Returns(t) /\ UNCHANGED clock /\ DOMAIN hits' = Keys /\ clock <= clock'
        /\ \A key \in Keys \ {call[t].key} :
             hits'[key] = hits[key] /\ admitted'[key] = admitted[key]
    BY <1>0, <1>2 DEF hit
  <2>2. DOMAIN call' = Threads /\ \A u \in Threads : InTime(u)'
    BY <2>1, Returning
  <2>3. ASSUME NEW key \in Keys
        PROVE  /\ hits'[key] \subseteq DOMAIN admitted'[key]
               /\ Times(key)' /\ DroppedIsPast(key)' /\ Spaced(key)'
    <3>1. CASE key = call[t].key
      BY <1>2, <3>1, AdmittedIsSpaced
    <3>2. CASE key # call[t].key
      BY <1>0, <2>1, <3>2, KeyIsKept
    <3>. QED BY <3>1, <3>2
  <2>4. admitted' \in [Keys -> Seq([at : Nat, entered : Nat])]
    <3>. PICK key : key = call[t].key
      OBVIOUS
    <3>. QED BY <1>2, AdmittedIsSpaced
  <2>. QED
    BY <1>0, <2>1, <2>2, <2>3, <2>4 DEF LimiterInv
<1>3. ASSUME NEW t \in Threads, TooManyRequests(t)
      PROVE  LimiterInv'
  <2> PICK key, read : key = call[t].key /\ read = call[t].now
    OBVIOUS
  <2>1. /\ Returns(t) /\ UNCHANGED <<clock, admitted>> /\ DOMAIN hits' = Keys /\ clock <= clock'
        /\ hits' = [hits EXCEPT ![key] = timestamps(key, read)]
    BY <1>0, <1>3 DEF TooManyRequests
  <2>2. key \in Keys /\ read \in Nat /\ read <= clock
    BY <1>0, <1>3 DEF TooManyRequests, InTime, Elsewhere
  <2>3. DOMAIN call' = Threads /\ \A u \in Threads : InTime(u)'
    BY <2>1, Returning
  <2>4. /\ timestamps(key, read) \subseteq DOMAIN admitted[key]
        /\ \A i \in DOMAIN admitted[key] \ timestamps(key, read) :
             admitted[key][i].at + Window[key] <= clock
    BY <2>2, Forgetting
  <2>5. hits'[key] = timestamps(key, read) /\ admitted'[key] = admitted[key]
    BY <1>0, <2>1, <2>2
  <2>6. hits'[key] \subseteq DOMAIN admitted'[key] /\ DroppedIsPast(key)'
    BY <2>1, <2>4, <2>5 DEF DroppedIsPast
  <2>7. Times(key)' /\ Spaced(key)'
    BY <2>1, <2>2, <2>5 DEF LimiterInv, Times, Spaced
  <2>8. ASSUME NEW other \in Keys, other # key
        PROVE  /\ hits'[other] \subseteq DOMAIN admitted'[other]
               /\ Times(other)' /\ DroppedIsPast(other)' /\ Spaced(other)'
    <3>1. hits'[other] = hits[other] /\ admitted'[other] = admitted[other]
      BY <1>0, <2>1, <2>8
    <3>. QED BY <1>0, <2>1, <3>1, KeyIsKept
  <2>. QED
    BY <1>0, <2>1, <2>3, <2>6, <2>7, <2>8 DEF LimiterInv
<1>4. CASE TimePasses
  <2>1. clock' = clock + 1 /\ UNCHANGED <<call, admitted, hits>>
    BY <1>4 DEF TimePasses
  <2>2. clock' \in Nat /\ clock <= clock'
    BY <1>0, <2>1
  <2>3. \A u \in Threads : InTime(u)'
    BY <1>0, <2>1, <2>2 DEF InTime
  <2>. QED
    BY <1>0, <2>1, <2>2, <2>3, KeyIsKept DEF LimiterInv
<1>5. CASE ProcessRestarts
  <2>1. clock' \in Nat /\ call' = NoCall /\ admitted' = NoAttempts /\ hits' = EmptyLists
    BY <1>0, <1>5 DEF ProcessRestarts
  <2>. QED
    BY <2>1 DEF LimiterInv, NoCall, NoAttempts, EmptyLists, InTime, Times, DroppedIsPast, Spaced
<1>6. CASE UNCHANGED limiterVars
  BY <1>0, <1>6 DEF limiterVars, LimiterInv, InTime, Times, DroppedIsPast, Spaced
<1>. QED
  BY <1>1, <1>2, <1>3, <1>4, <1>5, <1>6 DEF LimiterNext

\* core/rate_limit.py:43-55: the lock is taken after the clock is read, so calls
\* record times that are older than their turn and forget by the time they
\* read.  Whatever the threads and however long they wait, an attempt is
\* admitted only if fewer than the maximum are recorded in the window that ends
\* when it is, for every key, window and maximum, as long as the process lives.
THEOREM WindowCorrect == LimiterSpec => []RateWindow
<1>1. LimiterInit => LimiterInv
  BY LimiterStarts DEF LimiterInit
<1>2. LimiterInv /\ [LimiterNext]_limiterVars => LimiterInv'
  BY LimiterKept
<1>3. LimiterInv => RateWindow
  BY DEF LimiterInv, Spaced, Crowd, RateWindow
<1>. QED
  BY <1>1, <1>2, <1>3, PTL DEF LimiterSpec
=============================================================================
