------------------------------ MODULE Sessions ------------------------------
(***************************************************************************)
(* Sessions of the staff and of the customers: refresh tokens that rotate  *)
(* at every use, the detection of a token used twice, and the two          *)
(* transactions of every flow that issues a first token.                   *)
(*                                                                         *)
(* Source: services/auth.py, services/customer_accounts.py (the sessions), *)
(* the refresh token repositories, core/security.py, api/v1/auth.py,       *)
(* api/v1/customer_auth.py, api/deps.py.                                   *)
(*                                                                         *)
(* A request reads in one step and commits in another, so that requests    *)
(* of several tabs interleave; no row is locked between the two.  A tab    *)
(* may never hear of a commit (its cookie stays the old one), and the      *)
(* process may be restarted at any step: its requests are rolled back.     *)
(*                                                                         *)
(* The limiter answers before the handler runs (RateLimiter); an attempt   *)
(* it refuses, like one with wrong credentials, changes nothing here.      *)
(***************************************************************************)
EXTENDS Naturals, Sequences

CONSTANTS
  Tabs, Browsers,
  BrowserOf,                \* the browser, and so the cookie, of a tab
  Members,                  \* memberships of the staff
  Customers,                \* customer accounts
  Founders,                 \* memberships that were created active by signup
  UserOf,                   \* the user of a membership, the account itself
  TTL,                      \* life of a refresh token, in ticks
  MaxTokens, MaxClock       \* bounds of the model, not of the code

Owners == Members \union Customers
Status == {"invited", "active", "suspended"}

ASSUME SessionsAssumption ==
  /\ Members \intersect Customers = {}
  /\ BrowserOf \in [Tabs -> Browsers]
  /\ DOMAIN UserOf = Owners
  /\ Founders \subseteq Members
  /\ \A m \in Members, c \in Customers : UserOf[m] # UserOf[c]
  /\ TTL \in Nat /\ MaxTokens \in Nat /\ MaxClock \in Nat

VARIABLES
  now,       \* the clock
  status,    \* owner -> status of the membership, or of the account: "invited"
             \* when it does not exist yet
  token,     \* the rows of refresh_tokens and customer_refresh_tokens
  cookie,    \* browser -> the token its cookie carries, 0 for none
  request    \* tab -> the request it waits for; known is history

vars == <<now, status, token, cookie, request>>

Ids == DOMAIN token
Idle == [step |-> "idle"]

\* The row of a token; its parent is the token whose rotation made it.
NewToken(owner, parent) ==
  [owner |-> owner, parent |-> parent, expires_at |-> now + TTL,
   revoked |-> FALSE, replaced_by |-> 0]

UserOfToken(i) == UserOf[token[i].owner]

(***************************************************************************)
(* Flows that issue the first token of a session.                          *)
(***************************************************************************)
Waits(t, r) == request' = [request EXCEPT ![t] = r]
Answered(t) == Waits(t, Idle)

\* The answer sets the cookie, if it arrives.
Cookie(t, i) ==
  \/ cookie' = [cookie EXCEPT ![BrowserOf[t]] = i]
  \/ UNCHANGED cookie

Insert(owner, parent) ==
  /\ Len(token) < MaxTokens
  /\ token' = Append(token, NewToken(owner, parent))

\* The first transaction of login, when the user has one active membership,
\* or of select_organization, when it has several.
Authenticate(t, m) ==
  /\ request[t] = Idle
  /\ status[m] = "active"
  /\ Waits(t, [step |-> "issue", owner |-> m])
  /\ UNCHANGED <<now, status, token, cookie>>

accept_invite(t, m) ==
  /\ request[t] = Idle
  /\ status[m] = "invited"
  /\ status' = [status EXCEPT ![m] = "active"]
  /\ Waits(t, [step |-> "issue", owner |-> m])
  /\ UNCHANGED <<now, token, cookie>>

\* A suspended member gets the new password and no session.
reset_password(t, m) ==
  /\ request[t] = Idle
  /\ status[m] = "active"
  /\ Waits(t, [step |-> "issue", owner |-> m])
  /\ UNCHANGED <<now, status, token, cookie>>

\* The second transaction reads nothing of the membership again.
issue_session_tokens(t) ==
  /\ request[t].step = "issue"
  /\ Insert(request[t].owner, 0)
  /\ Cookie(t, Len(token) + 1)
  /\ Answered(t)
  /\ UNCHANGED <<now, status>>

\* A customer registers, or enters, in one transaction with its session.
CustomerSession(t, c) ==
  /\ request[t] = Idle
  /\ Insert(c, 0)
  /\ Cookie(t, Len(token) + 1)
  /\ UNCHANGED <<now, request>>

register(t, c) ==
  /\ status[c] = "invited"
  /\ status' = [status EXCEPT ![c] = "active"]
  /\ CustomerSession(t, c)

login(t, c) ==
  /\ status[c] = "active"
  /\ UNCHANGED status
  /\ CustomerSession(t, c)

(***************************************************************************)
(* Rotation.                                                               *)
(***************************************************************************)
LiveOf(user) == {j \in Ids : UserOfToken(j) = user /\ ~token[j].revoked}

\* mutant: only the tokens of the same membership are revoked
LiveOfSameOwner(i) == {j \in Ids : token[j].owner = token[i].owner /\ ~token[j].revoked}

\* The rows revoke_all_for_user selects when token i was already revoked.
SelectedByReuse(i) == LiveOf(UserOfToken(i))

Rotatable(i) ==
  /\ ~token[i].revoked
  /\ token[i].expires_at > now
  /\ status[token[i].owner] = "active"

\* get_by_hash and the checks of refresh and refresh_session.  An expired
\* token or an inactive owner is refused and nothing is written.
ReadToken(t, i) ==
  /\ request[t] = Idle
  /\ i # 0
  /\ IF Rotatable(i) THEN Waits(t, [step |-> "rotate", token |-> i])
     ELSE IF token[i].revoked
          THEN Waits(t, [step |-> "revoke", token |-> i,
                         seen |-> SelectedByReuse(i), known |-> Len(token)])
          ELSE UNCHANGED request
  /\ UNCHANGED <<now, status, token, cookie>>

\* mutant: the token presented is not revoked
mark_replaced(old, new) ==
  token' = Append([token EXCEPT ![old].replaced_by = new],
                  NewToken(token[old].owner, old))

mark_rotated(old, new) ==
  token' = Append([token EXCEPT ![old].revoked = TRUE, ![old].replaced_by = new],
                  NewToken(token[old].owner, old))

Rotate(t, owners) ==
  /\ request[t].step = "rotate"
  /\ token[request[t].token].owner \in owners
  /\ Len(token) < MaxTokens
  /\ mark_rotated(request[t].token, Len(token) + 1)
  /\ Cookie(t, Len(token) + 1)
  /\ Answered(t)
  /\ UNCHANGED <<now, status>>

Revoke(t, owners) ==
  /\ request[t].step = "revoke"
  /\ token[request[t].token].owner \in owners
  /\ token' = [j \in Ids |->
                 IF j \in request[t].seen THEN [token[j] EXCEPT !.revoked = TRUE]
                 ELSE token[j]]
  /\ Answered(t)
  /\ UNCHANGED <<now, status, cookie>>

refresh(t) == Rotate(t, Members) \/ Revoke(t, Members)
refresh_session(t) == Rotate(t, Customers) \/ Revoke(t, Customers)

Logout(t, owners) ==
  LET i == cookie[BrowserOf[t]]
  IN  /\ request[t] = Idle
      /\ i # 0 /\ token[i].owner \in owners
      /\ token' = [token EXCEPT ![i].revoked = TRUE]
      /\ cookie' = [cookie EXCEPT ![BrowserOf[t]] = 0]
      /\ UNCHANGED <<now, status, request>>

logout(t) == Logout(t, Members)
revoke_session(t) == Logout(t, Customers)

(***************************************************************************)
(* The rest of the world.                                                  *)
(***************************************************************************)
\* An administrator suspends or restores a member; nothing changes is_active
\* of a customer account.
set_membership_status(m) ==
  /\ status[m] # "invited"
  /\ status' = [status EXCEPT ![m] = IF @ = "active" THEN "suspended" ELSE "active"]
  /\ UNCHANGED <<now, token, cookie, request>>

Tick ==
  /\ now < MaxClock
  /\ now' = now + 1
  /\ UNCHANGED <<status, token, cookie, request>>

\* A crash or a deploy: the requests under way are rolled back.
Restart ==
  /\ \E t \in Tabs : request[t] # Idle
  /\ request' = [t \in Tabs |-> Idle]
  /\ UNCHANGED <<now, status, token, cookie>>

Init ==
  /\ now = 0
  /\ status = [o \in Owners |-> IF o \in Founders THEN "active" ELSE "invited"]
  /\ token = <<>>
  /\ cookie = [b \in Browsers |-> 0]
  /\ request = [t \in Tabs |-> Idle]

Next ==
  \/ \E t \in Tabs, m \in Members :
       Authenticate(t, m) \/ accept_invite(t, m) \/ reset_password(t, m)
  \/ \E t \in Tabs, c \in Customers : register(t, c) \/ login(t, c)
  \/ \E t \in Tabs : ReadToken(t, cookie[BrowserOf[t]])
  \/ \E t \in Tabs : issue_session_tokens(t) \/ refresh(t) \/ refresh_session(t)
  \/ \E t \in Tabs : logout(t) \/ revoke_session(t)
  \/ \E m \in Members : set_membership_status(m)
  \/ Tick \/ Restart

Spec == Init /\ [][Next]_vars

(***************************************************************************)
(* Properties.                                                             *)
(***************************************************************************)
Children(i) == {j \in Ids : token[j].parent = i}

\* The rows of a session form a chain that can be followed both ways: a token
\* that was rotated is revoked, points to the last of the tokens made from it,
\* and all of these belong to the same owner.
Lineage ==
  \A i \in Ids : Children(i) # {} =>
    /\ token[i].revoked
    /\ token[i].replaced_by \in Children(i)
    /\ \A j \in Children(i) : j <= token[i].replaced_by /\ token[j].owner = token[i].owner

\* A token is revoked by its own logout, by its own rotation, or because a
\* token of the same user was presented twice; and then the whole user is
\* logged out, except for tokens issued since the rows were selected.
RevokesTheUser ==
  [][\A t \in Tabs :
       (request[t] # Idle /\ request[t].step = "revoke" /\ token' # token /\ request'[t] = Idle)
         => LET user == UserOfToken(request[t].token)
                revoked == {j \in Ids : token[j].revoked # token'[j].revoked}
            IN  /\ \A j \in revoked : UserOfToken(j) = user
                /\ \A j \in Ids : (UserOfToken(j) = user /\ ~token'[j].revoked)
                                   => j > request[t].known]_vars
=============================================================================
