------------------------------ MODULE Accounts ------------------------------
(***************************************************************************)
(* The web site's accounts: signup, the links mailed to log in, settings   *)
(* and removal, and the form that checks an alias while it is typed.       *)
(*                                                                         *)
(* Browsers call methods of the server.  One browser's calls run in order; *)
(* those of two browsers interleave at every access of the database.  When *)
(* the server restarts, a browser sends the call it waits for again.       *)
(***************************************************************************)
EXTENDS Naturals, Sequences, FiniteSets

CONSTANTS
    Browsers,
    Emails,      \* addresses; links mailed to them may be opened in any browser
    Aliases, Reserved,
    MaxUsers,    \* accounts ever created
    MaxTyped,    \* [Browsers -> edits of the alias]
    MaxRestarts

VARIABLES
    users,       \* accounts, in the order they were created
    text, status, \* per browser: the alias typed, and what is said of it
    debounce,    \* per browser: validateAlias is to be called
    checkSeq,    \* per browser: inputValidator's counter
    calls,       \* per browser: is_alias_taken calls without a reply
    typed,       \* per browser: edits so far
    method,      \* per browser: the method that runs, [name, pc, email, uid]
    me,          \* per browser: the account logged in to, 0 for none
    told,        \* per browser: the account its signup made, 0 before
    restarts

formVars == <<text, status, debounce, checkSeq, calls, typed>>
vars == <<users, formVars, method, me, told, restarts>>

NoMethod == [name |-> "none", pc |-> "none", email |-> "none", uid |-> 0]
Uids == DOMAIN users

Init ==
    /\ users = <<>>
    /\ text \in [Browsers -> Aliases]
    /\ status = [b \in Browsers |-> <<"default", "default">>]
    /\ debounce = [b \in Browsers |-> FALSE]
    /\ checkSeq = [b \in Browsers |-> 0]
    /\ calls = [b \in Browsers |-> <<>>]
    /\ typed = [b \in Browsers |-> 0]
    /\ method = [b \in Browsers |-> NoMethod]
    /\ me = [b \in Browsers |-> 0]
    /\ told = [b \in Browsers |-> 0]
    /\ restarts = 0

-----------------------------------------------------------------------------
(* inputValidator of lib/utils.js.                                         *)
isAliasTaken(a) ==
    IF a \in Reserved \/ \E u \in Uids : users[u].alias = a /\ ~users[u].removed
    THEN "alias_exists" ELSE "alias_valid"

input(b, a) ==
    /\ typed[b] < MaxTyped[b] /\ text[b] # a
    /\ typed' = [typed EXCEPT ![b] = @ + 1]
    /\ text' = [text EXCEPT ![b] = a]
    /\ status' = [status EXCEPT ![b] = <<a, "checking">>]
    /\ debounce' = [debounce EXCEPT ![b] = TRUE]
    /\ UNCHANGED <<users, checkSeq, calls, method, me, told, restarts>>

handler(b) ==
    /\ debounce[b]
    /\ debounce' = [debounce EXCEPT ![b] = FALSE]
    /\ checkSeq' = [checkSeq EXCEPT ![b] = @ + 1]
    /\ calls' = [calls EXCEPT ![b] = Append(@, [seq |-> checkSeq[b] + 1, alias |-> text[b]])]
    /\ UNCHANGED <<users, text, status, typed, method, me, told, restarts>>

\* The reply to a call: only the last one's counts.
reply(b) ==
    /\ calls[b] # <<>>
    /\ calls' = [calls EXCEPT ![b] = Tail(@)]
    /\ IF Head(calls[b]).seq # checkSeq[b] THEN UNCHANGED <<status, checkSeq>> ELSE
       /\ status' = [status EXCEPT ![b] = <<Head(calls[b]).alias, isAliasTaken(Head(calls[b]).alias)>>]
       /\ checkSeq' = [checkSeq EXCEPT ![b] = 0]
    /\ UNCHANGED <<users, text, debounce, typed, method, me, told, restarts>>

-----------------------------------------------------------------------------
(* A method starts when the browser has no other; it is sent at once, and  *)
(* ends with an answer.                                                    *)
Start(b, name, pc, email, uid) ==
    /\ method[b] = NoMethod
    /\ method' = [method EXCEPT ![b] = [name |-> name, pc |-> pc, email |-> email, uid |-> uid]]
Step(b, pc) == method' = [method EXCEPT ![b].pc = pc]
End(b) == method' = [method EXCEPT ![b] = NoMethod]
At(b, name, pc) == method[b].name = name /\ method[b].pc = pc
Fail(b) == End(b) /\ UNCHANGED told

NewUser(a, e) ==
    [alias |-> a, email |-> e, amount |-> FALSE, verified |-> "no",
     links |-> FALSE,        \* services.email.tokens, mailed to the address
     temp |-> FALSE,         \* services.temp.token, which the signing up browser has
     removal |-> FALSE,      \* services.removal.tokens
     removed |-> FALSE]

Removed == [NewUser("none", "none") EXCEPT !.removed = TRUE]

\* An update of an account that is gone changes nothing.
Set(u, user) == users' = IF users[u].removed THEN users ELSE [users EXCEPT ![u] = user]

\* signup: the checks, and then the account in several writes.
isEmailTaken(e) == \E u \in Uids : users[u].email = e /\ ~users[u].removed

signup(b) ==
    /\ \/ told[b] = 0 /\ (\E e \in Emails : Start(b, "signup", "alias", e, 0)) /\ UNCHANGED <<users, told>>
       \/ /\ At(b, "signup", "alias")
          /\ IF isAliasTaken(text[b]) = "alias_exists" THEN Fail(b) ELSE Step(b, "email") /\ UNCHANGED told
          /\ UNCHANGED users
       \/ /\ At(b, "signup", "email")
          /\ IF isEmailTaken(method[b].email) THEN Fail(b) ELSE Step(b, "create") /\ UNCHANGED told
          /\ UNCHANGED users
       \/ \* Accounts.createUser: the database refuses a second account of a name or address
          /\ At(b, "signup", "create")
          /\ IF isAliasTaken(text[b]) = "alias_exists" \/ isEmailTaken(method[b].email)
             THEN Fail(b) /\ UNCHANGED users
             ELSE /\ Len(users) < MaxUsers
                  /\ users' = Append(users, NewUser(text[b], method[b].email))
                  /\ method' = [method EXCEPT ![b].pc = "set", ![b].uid = Len(users) + 1]
                  /\ UNCHANGED told
       \/ /\ At(b, "signup", "set")
          /\ Set(method[b].uid, [users[method[b].uid] EXCEPT !.amount = TRUE])
          /\ Step(b, "verification") /\ UNCHANGED told
       \/ /\ At(b, "signup", "verification")
          /\ Set(method[b].uid, [users[method[b].uid] EXCEPT !.links = TRUE])
          /\ Step(b, "temp") /\ UNCHANGED told
       \/ /\ At(b, "signup", "temp")
          /\ Set(method[b].uid, [users[method[b].uid] EXCEPT !.temp = TRUE])
          /\ End(b) /\ told' = [told EXCEPT ![b] = method[b].uid]
    /\ UNCHANGED <<formVars, me, restarts>>

\* loginWithTempToken, once signup has answered: the token is for one login.
login_temp(b) ==
    /\ told[b] # 0 /\ me[b] = 0 /\ method[b] = NoMethod
    /\ users[told[b]].temp /\ ~users[told[b]].removed
    /\ Set(told[b], [users[told[b]] EXCEPT !.temp = FALSE])
    /\ me' = [me EXCEPT ![b] = told[b]]
    /\ UNCHANGED <<formVars, method, told, restarts>>

\* send_login, and send_verification of a user who is logged in.
send_login(b) ==
    /\ method[b] = NoMethod
    /\ \E u \in Uids : ~users[u].removed /\ ~users[u].links /\ Set(u, [users[u] EXCEPT !.links = TRUE])
    /\ UNCHANGED <<formVars, method, me, told, restarts>>

\* A link is opened; it stays good.
login_email(b) ==
    /\ method[b] = NoMethod
    /\ \E u \in Uids :
          /\ users[u].links /\ ~users[u].removed
          /\ Set(u, [users[u] EXCEPT !.verified = IF @ = "no" THEN "justverified" ELSE @])
          /\ me' = [me EXCEPT ![b] = u]
    /\ UNCHANGED <<formVars, method, told, restarts>>

\* Meteor.user() of a browser: null when the account is gone.
user(b) == me[b] # 0 /\ ~users[me[b]].removed

user_state(b) ==
    /\ user(b) /\ method[b] = NoMethod /\ users[me[b]].verified = "justverified"
    /\ Set(me[b], [users[me[b]] EXCEPT !.verified = "yes"])
    /\ UNCHANGED <<formVars, method, me, told, restarts>>

\* changeUser: a valid amount is written with the rest, or nothing is.
changeUser(b) ==
    /\ user(b) /\ method[b] = NoMethod
    /\ Set(me[b], [users[me[b]] EXCEPT !.amount = TRUE])
    /\ UNCHANGED <<formVars, method, me, told, restarts>>

\* removeUser reads the account, and then removes it, or mails a token.
removeUser(b) ==
    /\ \/ /\ user(b) /\ UNCHANGED users
          /\ Start(b, "removeUser", IF users[me[b]].verified = "no" THEN "remove" ELSE "mail", "none", me[b])
       \/ /\ user(b) /\ users[me[b]].removal /\ UNCHANGED users
          /\ Start(b, "removeUser", "remove", "none", me[b])
       \/ At(b, "removeUser", "remove") /\ Set(method[b].uid, Removed)
          /\ End(b)
       \/ At(b, "removeUser", "mail") /\ Set(method[b].uid, [users[method[b].uid] EXCEPT !.removal = TRUE])
          /\ End(b)
    /\ UNCHANGED <<formVars, me, told, restarts>>

\* The server restarts: a method is cut short, and sent again.
restart ==
    /\ restarts < MaxRestarts /\ restarts' = restarts + 1
    /\ method' = [b \in Browsers |->
          CASE method[b].name = "signup" -> [method[b] EXCEPT !.pc = "alias", !.uid = 0]
            [] OTHER -> NoMethod]
    /\ UNCHANGED <<users, formVars, me, told>>

Next ==
    \/ \E b \in Browsers :
          \/ \E a \in Aliases : input(b, a)
          \/ handler(b) \/ reply(b) \/ signup(b) \/ login_temp(b) \/ send_login(b) \/ login_email(b)
          \/ user_state(b) \/ changeUser(b) \/ removeUser(b)
    \/ restart

Spec == Init /\ [][Next]_vars

(* The debounced call is made, and replies come in order.                  *)
FairSpec == Spec /\ \A b \in Browsers : WF_vars(handler(b) \/ reply(b))

-----------------------------------------------------------------------------
(* However the replies and the typing overlap, what the form says in the   *)
(* end is about the alias that is there.                                   *)
AboutItsText ==
    \A b \in Browsers : status[b][2] # "checking" /\ status[b][1] \in {text[b], "default"}

EventuallyCurrent == <>[]AboutItsText

(* Two accounts never have one alias or address, and an account its signup *)
(* was told of is complete, whatever ran or restarted meanwhile.           *)
OwnAlias ==
    /\ \A u, v \in Uids : u # v /\ (users[u].alias = users[v].alias \/ users[u].email = users[v].email) =>
          users[u].removed \/ users[v].removed
    /\ \A b \in Browsers : told[b] # 0 => users[told[b]].removed \/ (users[told[b]].amount /\ users[told[b]].links)

=============================================================================
