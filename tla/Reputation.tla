----------------------------- MODULE Reputation -----------------------------
(***************************************************************************)
(* What karma.js and rate_limit.js count about a sender over its           *)
(* connections: karma in redis, rate_limit in the server's notes (its open *)
(* connections) and in redis (its rate).                                   *)
(*                                                                         *)
(* One address.  A redis client runs its commands in order, and answers    *)
(* later: between karma's read and its write other connections come and    *)
(* go, and the connection itself may be gone.                              *)
(***************************************************************************)
EXTENDS Integers, FiniteSets

CONSTANTS
    Conns,       \* connections of the address
    Limit,       \* karma.ini [concurrency]neutral, and rate_limit's limits
    Keys,        \* the entries of rate_limit.ini [concurrency] the address may match
    MaxResets,   \* times karma's interval clears the counter
    MaxReloads,  \* times rate_limit.ini is edited
    MaxRedisErrors

VARIABLES
    at,          \* per connection: new, asked, known, open, gone, and left
                 \*   (gone before its lookup was answered; late when it is)
    read,        \* per connection: what karma's lookup read
    refused,     \* per connection: by what it was refused
    concurrent,  \* redis: karma's count of open connections
    record,      \* redis: karma|ip, [known, good, bad, penalty]; a penalty is
                 \*   none, serving, and served when its days are over
    snotes,      \* rate_limit: open connections per key
    key,         \* rate_limit.ini: the entry the address matches
    rate,        \* redis: rate_conn, [val, ttl]
    lost,        \* an EXPIRE of the rate was lost
    resets, reloads, errors

vars == <<at, read, refused, concurrent, record, snotes, key, rate, lost, resets, reloads, errors>>

NoRecord == [known |-> FALSE, good |-> 0, bad |-> 0, penalty |-> "none"]
NotRead == [concurrent |-> 0, record |-> NoRecord]

Init ==
    /\ at = [c \in Conns |-> "new"]
    /\ read = [c \in Conns |-> NotRead]
    /\ refused = [c \in Conns |-> "no"]
    /\ concurrent = 0
    /\ record \in {NoRecord, [NoRecord EXCEPT !.known = TRUE]}
    /\ snotes = [k \in Keys |-> 0] /\ key \in Keys
    /\ rate = [val |-> 0, ttl |-> FALSE] /\ lost = FALSE
    /\ resets = 0 /\ reloads = 0 /\ errors = 0

rateVars == <<snotes, key, rate, lost, reloads>>
karmaVars == <<read, concurrent, record, resets, errors>>

-----------------------------------------------------------------------------
(* karma.                                                                  *)
hook_lookup_rdns(c) ==
    /\ at[c] = "new"
    /\ at' = [at EXCEPT ![c] = "asked"]
    /\ read' = [read EXCEPT ![c] = [concurrent |-> concurrent, record |-> record]]
    /\ UNCHANGED <<refused, concurrent, record, resets, errors, rateVars>>

\* The connection may be counted: limits for a history below, at and over 0.
Least(a, b) == IF a < b THEN a ELSE b
check_concurrency(r) ==
    LET history == r.record.good - r.record.bad
        limit == IF history < 0 THEN Limit - 1 ELSE IF history = 0 THEN Limit ELSE Limit + 1 IN
    r.concurrent + 1 > limit

(* The answer to the lookup.  An address with no record gets one, and a    *)
(* count of one.                                                           *)
redisResults(c) ==
    LET r == read[c] IN
    /\ at[c] \in {"asked", "left"}
    /\ IF ~r.record.known
       THEN /\ record' = [NoRecord EXCEPT !.known = TRUE]     \* init_ip
            /\ concurrent' = 1
            /\ UNCHANGED refused
       ELSE /\ concurrent' = concurrent + 1
            /\ refused' = [refused EXCEPT ![c] =
                              IF check_concurrency(r) THEN "max_concurrent"
                              ELSE IF r.record.penalty = "serving" THEN "penalty" ELSE "no"]
            /\ UNCHANGED record
    /\ at' = [at EXCEPT ![c] = IF @ = "asked" THEN "known" ELSE "late"]
    /\ UNCHANGED <<read, resets, errors, rateVars>>

\* redis failed: the connection goes on, and is not counted.
redisError(c) ==
    /\ at[c] \in {"asked", "left"} /\ errors < MaxRedisErrors
    /\ errors' = errors + 1
    /\ at' = [at EXCEPT ![c] = IF @ = "asked" THEN "known" ELSE "late"]
    /\ UNCHANGED <<read, refused, concurrent, record, resets, rateVars>>

\* rate_limit, under the entry that matches now.
decr_concurrency == IF snotes[key] > 0 THEN [snotes EXCEPT ![key] = @ - 1] ELSE snotes

\* max_concurrent and karma_penalty disconnect after a delay; a client that
\* is not refused stays as long as it likes.  The score is what it earned.
\* A sender goes to the penalty box for its history as it was when it came.
\* Every connection that ends is taken off, whether or not it was counted.
hook_disconnect(c) ==
    /\ at[c] \in {"asked", "known", "open"}
    /\ at' = [at EXCEPT ![c] = IF @ = "asked" THEN "left" ELSE "gone"]
    /\ concurrent' = concurrent - 1
    /\ \E outcome \in {"good", "neutral", "bad", "terrible"} :
          record' = CASE outcome = "good" -> [record EXCEPT !.good = 1]
                      [] outcome = "neutral" -> record
                      [] outcome = "bad" -> [record EXCEPT !.bad = Least(2, @ + 1)]
                      [] OTHER -> [record EXCEPT !.bad = Least(2, @ + 1),
                                      !.penalty = IF read[c].record.good - read[c].record.bad - 1 < -1
                                                  THEN "serving" ELSE @]
    /\ snotes' = decr_concurrency
    /\ read' = IF at[c] = "asked" THEN read ELSE [read EXCEPT ![c] = NotRead]
    /\ refused' = [refused EXCEPT ![c] = "no"]
    /\ UNCHANGED <<resets, errors, key, rate, lost, reloads>>

\* The days of a penalty pass; its date stays in the record.
penalty_expires ==
    /\ record.penalty = "serving"
    /\ record' = [record EXCEPT !.penalty = "served"]
    /\ UNCHANGED <<at, read, refused, concurrent, resets, errors, rateVars>>

\* The interval of init_redis_connection.
clear_concurrency ==
    /\ resets < MaxResets /\ resets' = resets + 1
    /\ concurrent' = 0
    /\ UNCHANGED <<at, read, refused, record, errors, rateVars>>

-----------------------------------------------------------------------------
(* rate_limit's two functions of connect, after karma's.  register() comes *)
(* before the hook_... methods are registered: how many are open is looked *)
(* at first, and a connection it refuses is counted, and adds nothing to   *)
(* the rate.                                                               *)
\* INCR and EXPIRE are two commands: the second may fail.
rate_limit ==
    \E ok \in BOOLEAN :
        /\ ok \/ rate.val = 0
        /\ lost' = (lost \/ (rate.val = 0 /\ ~ok))
        /\ rate' = [val |-> Least(Limit + 1, rate.val + 1),
                    ttl |-> IF rate.val = 0 THEN ok ELSE rate.ttl]

incr_concurrency == [snotes EXCEPT ![key] = @ + 1]

hook_connect(c) ==
    /\ at[c] = "known" /\ refused[c] = "no"
    /\ at' = [at EXCEPT ![c] = "open"]
    /\ snotes' = incr_concurrency
    /\ IF snotes[key] + 1 > Limit
       THEN refused' = [refused EXCEPT ![c] = "concurrency"] /\ UNCHANGED <<rate, lost>>
       ELSE /\ rate_limit
            /\ refused' = [refused EXCEPT ![c] = IF rate.val + 1 > Limit THEN "rate" ELSE "no"]
    /\ UNCHANGED <<karmaVars, key, reloads>>

\* redis drops a key whose time is up.
expire ==
    /\ rate.ttl
    /\ rate' = [val |-> 0, ttl |-> FALSE]
    /\ UNCHANGED <<at, refused, karmaVars, snotes, key, lost, reloads>>

\* Another entry matches the address.
reload ==
    /\ reloads < MaxReloads /\ reloads' = reloads + 1
    /\ key' \in Keys \ {key}
    /\ UNCHANGED <<at, refused, karmaVars, snotes, rate, lost>>

Next ==
    \/ \E c \in Conns :
          \/ hook_lookup_rdns(c) \/ redisResults(c) \/ redisError(c)
          \/ hook_connect(c) \/ hook_disconnect(c)
    \/ penalty_expires \/ clear_concurrency \/ expire \/ reload

Spec == Init /\ [][Next]_vars

(* redis expires keys.                                                     *)
FairSpec == Spec /\ WF_vars(expire)

-----------------------------------------------------------------------------
Open == {c \in Conns : at[c] \in {"asked", "known", "open"}}
LeftEarly == {c \in Conns : at[c] \in {"left", "late"}}

(* karma never counts more connections than are open, so that a sender is  *)
(* not refused for connections it no longer has -- until a connection goes *)
(* before its lookup is answered: it is taken off first and counted after, *)
(* and a new sender's counter is set to one for it.                        *)
CountsOpenOnly == concurrent > Cardinality(Open) => LeftEarly # {}

(* rate_limit never counts more connections than are open under one entry  *)
(* of its configuration.                                                   *)
LimitCountsOpen == reloads = 0 => \A k \in Keys : snotes[k] <= Cardinality({c \in Conns : at[c] = "open"})

(* A sender over the rate is not refused for ever, unless the EXPIRE after *)
(* the first INCR was lost.                                                *)
OverLimit == rate.val > Limit
Passed == rate.val = 0 \/ lost

LimitPasses == OverLimit ~> Passed

=============================================================================
