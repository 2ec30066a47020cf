------------------------------ MODULE MCParts ------------------------------
(***************************************************************************)
(* Instances of the parts for TLC.                                         *)
(***************************************************************************)
EXTENDS Parts

(* Two plugins on the hooks of commands, so that one may be left when the  *)
(* other decides, and on disconnect.  They reject commands only.           *)
Replies == {"cont", "ok", "deny"}

HooksIn ==
    [Registered |-> [main |-> 2, deny |-> 1, reset_transaction |-> 1, disconnect |-> 2],
     Answers |-> [main |-> Replies, deny |-> {"cont", "ok"}, reset_transaction |-> {"cont", "ok"},
                  disconnect |-> Replies],
     TimesOut |-> {"main", "disconnect"}, Late |-> FALSE, MaxRuns |-> 3]

StreamIn == [MaxChunks |-> 3, SpoolAfter |-> {-1, 0, 1, 3, 5}, MaxPipes |-> 2]

TimersIn == [Delays |-> 0..2, MaxAdds |-> 3, MaxTime |-> 3, MaxBack |-> 1]

ConfigIn == [Readers |-> {"a", "b"}, MaxEdits |-> 2,
             options |-> [a |-> "none", b |-> "none"], cb |-> [a |-> TRUE, b |-> FALSE]]

ListsIn == [Zones |-> {"z1", "z2"}, Lookups |-> {1}, Searches |-> {"first", "all", "white"},
            MaxChecks |-> 1, MaxReloads |-> 1]

ChecksIn == [Plugins |-> {"is_resolvable", "rdns_strict", "fcrdns", "uribl"},
             NNames |-> 2, NGroups |-> 2]

P0fIn == [Queries |-> 1..3, MaxErrors |-> 2]

ScanIn == [Plugins |-> {"clamd", "avg", "spamassassin", "messagesniffer"},
           Messages |-> 1..2, NHosts |-> 2]

-----------------------------------------------------------------------------
(* The zones of SPF: b's record is asked for by a's, or not at all.        *)
Mech(kind, q, to, out) == [kind |-> kind, q |-> q, to |-> to, out |-> out]
Include(d) == Mech("include", "pass", d, <<>>)
UpToTwo(S) == {<<>>} \union {<<x>> : x \in S} \union {<<x, y>> : x, y \in S}
Records(mechs, redirects) ==
    {[text |-> "spf", mechs |-> ms, redirect |-> r] : ms \in UpToTwo(mechs), r \in redirects}
NoRecord == {[text |-> t, mechs |-> <<>>, redirect |-> "none"] : t \in {"none", "error", "bad"}}

OfA == Records({Mech("all", "fail", "a", <<"match">>), Mech("ip", "pass", "a", <<"no">>),
                Mech("a", "pass", "a", <<"many">>), Mech("mx", "pass", "a", <<"error", "match">>),
                Mech("ptr", "softfail", "a", <<"error", "match">>), Include("a"), Include("b")},
               {"none", "b"})
OfB == NoRecord \union
       Records({Mech("all", "fail", "a", <<"match">>), Mech("a", "pass", "a", <<"match">>), Include("a")},
               {"none", "a"})

Resolved == {[d \in {"a", "b"} |-> IF d = "a" THEN x ELSE y] : x \in OfA, y \in OfB}

SenderIn ==
    [Domains |-> {"a", "b"}, Start |-> "a", LIMIT |-> 2, Enabled |-> {<<"mail", "fail">>},
     Zones |-> Resolved]

-----------------------------------------------------------------------------
DeniedIn ==
    [Orders |-> {<<"x", "delay_deny">>, <<"delay_deny", "x">>, <<"x", "karma">>, <<"karma", "x">>,
                 <<"x", "delay_deny", "karma">>},
     MaxRcpt |-> 2, MaxDenials |-> 4, MaxCommands |-> 3, Negative |-> 1,
     deny_hooks |-> {"ehlo", "data", "data_post"},
     recipients |-> [bad |-> 1, neutral |-> 2, good |-> 2], excluded |-> FALSE]

RatesIn == [Conns |-> {1, 2}, Limit |-> 1, Keys |-> {"k1", "k2"},
            MaxResets |-> 1, MaxReloads |-> 1, MaxRedisErrors |-> 1]

(* Two signups; and one browser's form while another account is made.      *)
SignupIn == [Browsers |-> {"b1", "b2"}, Emails |-> {"e1", "e2"}, Aliases |-> {"x"}, Reserved |-> {},
             MaxUsers |-> 2, MaxTyped |-> [b1 |-> 0, b2 |-> 0], MaxRestarts |-> 1]

FormIn == [Browsers |-> {"b1", "b2"}, Emails |-> {"e1"}, Aliases |-> {"x", "y"}, Reserved |-> {"y"},
           MaxUsers |-> 1, MaxTyped |-> [b1 |-> 3, b2 |-> 0], MaxRestarts |-> 0]

(* Queue files of two earlier processes, two workers, and two that replace *)
(* them; and a process alone.                                              *)
LoaderIn == [Mails |-> 1..2, Old |-> {1, 2}, Workers |-> <<3, 4>>, Spare |-> {5, 6}, EarlyMail |-> FALSE]

AloneIn == [Mails |-> 1..2, Old |-> {1, 2}, Workers |-> <<3>>, Spare |-> {}, EarlyMail |-> FALSE]

RcptsIn == [Price |-> [ann |-> 2, bob |-> 1, eve |-> 0], Clients |-> {"outside", "auth"},
            Kinds |-> {"special", "noreply", "other"}, MaxRcpt |-> 3, InTime |-> TRUE]

=============================================================================
