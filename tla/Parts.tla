------------------------------- MODULE Parts --------------------------------
(***************************************************************************)
(* The components that work alone, side by side: each behaviour is one of  *)
(* a single part, chosen at the start.  The part's variables are the first *)
(* of v1, v2, ...; those it has no use for stay 0.  The constants of a     *)
(* part are the fields of one record, named as in its module.              *)
(***************************************************************************)
EXTENDS Integers, Sequences, FiniteSets

CONSTANTS hooks, stream, timers, config, lists, checks, p0f, scan, sender, denied, rates,
          signups, form, loader, alone, rcpts

VARIABLES part, v1, v2, v3, v4, v5, v6, v7, v8, v9, v10, v11, v12, v13

state == <<part, v1, v2, v3, v4, v5, v6, v7, v8, v9, v10, v11, v12, v13>>

Hooks == INSTANCE PluginHooks WITH
    Registered <- hooks.Registered, Answers <- hooks.Answers,
    TimesOut <- hooks.TimesOut, Late <- hooks.Late, MaxRuns <- hooks.MaxRuns,
    object <- v1

Stream == INSTANCE MessageStream WITH
    MaxChunks <- stream.MaxChunks, SpoolAfter <- stream.SpoolAfter,
    MaxPipes <- stream.MaxPipes, buffer_max <- v1, given <- v2, ms <- v3

Timers == INSTANCE TimerQueue WITH
    Delays <- timers.Delays, MaxAdds <- timers.MaxAdds, MaxTime <- timers.MaxTime,
    MaxBack <- timers.MaxBack, queue <- v1, loop <- v2, clock <- v3, added <- v4,
    ran <- v5, backs <- v6, thrown <- v7

Config == INSTANCE Configuration WITH
    Readers <- config.Readers, options <- config.options, cb <- config.cb,
    MaxEdits <- config.MaxEdits, disk <- v1, events <- v2, _read_args <- v3,
    _config_cache <- v4, copy <- v5, readers <- v6, edits <- v7, running <- v8

Lists == INSTANCE DnsLists WITH
    Zones <- lists.Zones, Lookups <- lists.Lookups, Searches <- lists.Searches,
    MaxChecks <- lists.MaxChecks, MaxReloads <- lists.MaxReloads, search <- v1,
    sick <- v2, listed <- v3, zones <- v4, disabled <- v5, disable_allowed <- v6,
    lk <- v7, probe <- v8, checks <- v9, reloads <- v10

Checks == INSTANCE DnsChecks WITH
    Plugins <- checks.Plugins, NNames <- checks.NNames, NGroups <- checks.NGroups,
    plugin <- v1, dns <- v2, ini <- v3, cfg <- v4, call <- v5

P0f == INSTANCE P0fClient WITH
    Queries <- p0f.Queries, MaxErrors <- p0f.MaxErrors, client <- v1, sock <- v2,
    daemon <- v3, hook <- v4, errors <- v5

Scan == INSTANCE ContentScan WITH
    Plugins <- scan.Plugins, Messages <- scan.Messages, NHosts <- scan.NHosts,
    plugin <- v1, bad <- v2, txn <- v3, scan <- v4, answer <- v5, marks <- v6

Sender == INSTANCE Spf WITH
    Domains <- sender.Domains, Start <- sender.Start, Zones <- sender.Zones,
    LIMIT <- sender.LIMIT, Enabled <- sender.Enabled, zone <- v1, scope <- v2,
    been_there <- v3, count <- v4, chain <- v5, call <- v6, asks <- v7, said <- v8,
    answer <- v9, texts <- v10

Denied == INSTANCE Denials WITH
    Orders <- denied.Orders, MaxRcpt <- denied.MaxRcpt,
    MaxDenials <- denied.MaxDenials, MaxCommands <- denied.MaxCommands,
    Negative <- denied.Negative, deny_hooks <- denied.deny_hooks,
    recipients <- denied.recipients, excluded <- denied.excluded, order <- v1,
    hook <- v2, i <- v3, denial <- v4, j <- v5, score <- v6, todo <- v7, pre <- v8,
    txn <- v9, relaying <- v10, rcpt <- v11, denials <- v12, commands <- v13

Rates == INSTANCE Reputation WITH
    Conns <- rates.Conns, Limit <- rates.Limit, Keys <- rates.Keys,
    MaxResets <- rates.MaxResets, MaxReloads <- rates.MaxReloads,
    MaxRedisErrors <- rates.MaxRedisErrors, at <- v1, read <- v2, refused <- v3,
    concurrent <- v4, record <- v5, snotes <- v6, key <- v7, rate <- v8,
    lost <- v9, resets <- v10, reloads <- v11, errors <- v12

(* Two accounts made at once, and the form of one.                         *)
Signup == INSTANCE Accounts WITH
    Browsers <- signups.Browsers, Emails <- signups.Emails,
    Aliases <- signups.Aliases, Reserved <- signups.Reserved,
    MaxUsers <- signups.MaxUsers, MaxTyped <- signups.MaxTyped,
    MaxRestarts <- signups.MaxRestarts, users <- v1, text <- v2, status <- v3,
    debounce <- v4, checkSeq <- v5, calls <- v6, typed <- v7, method <- v8,
    me <- v9, told <- v10, restarts <- v11

Form == INSTANCE Accounts WITH
    Browsers <- form.Browsers, Emails <- form.Emails, Aliases <- form.Aliases,
    Reserved <- form.Reserved, MaxUsers <- form.MaxUsers,
    MaxTyped <- form.MaxTyped, MaxRestarts <- form.MaxRestarts, users <- v1,
    text <- v2, status <- v3, debounce <- v4, checkSeq <- v5, calls <- v6,
    typed <- v7, method <- v8, me <- v9, told <- v10, restarts <- v11

(* A cluster, and a process alone.                                         *)
Loader == INSTANCE QueueLoader WITH
    Mails <- loader.Mails, Old <- loader.Old, Workers <- loader.Workers,
    Spare <- loader.Spare, EarlyMail <- loader.EarlyMail, file <- v1, told <- v2,
    proc <- v3, messages <- v4, ops <- v5, items <- v6, dropped <- v7

Alone == INSTANCE QueueLoader WITH
    Mails <- alone.Mails, Old <- alone.Old, Workers <- alone.Workers,
    Spare <- alone.Spare, EarlyMail <- alone.EarlyMail, file <- v1, told <- v2,
    proc <- v3, messages <- v4, ops <- v5, items <- v6, dropped <- v7

Recipients == INSTANCE RecipientPlugins WITH
    Price <- rcpts.Price, Clients <- rcpts.Clients, Kinds <- rcpts.Kinds,
    MaxRcpt <- rcpts.MaxRcpt, InTime <- rcpts.InTime, running <- v1, conn <- v2,
    txn <- v3, lookups <- v4, queue <- v5, invoices <- v6, forwarded <- v7

-----------------------------------------------------------------------------
(* The constants.  The plugins looked at are those of the modules; no user *)
(* has the name of an address of the site (web/server/signup.js:5).        *)
HooksAssumed ==
    /\ hooks.Registered \in [Hooks!Hooks -> Nat]
    /\ hooks.Answers \in [Hooks!Hooks -> SUBSET Hooks!Replies]
TimersAssumed == timers.Delays \subseteq Nat
ConfigAssumed == "none" \notin config.Readers /\ config.cb \in [config.Readers -> BOOLEAN]
ListsAssumed == IsFiniteSet(lists.Zones)
ChecksAssumed ==
    /\ checks.Plugins \subseteq Checks!AllPlugins
    /\ checks.NNames \in Nat /\ checks.NGroups \in Nat \ {0}
ScanAssumed ==
    /\ scan.Plugins \subseteq {"clamd", "avg", "spamassassin", "messagesniffer"}
    /\ scan.Messages \subseteq Nat \ {0} /\ scan.NHosts \in Nat
SenderAssumed ==
    /\ sender.Start \in sender.Domains /\ "none" \notin sender.Domains
    /\ sender.LIMIT \in Int
    /\ sender.Zones \subseteq [sender.Domains -> Sender!Record]
PluginNames == {"x", "delay_deny", "karma"}
DenialsAssumed == denied.Orders \subseteq Seq(PluginNames) \ {<<>>} /\ denied.Negative \in Int
RatesAssumed == IsFiniteSet(rates.Conns)
RecipientsAssumed ==
    /\ rcpts.Price \in [Recipients!Users -> Nat]
    /\ {"none", "special", "noreply"} \cap Recipients!Users = {}
    /\ rcpts.Kinds \subseteq {"special", "noreply", "other"}

ASSUME Constants ==
    /\ HooksAssumed /\ TimersAssumed /\ ConfigAssumed /\ ListsAssumed /\ ChecksAssumed
    /\ ScanAssumed /\ SenderAssumed /\ DenialsAssumed /\ RatesAssumed
    /\ RecipientsAssumed

-----------------------------------------------------------------------------
(* The variables after the nth stay 0.                                     *)
Unused12 == v13 = 0
Unused11 == v12 = 0 /\ Unused12
Unused10 == v11 = 0 /\ Unused11
Unused8  == v9 = 0 /\ v10 = 0 /\ Unused10
Unused7  == v8 = 0 /\ Unused8
Unused6  == v7 = 0 /\ Unused7
Unused5  == v6 = 0 /\ Unused6
Unused3  == v4 = 0 /\ v5 = 0 /\ Unused5
Unused1  == v2 = 0 /\ v3 = 0 /\ Unused3

Init ==
    \/ part = "hooks"   /\ Hooks!Init  /\ Unused1
    \/ part = "stream"  /\ Stream!Init /\ Unused3
    \/ part = "timers"  /\ Timers!Init /\ Unused7
    \/ part = "config"  /\ Config!Init /\ Unused8
    \/ part = "lists"   /\ Lists!Init  /\ Unused10
    \/ part = "checks"  /\ Checks!Init /\ Unused5
    \/ part = "p0f"     /\ P0f!Init    /\ Unused5
    \/ part = "scan"    /\ Scan!Init   /\ Unused6
    \/ part = "spf"     /\ Sender!Init /\ Unused10
    \/ part = "denials" /\ Denied!Init
    \/ part = "rates"   /\ Rates!Init  /\ Unused12
    \/ part = "signup"  /\ Signup!Init /\ Unused11
    \/ part = "form"    /\ Form!Init   /\ Unused11
    \/ part = "loader"  /\ Loader!Init /\ Unused7
    \/ part = "alone"   /\ Alone!Init  /\ Unused7
    \/ part = "rcpts"   /\ Recipients!Init /\ Unused7

After12 == UNCHANGED <<part, v13>>
After11 == UNCHANGED v12 /\ After12
After10 == UNCHANGED v11 /\ After11
After8  == UNCHANGED <<v9, v10>> /\ After10
After7  == UNCHANGED v8 /\ After8
After6  == UNCHANGED v7 /\ After7
After5  == UNCHANGED v6 /\ After6
After3  == UNCHANGED <<v4, v5>> /\ After5
After1  == UNCHANGED <<v2, v3>> /\ After3

Next ==
    \/ part = "hooks" /\ Hooks!Next /\ After1
    \/ part = "stream" /\ Stream!Next /\ After3
    \/ part = "timers" /\ Timers!Next /\ After7
    \/ part = "config" /\ Config!Next /\ After8
    \/ part = "lists" /\ Lists!Next /\ After10
    \/ part = "checks" /\ Checks!Next /\ After5
    \/ part = "p0f" /\ P0f!Next /\ After5
    \/ part = "scan" /\ Scan!Next /\ After6
    \/ part = "spf" /\ Sender!Next /\ After10
    \/ part = "denials" /\ Denied!Next /\ UNCHANGED part
    \/ part = "rates" /\ Rates!Next /\ After12
    \/ part = "signup" /\ Signup!Next /\ After11
    \/ part = "form" /\ Form!Next /\ After11
    \/ part = "loader" /\ Loader!Next /\ After7
    \/ part = "alone" /\ Alone!Next /\ After7
    \/ part = "rcpts" /\ Recipients!Next /\ After7

Spec == Init /\ [][Next]_state

(* Plugins answer or are timed out; the disk, the resolvers, timers and    *)
(* replies do in the end what is asked of them.                            *)
FairSpec ==
    /\ Spec
    /\ WF_state(\/ part = "hooks" /\ Hooks!Awaited /\ After1
                \/ part = "stream" /\ (Stream!ws_open \/ Stream!ws_drain \/ Stream!ws_error) /\ After3
                \/ part = "timers" /\ Timers!fire /\ After7
                \/ part = "checks" /\ Checks!timeout /\ After5
                \/ part = "spf" /\ (Sender!answered \/ Sender!chain_caller \/ Sender!chain_result) /\ After10
                \/ part = "rates" /\ Rates!expire /\ After12
                \/ part = "rcpts" /\ Recipients!Onward /\ After7)
    /\ WF_state(\/ part = "stream" /\ (Stream!rs_data \/ Stream!rs_end) /\ After3
                \/ part = "timers" /\ (Timers!callback \/ Timers!finish) /\ After7)
    /\ WF_state(\/ part = "stream" /\ Stream!resume /\ After3
                \/ part = "timers" /\ Timers!tick /\ After7)
    /\ \A b \in form.Browsers :
          WF_state(part = "form" /\ (Form!handler(b) \/ Form!reply(b)) /\ After11)

-----------------------------------------------------------------------------
(* The properties of the parts; what they mean is said in their modules.   *)

(* One plugin's function works for a connection at a time, the one that    *)
(* was registered for the hook, in turn.                                   *)
RunsInTurn == part = "hooks" => Hooks!OneAtATime /\ Hooks!RightFunction

(* A reader of a message is given all of it, and data_post is run once,    *)
(* when it is complete.                                                    *)
WholeMessage ==
    part = "stream" => Stream!WholeMessage /\ Stream!EndsOnce /\ Stream!FileIsRemoved

(* Waiting mails keep the order of their times, and none gets lost.        *)
InOrder == part = "timers" => Timers!InOrder /\ Timers!NoneLost

(* What is cached of a configuration file is what it holds.                *)
ConfigIsCurrent == part = "config" => Config!Current

(* docs/Config.md:33-35: a reader's callback "will be called when an       *)
(* update is detected on the file".                                        *)
EveryReaderIsTold == part = "config" => Config!EveryReaderIsTold

(* The verdict on a client, a sender or a message follows from what the    *)
(* DNS or a daemon said of it, in whatever order and however late.         *)
VerdictIsJustified ==
    /\ part = "lists"  => Lists!UnchangedIsDecided
    /\ part = "checks" => Checks!OrderDoesNotMatter
    /\ part = "p0f"    => P0f!WaitingIsQueued
    /\ part = "scan"   => Scan!VerdictIsJustified /\ Scan!OwnResults /\ Scan!FileIsRemoved
    /\ part = "spf"    => /\ Sender!JudgedRight /\ Sender!ToldOnce
                         /\ Sender!FetchedOnce /\ Sender!RefusedForResult

(* Counters of open connections count open connections, and a sender whose *)
(* commands were denied too often has no message queued.                   *)
SenderIsJudged ==
    /\ part = "rates"   => Rates!CountsOpenOnly /\ Rates!LimitCountsOpen
    /\ part = "denials" => Denied!DeniedOftenNotQueued

(* No two accounts share an alias or an address, and no two processes a    *)
(* queue file; every file of the queue is somebody's.                      *)
OwnedOnce ==
    /\ part = "signup" => Signup!OwnAlias
    /\ part = "loader" => Loader!OneOwner /\ Loader!Kept /\ Loader!NothingStranded
    /\ part = "alone"  => Alone!OneOwner /\ Alone!Kept /\ Alone!NothingStranded

(* Each user among a mail's recipients sets the price of what he gets, and *)
(* nobody else is paid for it.                                             *)
RecipientsPaid ==
    part = "rcpts" => /\ Recipients!PricedByOwn /\ Recipients!InvoiceIsForRecipient
                      /\ Recipients!LoopServes

(* A hook is answered once, and a command only while its client is there;  *)
(* a reader of a message is turned away only while another is served.      *)
AnsweredInTime ==
    [][/\ part = "hooks"  => Hooks!AnswersInTime
       /\ part = "stream" => Stream!TurnedAway]_state

(* What was put off is not forgotten: a denial that delay_deny keeps, the  *)
(* query p0f answers next, a list that was taken out of use, a timer whose *)
(* time has not come.                                                      *)
NothingForgotten ==
    [][/\ part = "denials" => Denied!AcceptedUndenied
       /\ part = "p0f"     => P0f!KeptInStep
       /\ part = "lists"   => Lists!RestoredByCheck
       /\ part = "timers"  => Timers!InTime]_state

(* Hooks, messages, readers, lookups and senders over a limit do not wait  *)
(* for ever; a check of SPF, a form, the timers and a mail that comes back *)
(* to its own server come to rest.                                         *)
Waits ==
    \/ part = "hooks"  /\ Hooks!Asked
    \/ part = "stream" /\ Stream!Received
    \/ part = "checks" /\ Checks!Called
    \/ part = "rates"  /\ Rates!OverLimit
Served ==
    \/ part = "hooks"  /\ Hooks!Replied
    \/ part = "stream" /\ Stream!HandedOn
    \/ part = "checks" /\ Checks!Answered
    \/ part = "rates"  /\ Rates!Passed
WaitsToEnd ==
    \/ part = "hooks"  /\ Hooks!Leaving
    \/ part = "stream" /\ Stream!BeingRead
Ended ==
    \/ part = "hooks"  /\ Hooks!Left
    \/ part = "stream" /\ Stream!ReadToTheEnd
AtRest ==
    /\ part = "spf"    => Sender!Over
    /\ part = "form"   => Form!AboutItsText
    /\ part = "timers" => Timers!NoneDue
    /\ part = "rcpts"  => Recipients!AllGone

Finishes == (Waits ~> Served) /\ (WaitsToEnd ~> Ended) /\ <>[]AtRest
=============================================================================
