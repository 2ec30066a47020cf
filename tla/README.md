# TLA+ models of wrte

wrte puts a price on an e-mail address. A mail to a wrte address is held by a
(patched) Haraka SMTP server until its sender has paid an invoice on a web
site; then it is forwarded by Haraka's outbound queue. This directory holds
TLA+ specifications of that system, the TLC configurations that check them on
small instances, and theorems about them that TLAPS checks for every instance.

To check a model: `tlc -config <cfg> <module>`; the table below names the pairs.
To check the proofs: `tlapm M_proofs.tla` for each module `M_proofs`; the longest (`Parts_proofs`,
`SmtpClientPool_proofs`, `Verdicts_proofs`) take about a quarter of an hour each the first time.

## The system

| Component | Source (under `src/`) | State it keeps | Operations | What makes it correct |
|---|---|---|---|---|
| Outbound queue | `haraka/outbound.js` | queue files, `HMailItem`s with a reference count, `delivery_queue` slots, `temp_fail_queue` | accept, load, send, defer, split, bounce, discard | no recipient lost, served twice or told a lie; slots and files are given back |
| Delivery attempt | `haraka/outbound.js` (`try_deliver*`), `line_socket.js` | MX list, sockets and the closure of each, three recipient lists | resolve, connect, the SMTP/LMTP dialogue, timeout, next host | one owner of the mail at any moment, one verdict per recipient, it ends |
| Paywall | `haraka/plugins/bitcoin.js`, `web/server/invoice.js` | invoice status in MongoDB, a cached copy in the mail server, notes in the queue file, browser sessions | create, poll, hold, decide, open, charge | unpaid mail is not sent, paid mail is, nobody pays twice |
| Plugin hooks | `haraka/plugins.js` | `hooks_to_run`, `current_hook`, `saved_hooks_to_run` of one connection or `HMailItem` | run, answer, time out, cancel | each hook is answered once, by the plugin that was asked |
| SMTP connection | `haraka/connection.js`, `transaction.js` | `state`, buffered input, the transaction | commands, DATA, responses of the hooks, disconnect | replies in order, never stuck, no use of a transaction that is gone |
| Timer queue | `haraka/timer_queue.js` | a sorted list of callbacks | add, fire, drain | fires once, in order, not early |
| Server and cluster | `haraka/server.js`, `haraka.js` | listeners, workers, claims of queue files | start, fork, replace a dead worker | each queue file has one owner, and every accepted mail |
| Message stream | `haraka/messagestream.js`, `chunkemitter.js`, `attachment_stream.js` | chunks in memory or in a spool file, one reader | add, pipe, pause, resume | the reader gets every byte once, in order |
| SMTP client pool | `haraka/smtp_client.js` | pooled connections and their owner | get, command, release, destroy | a connection serves one transaction |
| Web accounts | `web/server/{signup,login,dashboard,admin,stripe}.js`, `web/lib/` | users, e-mail tokens, validation calls | sign up, confirm, log in, change, remove | one account per alias and address; a token is spent once |
| Recipients of a mail | `haraka/plugins/wrte.js`, `bitcoin.js` | `transaction.rcpt_to`, `notes.user` | look up, replace, price, loop back | each user sets the price of what he gets |
| Lookup plugins | `haraka/plugins/dns_list_base.js`, `data.uribl.js`, `connect.p0f.js`, `spf.js`, ... | queries under way, lists in use, a queue of queries | ask many, answer once | the verdict follows from the answers, in whatever order |
| Scanner plugins | `haraka/plugins/clamd.js`, `spamassassin.js`, ... | a socket and a temporary file per message | scan, time out | a verdict is about its own message, files are removed |
| Denials, reputation | `haraka/plugins/{delay_deny,karma,rate_limit}.js` | postponed denials, scores, counts in redis | postpone, overrule, count | a denial is not forgotten, a count is of open connections |
| Configuration | `haraka/config.js`, `configfile.js` | a cache, the last arguments per file, a watcher | read, reload, override | readers have what the file holds |
| Result store, access plugins, TLS, utilities | `haraka/result_store.js`, `plugins/access.js`, `tls_socket.js`, `address.js`, ... | | | not modelled, see below |

How they interact. A client's commands drive `connection.js`, which runs hooks
of `plugins.js`; `plugins/bitcoin.js` answers `data_post` by creating an invoice
in the database it shares with the web server, and the connection then hands
the message to `outbound.send_trans_email`. From there a queue file and an
`HMailItem` per domain live on their own: callbacks of hooks, disk, timers and
sockets act on shared fields of the item. The `send_email` hook asks
`bitcoin.js` again, which holds the mail (`DELAY`), lets it pass, or stops it
(`STOP`). The web server and the mail server share only the status field of
the invoice; neither locks it.

What is hard about it. All of it is callbacks on one thread, so each step is
atomic and everything between two steps is not: an object is used by several
callbacks whose number only a counter knows (`HMailItem.refcount`); a status is
read before a database or provider call and written after it; a plugin answers
after its timeout; a socket times out, closes and answers late; a file is
renamed, copied and unlinked with crashes in between. PROJECT.json lists these
under `hazards`, each at its line.

## The modules

### OutboundQueue (core)

One message, from `send_trans_email` to the last unlink. Queue files are
numbered in the order they are made. `file[i]` is the file on disk, `rcpts[i]`
and `diskFails[i]` what its todo block and its name say, `hm[i]` the `HMailItem`
in memory: `pc` is the main line of its callbacks (queued, `send`, the three
hooks, the session, the rename, the timer), `ref` is `refcount`, `cb` says whether
`next_cb` is the worker's callback and still unused, `dh`, `bh`, `bq`, `fail`,
`bnc` are the callbacks that run beside the main line: delivered hooks, bounce
hooks, bounces being queued, and the two splits.

Actions bear the names of the functions whose callback they are
(`deferred_respond`, `bounce_respond`, `split_failed`, ...); `requeue` is the
callback of the `fs.rename` in `deferred_respond`. Operators `Discarded`,
`Bounced`, `TempFailed`, `HandFailed`, `HandBounced` are the functions called
inside a step: `discard`, `bounce`, `temp_fail` and the two halves of
`finish_processing_mail`. `fs.unlink` is asynchronous, so a file is `unlinking`
first. `crash` empties memory; an unlink on its way may have happened or not;
`load_queue` starts again from the files.

Abstracted: time (a timer may fire at any moment, as `flush_queue` makes it),
the text of bounces (the bounce is a new message whose queueing succeeds or
fails), MX lists (get_mx either gives a list, fails for now, or fails), the
session (ends with a reply per recipient).

### DeliveryAttempt and OutboundSession

`OutboundSession` is one attempt: the MX list and the addresses of the current
MX, a record per socket with the variables of `try_deliver_host`'s closure
(`processing_mail`, `command`, `recip_index`, the three lists), and two facts
about the server that the client cannot see: which recipients it `owed` a reply
and which it has `taken` the mail for. `DeliveryAttempt` is the contract the
queue builds on; `ImplementsAttempt` is the refinement, with `outcome` computed
from the ends the attempt reached (a second end would have no counterpart).

### Paywall

One mail and its invoice. `status` is the field in the database, `cache` the copy
in `plugin.invoices`, `file[f].notes` and `file[f].saved` the note in memory and in
the queue file, `session` the browser sessions with the calls they have under
way. Reads and writes of `status` are separate steps wherever the code has a
callback between them (`publish` / `publish_write`, `invoice_charge` /
`charge_answer` / `charge_write`, `hook_send_email` / `timeout_pay_written`). The
clock ticks in steps of the order of a timeout. With `Prompt = FALSE` it ticks at any
moment, between a read and its write too; `paywall_dropped` has `Prompt = TRUE`, to
show that its race needs nobody to be slow.

The provider's answer `lost` stands for a charge that was made but whose answer
did not arrive. `hook_timeout` is what `plugins.js` does when the update in
`hook_send_email` takes longer than `plugin_timeout`: it answers DENYSOFT, which
`send_email_respond` does not tell from leave to send.

### PluginHooks

The hooks of one connection. `object` has the fields `run_hooks` and
`run_next_hook` keep on it (`hooks_to_run`, `saved_hooks_to_run`, `current_hook`,
`deny_respond`); `calls` are the closures of `run_next_hook`, each with its flags
(`called_once`, `cancelled`, an armed timeout, how often the plugin may still call
back); `runs` are the calls of `run_hooks` and how often their respond method was
called. The functions are operators from one state of the object to the next, named
as in the code, and an action is a plugin's answer or its timeout, a command, RSET,
or a client that closes. The hooks of all commands are one hook, `main`.

Every rejection goes through the deny hook, and `deny_respond` calls the respond method
without `params`: the operator `respond` has an argument for that, since the
callback of a reset is in `params`.


### SmtpConnection

One connection. `conn` has the fields of the `Connection` object; `hooks` are the
calls whose plugin has not called back and, as `dns`, `end_data` and `send_email`, the
three other callbacks the connection waits for. `current_hook` is the one that a
disconnect or a reset cancels: `send_email` is not one of them. `client` is what
the client has sent and was told. A data event brings one line; `_process_data`'s while
loop is a step per turn, and no event comes in between (`conn.loop`). The respond
methods and commands are operators with their names; `respond` takes no `func`, its
callers apply what the closure does to its result, as the code does before it goes on
with the buffer.

Abstracted: parsing, reply texts and the message's content. A recipient is the number of
its line. Cancelled calls are forgotten here; what their late callback does to
`current_hook` is in PluginHooks.


### SmtpClientPool

`smtp_client.js` with its pool and the two queue plugins. `cl[k]` is a client as it sees
itself (`state`, `command`, the listeners it has), `wire[k]` the commands upstream has really
not answered and `srv[k]` the envelope upstream has really accepted; the properties
compare the two. `cn[c]` is a sender's connection with the hook that waits. The synchronous listeners of
one event (`on_line`, `forward_ear`, `proxy_ear`, `release`, `destroy`) are operators on the
whole state.

`next()` is no flag: it runs the connection's respond method, whose `respond()` ends in
`_process_data()` (connection.js:493), so that a command the sender has pipelined starts its hook inside
the call, and may set `smtp_client.next`, send a command or put another client into the notes before the
listener that called `next()` goes on. `call_next` therefore takes the state through the answer (`Answer`) and
through the commands that follow (`process_data`, `Run`), and the listeners go on with what they find: `on_line`
with the command as it is then (`bad_code`), smtp_proxy's listeners with the notes as they are then. What is
pipelined behind a command (`ahead`) is chosen with each line from upstream, two commands at most; commands
that come when no hook is in their way are the action `command`.

`slipped` marks a client that cannot be expected to be in step any more: it went back to the pool with a reply or
half a message under way, it was given to a second connection, or a hook was answered while upstream still owed
the client a reply. What comes of it is excepted from `InStep`, `OneEnvelope`, `TellsTruth` and in part from
`KeepsHooks`; that it happens is shown by `NoReuseMidData` and `ErrorsPassedBack` (other limits). The last of the three is
the pipelining case: the refusal of one RCPT goes to a hook whose sender has pipelined another; the second RCPT is sent inside
the call, and `on_line` then takes the refusal, which it has in hand, for the second's reply (smtp_client.js:75-104). From
there on replies are off by one.

### MessageStream, TimerQueue, Configuration

`MessageStream`: `ms` has the fields of the stream; chunks are numbered and measured in units
of half a chunk; the spool file opens, drains and fails in steps of its own. A reader resumes,
pauses, or closes its end.

`TimerQueue`: `add`, `cancel`, and the two loops `fire` and `drain`, followed callback by
callback, since a callback may add; the clock may be set back.

`Configuration`: the file `f`, a JSON file `j` that may override it, the cache by key, and
`_read_args`, which has room for one reader. `copy[r]` is what a reader has in hand.

### DnsLists, DnsChecks, P0fClient, Spf

`DnsLists`: the lookups of `dns_list_base.js` with the two closures of `async.each`, whose
array `disable_zone` shortens under way; the periodic check; reloads.
`DnsChecks`: four plugins in one pattern: what the name servers hold is chosen at the start, answers come
in any order or never, and the verdict is compared with the one on all the records at once.
`P0fClient`: two queues and a daemon that answers in order.
`Spf`: a check is a stack of callback chains (`chain`), the callback that runs (`call`) and the lookups
that are out (`asks`). `Judged` is a definition of what SPF says of a record, given what it says of those referred to, against which a whole
check is compared, of a sender whose record refers to records that refer to no other.

### ContentScan, Denials, Reputation, Accounts

`ContentScan`: the closure of each `data_post`, which may outlive its hook and its message.
`Denials`: one connection through all hooks, with `delay_deny` and `karma` in any order of
`config/plugins`; `denial` is the denial the deny hook is about. A denied EHLO leaves the connection open and not greeted
(`greet`), as `ehlo_respond` does; `denydisconnect` is not among x's answers.
`Reputation`: an address whose connections come and go between redis's answers. `rate_limit`'s `register()` runs before its
`hook_` methods are registered (plugins.js:186-195), so `hook_connect` counts the connection first and looks at the rate of one
that is let in; every connection that ends is taken off.
`Accounts`: methods of two browsers that interleave at every access of the database,
with the form's debounced validation calls; a restart sends a call again.

### QueueLoader

Who works on which queue file. `file[m]` is where a mail's file is and the pid in its name,
`messages[p]` the pids a process was told to load, `ops[p]` the renames and unlinks that a read
of the directory has started, `items` the `HMailItem`s in memory. A worker may die at any
moment, between its renames too; `dropped` notes the pids whose loader died, which nobody
is told to load before the next start of the server.

### RecipientPlugins

One mail through `wrte.js` and `data_post` of `bitcoin.js`, and back: what is left for wrte addresses
after the forwarding comes in again from 127.0.0.1, a connection with `from = "local"`. `lookups` are the
`findOne` calls, which outlive hook and connection; `notes.user` is `txn.user`. `white` says that the site's
whitelist has the host of the sender: his mail passes without an invoice (bitcoin.js:49), and `PricedByOwn` excepts it.
`Paywall` takes over where a mail with a price is queued.

### Parts

The parts that interact only through what the others take as any answer are checked in one
run: `part` is chosen at the start, the part's variables are the first of `v1` ... `v13`, and each
behaviour is one of a single part. It is a disjoint sum, not a composition; its properties are
conjunctions of `part = "..." => property`. A part's constants are the fields of one record; `Constants` is
what the proofs assume of them, and what MCParts, which gives them values, is checked against.

## The runs

| Run | Module, cfg | Checks | Shows |
|---|---|---|---|
| `queue_normal` | `MCOutboundQueue`, `OutboundQueue_normal.cfg` | `NoLoss`, `RefCounts`, `NothingForgotten`, `NeverThrows`, `AtMostOnce`, `BounceIsTrue` | One message to three recipients at two hosts, with every answer of servers and plugins: no recipient is lost or served twice, reference counts match the callbacks, no file waits without a timer or a slot, bounces tell the truth. |
| `queue_faults` | `MCOutboundQueue`, `OutboundQueue_faults.cfg` | `NoLoss`, `DeniedNotSent` | Writing a queue file, renaming one or queueing a bounce fails, and a plugin answers DENYSOFT or times out: no recipient disappears silently, and a refused message is not sent. |
| `queue_live` | `MCOutboundQueue`, `OutboundQueue_live.cfg` | `LossInv`, `EventuallySettled` | A bounce message to two recipients, with failing renames and a crash at any point: the reloaded queue is driven as a new one is, and under fair plugins, servers, timers and disk everything is settled, the files are removed and the slots are free. |
| `session` | `MCOutboundSession`, `OutboundSession_session.cfg` | `OneOwner`, `EveryRecipientReported`, `SmtpReportIsTrue`, `ImplementsAttempt`, `EventuallyOver` | An LMTP server, an MX with two addresses and one with none, every reply, timeout and disconnect: one owner of the mail, one verdict per recipient, and the contract of DeliveryAttempt. |
| `paywall` | `Paywall`, `Paywall_paywall.cfg` | `UnpaidNotSent`, `ChargedOnce`, `FailNoticeIsTrue`, `EventuallyDecided` | One mail with a price, one browser session, every answer of the payment provider, a crash of each server, a failing poll and a hook that times out: unpaid mail is not sent, nobody pays twice, and every mail is decided. |
| `connection` | `SmtpConnection`, `SmtpConnection_connection.cfg` | `RepliesInOrder`, `NoStall`, `EnvelopeIsAccepted`, `QueuedIsTold`, `ClosedForGood`, `EventuallyAnswered` | A client that pipelines, waits or is impatient, with every command and every answer of the plugins: replies in order, no stall, and the mail that is queued is the one the client was told of. |
| `pool` | `MCSmtpClientPool`, `SmtpClientPool_pool.cfg` | `InStep`, `OneEnvelope`, `TellsTruth`, `KeepsHooks` | Two senders who pipeline, two messages of two recipients, forwarded or proxied by a pool of one or two open clients (three that anything refers to), with every reply, lost upstreams, senders who leave, and commands that run inside the answer to another: a reply is taken for its own command, one envelope never gets another's recipients, a sender is told what upstream said, and no step loses the answer a hook waits for. |
| `parts` | `MCParts`, `MCParts_parts.cfg` | `RunsInTurn`, `WholeMessage`, `InOrder`, `ConfigIsCurrent`, `VerdictIsJustified`, `SenderIsJudged`, `OwnedOnce`, `RecipientsPaid`, `AnsweredInTime`, `NothingForgotten`, `Finishes` | The components that work alone, one behaviour of one of them at a time: plugin hooks, the message stream, timers, configuration files, DNS lists and checks, p0f, content scanners, SPF, denials, rate counters, sign-up, the loading of queue files by a cluster and the recipients of a paid mail, each with the answers, failures and orders its environment may produce. |

Runs that TLC refutes, each for one property (see the disagreements below):

| Run | Module, cfg | Property | What happens |
|---|---|---|---|
| `queue_denysoft` | `MCOutboundQueue`, `OutboundQueue_denysoft.cfg` | `NothingForgotten` | A deferred hook answers DENYSOFT, as the docs recommend for changing the delay: the mail waits for the next restart, or the process ends. |
| `paywall_dropped` | `Paywall`, `Paywall_dropped.cfg` | `PaidIsForwarded` | The charge is made while the payment timeout drops the mail: the invoice ends as paid and the mail is gone. |
| `stream_spool` | `MessageStream`, `MessageStream_spool.cfg` | `WholeMessage` | spool_after is a whole number of chunks (64 KB) and the store reaches it exactly: chunks go to the file, the rest stays in memory, and a reader gets one of the two. |
| `config_told` | `MCParts`, `MCParts_told.cfg` | `EveryReaderIsTold` | A file is read by a plugin with a callback and then by one without: the first is not called when the file changes. |


### Bounds, and why they are enough

- `queue_normal`: three recipients at two domains. A host with two recipients is
  the smallest that can split, a second domain makes a second file. `MaxItems = 4`:
  two files and one split each; a third split is of a file with one recipient and
  cannot happen, and where the bound stops a split the counts before it were
  checked. Two attempts per file reach both branches of `temp_fail`. One slot is
  enough: slots are only counted.
- `queue_faults` adds every disk fault and the DENYSOFT answer of the deferred hook.
- `queue_live` has one domain, a bounce message (so that a bounce ends in
  `double_bounce` and makes no further message), one crash at any point and one
  DELAY. It gives liveness four items, which its two recipients cannot use up, so
  no step is disabled by the bound.
- `session`: an LMTP server, an MX with two addresses and one with none: every
  way from one host to the next. Two recipients are the least that can differ.
- `paywall`: one file and one session, since the properties speak of one
  sender and of one verdict; one crash of each server, one poll error, one hook
  timeout, one update of the mail server that fails, and a clock that runs past both timeouts at any moment. The
  proof covers the rest.
- `connection`: eight lines with the greeting: a whole message and two lines more,
  pipelined behind it or before it. Two lines fit in the buffer, the least for which
  "last of its group" differs from "first of its group". No plugin on `reset_transaction`
  and `disconnect`, as in the `config/plugins` of the repository.
- `pool`: two senders, and a pool of two open clients, so that a client that was released is taken over
  by the other sender, and a sender whose client is on its way back gets a second one, or of one (`Sizes`), so that
  a call waits for it; a third client, since a destroyed one may still be referred to (its name is free when
  nothing refers to it). Two messages, which may be one sender's, so that a MAIL can be pipelined behind the
  message before. Two recipients, the least in which one is refused and
  one is not, and in which a RCPT is pipelined behind a refused one. Two pipelined commands for each line from upstream: a
  third would follow a command that ended without a hook's waiting, which the action `command` shows as well.
  XCLIENT makes the greeting three commands long. The senders are interchangeable (`Symmetry`). 0.51 million states.
- `parts`: 2.5 million states.
  - hooks: two plugins on a command's hook (one may be left over when the other decides)
    and on disconnect, one on deny and on the reset, three hooks one after the other. A third
    plugin on a hook would be in the place of the second.
  - message stream: three chunks and two readers; limits for none, all, and between chunks. Limits
    that a sum of full chunks meets exactly are in `stream_spool`.
  - timers: three, with delays of 0 to 2 ticks and one step back of the clock.
  - configuration: two readers, the first with a callback and the second without
    (as in `connect.asn.js`), two edits.
  - lookups: two zones, names or groups; three p0f queries, so that half of two or three is
    left; two messages per scanner; two domains in SPF's zones, that may include one another, with
    every pair of mechanisms and a limit of two lookups.
  - denials: two recipients, four denials by other plugins and three EHLO or MAIL commands, in five orders of
    plugins. `negative` is 1, so that four denials are enough to outweigh the awards (`DeniedOftenNotQueued`).
  - rates: two connections and a limit of one. Sign-up: two browsers, one alias, a restart.
  - loader: two files of two dead processes, two workers and two that replace them, so that
    one file may change hands twice; and one process alone.
  - recipients: three users, one of them free, three RCPT commands.

### Fairness

`OutboundQueue!FairSpec`: hooks answer or are timed out (`plugins.js`), servers
answer or the socket times out (`line_socket.js`, `cfg.connect_timeout`), timers
fire, disk calls complete, and the process is restarted. It is weak fairness per
item, as every callback is scheduled once and stays pending. Nothing is assumed of the operator
(`load_config`): the run has `CanDisable = FALSE`. `OutboundSession!FairSpec`: something
happens to the socket in the end, a timeout if nothing else.
`Paywall!FairSpec`: the poll, the queue's work, and calls to the web server that
began go on, and time passes; the sender need not do anything, and crashes and
faults need not happen. `Parts!FairSpec`, part by part: a plugin that is waited for answers or is timed out (hooks); the spool
file opens, drains or fails, and a reader is given data while it listens, and resumes (stream); the
interval fires, callbacks end, time passes (timers); a call's own timer goes off
(DNS checks); DNS lookups are answered or fail (SPF); redis expires keys (rates); the
browser's timer runs and the server replies (form); the database and the queue's client
work (recipients). It is weak fairness of each part's disjunction:
that one of its actions is taken in the end is all that is assumed.
`SmtpConnection!FairSpec`: the event loop turns, timers go off, and strong fairness for
the callbacks, since an early talker's timer makes the loop busy again and again. The client
need not do anything, and the inactivity timeout is not relied on.

### Disagreements between code and documentation

- `NothingForgotten` (`queue_denysoft`, src/haraka/outbound.js:1425). The docs say (src/haraka/docs/Outbound.md:119) "If you want to change the delay, then call `next(DENYSOFT, delay_in_seconds)`."  The answer passes through the deny hook, whose deny_respond (src/haraka/plugins.js:316-322) calls deferred_respond with retval and msg only; deferred_respond then reads params[0] of undefined. The exception is caught in run_next_hook or ends the process; in the first case the item has neither a timer nor a slot to give back and its file waits for the next restart.
- `PaidIsForwarded` (`paywall_dropped`, src/web/server/invoice.js:67). src/web/main.html:75 says "Once payment is verified we forward his message to your personal email", and the page of a paid invoice (src/web/invoice.html:23) "is about to be delivered".  invoice_charge checks the status before it asks the provider and writes 'paid' after, whatever the status is then; haraka/plugins/bitcoin.js:141-175 decides the payment timeout on a cached status and drops the file.  With the timeout between the two, the sender is charged, is told the message was not delivered, and the invoice says paid.
- `WholeMessage` (`stream_spool`, src/haraka/messagestream.js:133). src/haraka/config/smtp.ini:42 says of spool_after "Otherwise specify a size in bytes, once reached the message will be spooled to disk to save memory."  _write sets spooling when buffered is greater than the limit, but goes on to the file unless it is less (line 152): with spool_after = 65536 the first chunk makes the two equal and is written to the file with spooling unset. When the message ends, what is still in the queue counts as all of it (140), and a reader is given the headers and the queue, not the chunks in the file.
- `EveryReaderIsTold` (`config_told`, src/haraka/configfile.js:127). src/haraka/docs/Config.md:33 says "`callback` is an optional callback function that will be called when an update is detected on the file".  read_config keeps one set of arguments per file, those of its last reader: a later config.get without a callback takes the callback away, and the earlier reader keeps what it computed from the old contents. plugins/connect.asn.js does it to itself (load_asn_ini at 44 passes a callback, hook_data_post at 211 none); so do connection.js:175 and plugins/early_talker.js:14 with early_talker.pause.


Other limits that TLC shows when a constant of a run is changed or another property of the module is
checked. They are kept out of the table above because no text of the repository
promises otherwise, or to keep one run per question:

| Module | Refuted | How to reproduce | What happens |
|---|---|---|---|
| OutboundSession | `EveryRecipientReported` | `"251"` in `RcptReplies` | a recipient accepted with another 2xx code is in none of the three lists |
| OutboundSession | `OneOwner` | `OpenEnded = TRUE` | QUIT on a socket that just closed goes on to the next host after the attempt ended |
| OutboundSession | `LmtpReportIsTrue` | `Mxs <- LmtpMxs` | an LMTP failure is recorded for the first accepted recipient, whoever it was about (outbound.js:1134) |
| OutboundQueue | `BounceIsTrue` | `"split"` in `Faults` | the original, which also names recipients who have the mail, is bounced in place of the copy |
| Paywall | `UnpaidNeverSent` | `MaxHookTimeouts = 1` | the hook's timeout sends the mail |
| Paywall | `ChargedOnce` without its guard on sessions | two `Sessions` | two calls read "opened" |
| PluginHooks | `AnswersInTime` | `Late <- TRUE` | a late answer clears `current_hook`, and the plugin that runs is not cancelled |
| PluginHooks | `Leaving ~> Left` | `"reset_transaction"` in `TimesOut` | the timeout loses the callback of the reset, and the disconnect hook never runs |
| SmtpConnection | `ClosedForGood` | `"disconnect"` in `Async` | a late callback answers into the closing connection and reopens it |
| SmtpConnection | `ResetHookFirst` | `"reset_transaction"` in `Async`, `Commands = {"EHLO", "MAIL", "RSET"}` | the next pipelined command overtakes the reset |
| SmtpClientPool | `NoReuseMidData` | as in `pool` | smtp_client.js:165-166 destroys a client in state 'mailbody', but `start_data` sets 'dot' |
| SmtpClientPool | `ErrorsPassedBack` | as in `pool` | upstream refuses a RCPT, the RCPT pipelined behind it is answered with the same line, DATA and the text follow unanswered, and the reply to DATA is taken for the text's: the sender is told OK though upstream never had the message; smtp_proxy.js:3 says that it "passes back any errors seen on the ongoing server" |
| DnsLists | `ListedIsRejected` | as in `parts` | the array shortens, the count meets it early, and a listed client is let in |
| DnsChecks | `DnsErrorsAreTemporary` | as in `parts` | an error for one MX host and no address for another: DENY if so configured |
| P0fClient | `ReceiveQueueCleared`, `OwnFingerprint` | as in `parts` | half of the queue is left, and the next answers go to the wrong connections |
| ContentScan | `AbortsIfGone` | as in `parts` | spamassassin's late answer marks the next message |
| Spf | `OnlyCirclesAreCut` | as in `parts` | a domain included twice without a circle is skipped (spf.js:341, 659) |
| QueueLoader | `LeftOverOnly` | as in `parts` | a worker that loads removes the dot-file another is writing (outbound.js:214); its sender is told DENY |
| QueueLoader | `OneOwner` | `Old` overlapping `Workers`, or one worker with `EarlyMail = TRUE` | a pid used again, or mail accepted before the queue is read: a file has two items |
| RecipientPlugins | `InvoiceIsForRecipient` | `InTime <- FALSE` | the late record of a refused recipient sets the price |
| RecipientPlugins | `Survives` | as in `parts` | the client leaves during the lookup, and the exception ends the process |

What the modules assume of their surroundings, where the code goes wrong outside of it: a configuration file is
not read half-written as JSON (the exception ends the process); p0f's answers come in
whole records; a released SMTP client gets no line that cannot be parsed, and the
configured AUTH type is offered upstream (both throw); a message has at least one line; a list disabled
during a lookup is not enabled again in it; the callback of a mail on DELAY, which adds its timer again,
does so a bounded number of times (`drain` would not end, timer_queue.js:59); rate limits have a default entry.
A worker ends by a signal or an exception: `server.js:162` would not replace one that exits with code 0, which no path of
the code does.

## What is proved

- `OutboundQueue_proofs!TypeCorrect`: `Spec => []TypeOK`, from the two assumptions
  `ItemsAssumption` and `DomainAssumption`.
- `OutboundQueue_proofs!NothingLost`: `RepliesUsed => (Spec => []NoLoss)`, for any
  recipients, domains, number of files, slots, faults and crashes, where
  `RepliesUsed` says that servers answer RCPT with 250, 4xx or 5xx. `NoLoss` is not
  inductive: that every recipient is on disk now does not say that the file
  stays. The invariant is `LossInv`. A file that goes away has only recipients
  that are settled or in a *later* file (`FileInv`, `Safe`: the order on file
  numbers makes the argument well founded, a split only moves recipients to a
  later file). It can go only when the last reference is dropped, and `RefInv`
  says the count is at least the number of callbacks that need the file (of
  several bounces one is enough, since the first to end tells of everybody: after
  a failed split there is one reference for two bounces). `CoverInv` says that an
  item off its main line, with no bounce under way, answers for its recipients
  through its pending splits. `WritingInv` covers the time before the caller is
  answered. TLC checks `LossInv` in `queue_live`.
- `OutboundQueue_proofs!LossInvHolds` states that invariant, which `queue_live` checks.
- Also in `OutboundQueue_proofs`: `Healthy => (Spec => []Inv)` for `RefCounts` (`ExactReferences`),
  `NothingForgotten` (`AllWorkedOn`), `NeverThrows` (`ThrowsNever`), `AtMostOnce` (`DeliveredOnce`) and
  `BounceIsTrue` (`TrueBounces`). `Healthy` is what `queue_normal` runs with: no split and no bounce fails
  to be written, the deferred hook does not answer DENYSOFT, and the sender is not the null sender.
  Failed writes of queue files, failed renames, restarts and all other answers are
  allowed. Each exclusion is a way in which the code does break the count: a failed split bounces the same
  item twice, a bounce that fails ends in `double_bounce`, which removes the file whatever
  its count, and DENYSOFT leaves an item without a callback (findings above). The
  invariant is local to an item and its file, `Sound`: the file is queued exactly if
  something holds it, the count is that number, and a recipient that is to be split off or
  bounced is not also with the main line. `OnePlace` adds what relates two items: a
  recipient pends with one item at most, and with none once it is delivered or told of.
- `OutboundQueue_proofs!RefusedNotSent`: `Spec => []DeniedNotSent`, with no hypothesis. The
  invariant `NotSentYet`: before the first crash, and until the sender has an answer, items are absent or only
  built, and after a refusal they are absent; such an item takes no step (`Inactive`).
- `OutboundSession_proofs`: `Orderly => (Spec => []Inv)` for `OneOwner` (`AlwaysOneOwner`),
  `EveryRecipientReported` (`AlwaysReported`) and `SmtpReportIsTrue` (`SmtpReport`), for any recipients and any
  list of MXs, and `Implementation`: `Orderly => (Spec => ImplementsAttempt)`, the refinement
  of `DeliveryAttempt`. `Orderly` says that servers answer RCPT with 250, 4xx or 5xx
  and do not send a FIN right behind their last reply; without either the properties fail (table
  above). The invariant `Owned` ties `processing_mail` of each socket to what the
  mail waits for, and says of a dialogue that the recipients it has heard of are sorted into
  `ok`, `fail` and `bnc` without repetition, those still owed an answer by an LMTP server included.
- `Paywall_proofs!TypeCorrect` and `Paywall_proofs!PaidOnly`: a mail with a price
  reaches a server only after a charge was made, unless the `send_email` hook
  timed out; for any number of files and sessions, timeouts, crashes and lost
  answers. The invariant `PaidInv` follows "paid" through all its copies: status,
  cache, session, note in memory, note on disk. Each of them implies a charge, and
  a priced file always has a note, so `hook_send_email` never takes it for free
  mail, not even after a restart.
- `Paywall_proofs!OneCharge` and `Paywall_proofs!FailNotices`: `ChargedOnce` and `FailNoticeIsTrue`, with no
  hypothesis. `BoughtInv`: while nothing was charged no status or session says so, and a status that lets a second
  purchase begin is one that the session is about to overwrite. `NoticeInv`: without crashes and hook
  timeouts, a failure was told only of a file that is dropped.
- `SmtpConnection_proofs`: `Plain => (Spec => []Inv)` for `RepliesInOrder` (`InOrder`), `NoStall` (`NeverStalls`),
  `EnvelopeIsAccepted` (`Envelopes`), `QueuedIsTold` (`ToldTrue`) and `TypeOK` (`TypeCorrect`), and
  `Plain => (Spec => ClosedForGood)` (`StaysClosed`), for any number of lines, any size of the buffer, any set of
  commands and both kinds of client. `Plain` says that no plugin handles `reset_transaction` or
  `disconnect`, as in `config/plugins`; with one, the properties fail (table above). The invariant `Good`
  says that a connection is in one of three situations. *Serving*: no hook runs, the lines in the buffer are numbered
  from the first unanswered one, and `loop` is set if there are any. *Asking*: exactly one hook
  runs, it is for the oldest unanswered line, the buffer starts behind that line, and the state is
  one in which `_process_data` takes no line; what is so of the transaction, of the
  accepted recipients and of `told` depends on the hook (`Asked`). *Gone*: `DISCONNECTED`, and what may
  still call back (the resolver, the message stream, `outbound.js`, and the `connect` and `queue_ok` hooks those two
  lead to) finds its way to nothing. `Lasting` says that nothing waits behind DATA or QUIT. The properties
  follow from `Good`; none is inductive by itself.
- `QueueLoader_proofs`: `InSequence => (Spec => []OneOwner)` (`AlwaysOneOwner`) and
  `InSequence => (Spec => [](Kept /\ NothingStranded))` (`AlwaysKept`), the three that Parts has of the loader as
  a part of its `OwnedOnce`. `InSequence` says that pids are natural numbers other than 0, that those of earlier
  processes, of workers and of their successors differ, and that a process alone takes no mail before it has read the
  queue; without it `OneOwner` fails (table above). The invariant `Owned` has two forms. In a cluster the pids being loaded are
  those of processes that will not come back (`Past`), and a mail in memory has its process's pid in its name: a file is
  renamed only away from the dead, so two processes that race for it cannot both find the old name. Alone, every call that is left is
  for a file that is not yet in memory. At the start every pid found is dealt to some worker (`DealtToAll`: an order
  of a finite set without repetitions reaches all of it, FS_Injection).
- `SmtpClientPool_proofs`: `~SlowUpstream => (Spec => []Inv)` for `InStep` (`AlwaysInStep`), `OneEnvelope`
  (`AlwaysOneEnvelope`) and `TellsTruth` (`AlwaysTellsTruth`), for any senders, messages, clients, both plugins and whatever the
  senders pipeline. The hypothesis is what the docs ask for (`plugin_timeout` above the timeouts of the clients): a hook that a client still works
  for does not time out. The invariant `Good` says of a client that was never reused too early nor answered a hook before
  upstream had replied (`Own`) what it is doing:
  *serving* a sender, who if he is still there has a hook that waits for just this client whenever a command is unanswered, and
  upstream's envelope holds nothing but his transaction (`Mailed`); *released*, with only RSET to be answered; or
  *resting*, with upstream's envelope empty. Listeners of a sender who has left may be in front of the present one's
  (`EarsAre`, `LeftOver`): what they do finds a dead sender or a `next` that is used up. `Links` says that a hook's `next` is with
  one client or with one call that waits in the pool, never both; `Pool` that no client is idle twice. In a sender's notes
  is his own client, or, until MAIL has got one, that of his message before (`Settled`). Of a client that
  slipped nothing is known but that it stays marked (`Slip`). An event runs several listeners and may
  end in another sender's hook, by way of the pool; so there is a lemma for each operator that takes the whole state,
  for a client that is gone or marked (`Off...`), for one in hand (`Hand...`) and for one just freed (`Freed...`). A command that was pipelined runs
  inside the answer to another, before the listener that called `next()` goes on: `ProcessGood` says that what
  `process_data` starts keeps `Good`, `Onward` what it leaves of the clients in use, so that the listener's next line still
  finds its client (`Tied`, `ReleasedGood`), and `Early` that a client which answers a hook before upstream has replied
  is marked first. None of the three is inductive by itself.
- `Parts_proofs`, with `Verdicts_proofs`: the properties of `Parts` for any constants that `Constants` allows. Each part has an
  inductive invariant of its own, with a lemma for its Init, one for its Next and one for its properties (those of the plugins
  that judge are in `Verdicts_proofs`); at the end of `Parts_proofs` `OnePartGoes` (a step is one of the part that was chosen)
  puts them together. The loader is an instance of its own proof module. The theorems, with their hypotheses and invariants:

  | Theorem | States | Hypothesis | Invariant |
  |---|---|---|---|
  | `HooksInTurn` | `RunsInTurn` | `Polite`: a plugin calls back once and not after its timeout, and none of the deny hook rejects or is timed out (a late answer clears `current_hook`, see the other limits) | `HooksInv`: at most one call works, and it is the run's `current_hook`; the functions left in `hooks_to_run` (or, during the deny hook, in `saved_hooks_to_run`) are the last of their hook's list, behind those that were called; a run under way has no answer, and one at most waits below the deny hook |
  | `StreamWhole` | `WholeMessage` | `StreamAssumed`: `spool_after` is not a multiple of 64 KB, so that the store never reaches it exactly; when it does, `WholeMessage` fails (`stream_spool`) | `StreamInv`: where the chunks are (`Stored`: in memory, or the first in the file and the rest in memory, and what is in memory is full chunks until the message ends, so that `buffered` can be compared with the limit) and what a reader has got (`Reading`: the headers and the chunks before the position of the read stream; nobody reads before the message is complete). `_write` and `pipe` call each other through the end callback, so each is a lemma about the state it returns (`write_Is`, `Finish_Is`, `pipe_Is`, `body_Is`) |
  | `TimersInOrder`, `FireIsComplete` | `InOrder`; `fire` leaves no timer that was due | | `TimersInv`: the properties, and that ids are those given out; the work is in `SplicedIs` and `InsertedIs` (the place add's loop looks for exists and is the right one, so its last line is never reached) |
  | `ConfigCurrent` | `ConfigIsCurrent` | | `ConfigInv`: nothing of f is cached under options that nobody passed (`Unread`); j stands for f only while it overrides it (`Overridden`); when all pass alike options and no event of f is waiting, what is cached and what the last reader got are current (`UpToDate`) |
  | `VerdictsJustified` | `VerdictIsJustified` | | `ListsInv`: a lookup whose array nobody shortened asked all its zones, and has decided or waits for one; `ChecksInv`: the lookups that wait and those that came back are the names asked (`Asked`), and nothing that came back decides yet (`Known`); `P0fInv`: a hook that waits is in a queue (`WaitsInQueue`), and the daemon is asked for nobody the client does not wait for (`Expected`); `ScanInv`: what a scan has read, marked or removed is its own message's; `SpfInv`: but for a failing MX host there is one thread, a callback to run or a lookup that is out, until the result is told (`Thread`), every chain but the hook's goes back to one of the chains (`ChainsFine`), and for records without circles the chain that runs has tried some first part of its record's mechanisms, none of which decides (`Running`), and the hook's chain waits for it (`Progress`) |
  | `SendersJudged` | `SenderIsJudged` | | `RatesInv`: karma's `concurrent` is at most the number of connections that are open, unless one left early (`NoMoreThanAnswered`, a comparison of cardinalities), and `rate_limit` counts under one key until a reload, at most the connections that it has counted and that are still open (`UnderOneKey`); `DenialsInv`: each denial of another plugin has cost karma's score at least one or will, and its awards give 3 at most (`ScoreKept`), and the score is good when a message is queued (`GoodKarma`), which hook a denial waits for (`Current`), what becomes of the mail (`MailKept`), and that nothing is kept once delay_deny has let the recipient pass (`Undenied`) |
  | `EachOwnedOnce` | `OwnedOnce` | `LoaderAssumed`, `AloneAssumed` (`InSequence` of QueueLoader_proofs) | `SignupInv`: accounts that are not removed differ in address and alias, and the account a running method has written is still its own; `Owned` |
  | `RecipientsArePaid` | `RecipientsPaid` | `rcpts.InTime = TRUE`: the database answers before the plugin timeout | `RecipientsInv`: the lookup waited for is the last recipient's, the user in the notes is that of a recipient who is in the list, and there is one if any recipient is settled; a recipient of a queued mail who has a price is the one the mail is paid to, unless its sender is whitelisted (`Priced`) |
  | `EachAnsweredInTime` | `AnsweredInTime` | `Polite`, `StreamAssumed` | as above |
  | `NoneForgotten` | `NothingForgotten` | | as above |

  `MCParts` gives constants that satisfy all these hypotheses, so what TLC checks there is an instance of what is proved.

Only model-checked: liveness under fairness (`EventuallySettled`, `EventuallyOver`,
`EventuallyDecided`, `EventuallyAnswered`, `Finishes`), which is out of the prover's reach, and `KeepsHooks` of SmtpClientPool. `Good` of SmtpConnection_proofs (seven
lines, a buffer of three, every command), `Owned` of QueueLoader_proofs (the instances of MCParts), `StreamInv` (four chunks, six limits, three readers),
`Good` of SmtpClientPool_proofs (the instance of `pool`) and
the other invariants of Parts_proofs (the instances of MCParts) were model-checked before they were proved, but are not invariants of a run.

## Not modelled, and why

- Parsing and formatting (addresses, headers, MIME, DSNs, configuration files), logging, and the
  rendering of the web client: data or pure I/O.
- `dkim.js`, `tls_socket.js`: cryptography and the plumbing of a stream. OutboundSession has
  the STARTTLS upgrade as a step.
- Access, relay and recipient plugins (`access.js`, `relay.js`, `helo.checks.js`, `bounce.js`, ...): each
  decides on configuration and the text of one command in one call. SmtpConnection takes any answer for theirs.
- `result_store.js`: lists that are added to and read in one step; the modules keep what they need of it.
- karma's table of scores and rate_limit's limits per recipient and message: data and one more counter
  of the kind Reputation has.
- AUTH, PROXY and HELP in `connection.js`; administration and payment tokens of the web site; the watch
  on single files of `configfile.js` (not on Linux); several hooks at once on one `HMailItem`.

## Plan

