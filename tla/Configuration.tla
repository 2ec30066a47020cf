---------------------------- MODULE Configuration ----------------------------
(***************************************************************************)
(* config.js and configfile.js on Linux: the cache of configuration files, *)
(* and the watch on their directory.  One file, "f", is read by several    *)
(* readers (plugins and the server), each with its options and perhaps     *)
(* with a callback, which reads the file again.  A JSON file "j" may       *)
(* override f with an entry "!f".  The server has read smtp.ini, so that   *)
(* the directory is watched from the start.                                *)
(*                                                                         *)
(* A value is what a file held after the nth edit, or what j held for f.   *)
(***************************************************************************)
EXTENDS Naturals, Sequences

CONSTANTS
    Readers,
    options,      \* [Readers -> option objects, or "none"]
    cb,           \* [Readers -> BOOLEAN]: whether it passes a callback
    MaxEdits      \* bound: saves of a file

VARIABLES
    disk,         \* what the files hold
    events,       \* changes inotify has reported and the process not handled
    _read_args,   \* the last reader of f; whether j was read
    _config_cache,\* f's value per cache key, and j's contents
    copy,         \* what each reader has in hand
    readers,      \* those that have read f
    edits,
    running

vars == <<disk, events, _read_args, _config_cache, copy, readers, edits, running>>

None == [from |-> "none", n |-> 0]
Options == {options[r] : r \in Readers} \union {"none"}

Empty == [from |-> "empty", n |-> 0]                  \* a file just truncated
File(n) == [from |-> "f", n |-> n]
Json(n, over) == [over |-> over, n |-> n, cut |-> FALSE]

Init ==
    /\ disk = [f |-> File(0), j |-> Json(0, FALSE)]
    /\ events = <<>>
    /\ _read_args = [f |-> "none", j |-> FALSE]
    /\ _config_cache = [f |-> [o \in Options |-> None], j |-> Json(0, FALSE)]
    /\ copy = [r \in Readers |-> None]
    /\ readers = {}
    /\ edits = 0
    /\ running = TRUE

-----------------------------------------------------------------------------
\* load_config puts what f holds under the key of f and the options.
load_config(cache, o) == [cache EXCEPT !.f[o] = disk.f]

\* config.get by r: it becomes the reader whose arguments are kept for f,
\* and f is loaded only when nothing is cached for its options.
Read(r, cache) == IF cache.f[options[r]] = None THEN load_config(cache, options[r]) ELSE cache
read_config(r, cache) ==
    /\ _config_cache' = Read(r, cache)
    /\ copy' = [copy EXCEPT ![r] = Read(r, cache).f[options[r]]]
    /\ _read_args' = [_read_args EXCEPT !.f = r]
    /\ readers' = readers \union {r}

get(r) ==
    /\ running
    /\ read_config(r, _config_cache)
    /\ UNCHANGED <<disk, events, edits, running>>

\* process_file_overrides: what j overrode is taken out of the cache, under
\* the file's own name, and what it overrides now is put there.
process_file_overrides(cache) ==
    LET f == CASE disk.j.over -> [from |-> "j", n |-> disk.j.n]
               [] ~disk.j.over /\ cache.j.over -> None
               [] OTHER -> cache.f["none"]
    IN  [cache EXCEPT !.f["none"] = f, !.j = disk.j]

\* The first reader of j.  Half a file does not parse: the exception ends
\* the caller's hook (plugins.js).
get_json ==
    /\ running /\ ~_read_args.j
    /\ _read_args' = [_read_args EXCEPT !.j = TRUE]
    /\ _config_cache' = IF disk.j.cut THEN _config_cache ELSE process_file_overrides(_config_cache)
    /\ UNCHANGED <<disk, events, copy, readers, edits, running>>

-----------------------------------------------------------------------------
(* The watcher of the directory.                                           *)

\* (..._Name: the form of a mutant that PROJECT.json names.)
changed_f_CallbackFirst(r) ==
    IF cb[r] THEN LET c == Read(r, _config_cache) IN
                  /\ copy' = [copy EXCEPT ![r] = c.f[options[r]]]
                  /\ _config_cache' = load_config(c, options[r])
                  /\ UNCHANGED <<_read_args, readers>>
    ELSE /\ _config_cache' = load_config(_config_cache, options[r])
         /\ UNCHANGED <<_read_args, copy, readers>>

\* f is loaded for the options of its last reader, whose callback, if it
\* passed one, reads f again.
changed_f(r) ==
    LET c == load_config(_config_cache, options[r]) IN
    IF cb[r] THEN read_config(r, c)
    ELSE _config_cache' = c /\ UNCHANGED <<_read_args, copy, readers>>

watch_f ==
    /\ running /\ events # <<>> /\ Head(events) = "f"
    /\ events' = Tail(events)
    /\ \/ _read_args.f # "none" /\ changed_f(_read_args.f)
       \/ _read_args.f = "none" /\ UNCHANGED <<_config_cache, _read_args, copy, readers>>
    /\ UNCHANGED <<disk, edits, running>>

\* An exception in the watcher is nobody's: the process exits (haraka.js).
watch_j ==
    /\ running /\ events # <<>> /\ Head(events) = "j"
    /\ events' = Tail(events)
    /\ \/ _read_args.j /\ ~disk.j.cut
          /\ _config_cache' = process_file_overrides(_config_cache)
          /\ UNCHANGED running
       \/ _read_args.j /\ disk.j.cut
          /\ running' = FALSE
          /\ UNCHANGED _config_cache
       \/ ~_read_args.j /\ UNCHANGED <<_config_cache, running>>
    /\ UNCHANGED <<disk, _read_args, copy, readers, edits>>

-----------------------------------------------------------------------------
(* An editor truncates a file and writes it, or renames another over it.   *)

Changes(file) == events' = Append(events, file)

truncate(file) ==
    /\ edits < MaxEdits
    /\ disk' = IF file = "f" THEN [disk EXCEPT !.f = Empty] ELSE [disk EXCEPT !.j.cut = TRUE]
    /\ Changes(file)
    /\ UNCHANGED <<_read_args, _config_cache, copy, readers, edits, running>>

write(file) ==
    /\ edits < MaxEdits
    /\ edits' = edits + 1
    /\ \/ file = "f" /\ disk' = [disk EXCEPT !.f = File(edits + 1)]
       \/ file = "j" /\ \E over \in BOOLEAN : disk' = [disk EXCEPT !.j = Json(edits + 1, over)]
    /\ Changes(file)
    /\ UNCHANGED <<_read_args, _config_cache, copy, readers, running>>

\* A file is truncated once per save.
Truncated(file) == IF file = "f" THEN disk.f = Empty ELSE disk.j.cut

Next ==
    \/ \E r \in Readers : get(r)
    \/ get_json \/ watch_f \/ watch_j
    \/ \E file \in {"f", "j"} : (~Truncated(file) /\ truncate(file)) \/ write(file)

Spec == Init /\ [][Next]_vars

-----------------------------------------------------------------------------
(* Properties.                                                             *)

Quiet == running /\ events = <<>>

\* Once the watcher has caught up, readers that all pass the same options
\* find in the cache f's present contents, or what j as last loaded puts in
\* their place, and the last of them, if it passed a callback, is left with
\* no older contents of f.
Current ==
    Quiet /\ (\A r, s \in readers : options[r] = options[s]) =>
        \A r \in readers :
            /\ _config_cache.f[options[r]] \in
                   {None, disk.f} \union {[from |-> "j", n |-> _config_cache.j.n]}
            /\ r = _read_args.f /\ cb[r] => copy[r] = disk.f \/ copy[r].from = "j"

\* docs/Config.md:33, a callback "will be called when an update is detected
\* on the file": no reader that passed one is left with old contents.
EveryReaderIsTold ==
    Quiet /\ ~Truncated("f") =>
        \A r \in readers : cb[r] => copy[r] = disk.f \/ copy[r].from = "j"
=============================================================================
