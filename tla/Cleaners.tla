------------------------------ MODULE Cleaners ------------------------------
(***************************************************************************)
(* Cleaning templates: the files of clean_templates/, the CleanerRegistry  *)
(* that follows them by file events, the requests of web/api/cleaners.py   *)
(* that write and run them, and the results kept for download.             *)
(*                                                                         *)
(* The registry knows a file as it was when an event was handled, which    *)
(* may be while a request had emptied it and not written it yet.           *)
(***************************************************************************)
EXTENDS Naturals, Sequences

CONSTANTS Name,        \* template names
          Source,      \* sources that requests submit and operators copy in
          Cleans,      \* those that define clean_data
          Found,       \* what the last run of the service may have left of a file
          Request,     \* requests that are handled at one time
          Token,       \* download tokens
          Ttl,         \* _DOWNLOAD_TTL
          LastTick,    \* bound: where the clock stops
          EventsMax,   \* bound: file events in flight
          NONE, EMPTY,
          MIXED        \* a text that nobody submitted: part of one, or parts of two

VARIABLES disk,        \* disk[n]: the content of n.py, NONE if there is none
          events,      \* events that the observer has not handled yet
          reading,     \* what the handler has read and not registered yet
          registry,    \* _templates[n]: the content its entry was made from, or NONE
          watch,       \* "none" before start_watching, "on", "off"
          missed,      \* history: names that changed when nobody watched
          req,         \* req[r]: the request that is handled
          clock,
          store,       \* _download_store: expiry of each token in it
          issued       \* history: per token its expiry and how often it was redeemed

files   == <<disk, events, missed>>
watcher == <<reading, registry, watch>>
results == <<clock, store, issued>>
vars    == <<files, watcher, req, results>>

Contents == Source \cup {EMPTY, MIXED}
Idle     == [pc |-> "idle"]

\* NONE is neither a content nor a reading of one.
ASSUME CleanersAssumption ==
    /\ NONE \notin Contents /\ NONE \notin [name : Name, seen : Contents \cup {NONE}]
    /\ Found \subseteq Contents \cup {NONE}
    /\ Ttl \in Nat /\ LastTick \in Nat /\ EventsMax \in Nat

\* The files of the last run of the service, which may have ended amid a write, as the
\* constructor scans them.
Init ==
    /\ disk \in [Name -> Found] /\ registry = disk
    /\ events = <<>> /\ reading = NONE /\ watch = "none" /\ missed = {}
    /\ req = [r \in Request |-> Idle]
    /\ clock = 0 /\ store = [k \in {} |-> 0] /\ issued = [k \in {} |-> 0]
-----------------------------------------------------------------------------
\* A file gets a content or, with NONE, goes; the observer is told if it runs.
Becomes(n, content) ==
    /\ Len(events) < EventsMax
    /\ disk' = [disk EXCEPT ![n] = content]
    /\ IF watch = "on"
       THEN /\ events' = Append(events, [kind |-> IF content = NONE THEN "deleted" ELSE "changed",
                                         name |-> n])
            /\ UNCHANGED missed
       ELSE missed' = missed \cup {n} /\ UNCHANGED events

\* Files that are open for writing when their name goes are written to no more.
Detached(n) ==
    [r \in Request |-> IF req[r].pc = "write" /\ req[r].name = n
                       THEN [req[r] EXCEPT !.linked = FALSE] ELSE req[r]]

\* An operator copies a template into the directory, complete.
CopyIn(n, source) ==
    /\ Becomes(n, source)
    /\ req' = Detached(n)
    /\ UNCHANGED <<watcher, results>>

\* delete_cleaner, and an operator's rm.
Remove(n) ==
    /\ disk[n] # NONE
    /\ Becomes(n, NONE)
    /\ req' = Detached(n)
    /\ UNCHANGED <<watcher, results>>

\* An operator renames a file (bound: none that is open for writing); the observer
\* reports it as one event.
Rename(n, m) ==
    /\ disk[n] # NONE /\ n # m /\ watch = "on" /\ Len(events) < EventsMax
    /\ \A r \in Request : req[r].pc # "write"
    /\ disk' = [disk EXCEPT ![n] = NONE, ![m] = disk[n]]
    /\ events' = Append(events, [kind |-> "moved", name |-> n, to |-> m])
    /\ UNCHANGED <<watcher, req, missed, results>>
-----------------------------------------------------------------------------
\* create_cleaner and update_cleaner up to the test for the file and the syntax.
Check(r, n, source, create) ==
    /\ req[r].pc = "idle" /\ (disk[n] = NONE) = create
    /\ req' = [req EXCEPT ![r] = [pc |-> "open", name |-> n, source |-> source]]
    /\ UNCHANGED <<files, watcher, results>>

\* open(fpath, "w") empties the file.
OpenFile(r) ==
    /\ req[r].pc = "open"
    /\ Becomes(req[r].name, EMPTY)
    /\ req' = [req EXCEPT ![r] = [pc |-> "write", name |-> req[r].name,
                                  source |-> req[r].source, linked |-> TRUE]]
    /\ UNCHANGED <<watcher, results>>

\* The text reaches the file when it is closed.  Over the text of another request it
\* leaves what is longer.
WriteFile(r) ==
    /\ req[r].pc = "write"
    /\ IF req[r].linked
       THEN \E content \in {req[r].source, MIXED} :
               /\ disk[req[r].name] = EMPTY => content # MIXED
               /\ Becomes(req[r].name, content)
       ELSE UNCHANGED files
    /\ req' = [req EXCEPT ![r] = Idle]
    /\ UNCHANGED <<watcher, results>>

\* The write raises, and the request ends: the file stays empty, or as far as it was
\* written.
WriteBreaksOff(r) ==
    /\ req[r].pc = "write"
    /\ \/ UNCHANGED files
       \/ req[r].linked /\ Becomes(req[r].name, MIXED)
    /\ req' = [req EXCEPT ![r] = Idle]
    /\ UNCHANGED <<watcher, results>>
-----------------------------------------------------------------------------
start_watching ==
    /\ watch = "none" /\ watch' = "on"
    /\ UNCHANGED <<files, reading, registry, req, results>>

StopKeepsEvents == \* mutant: the observer is not stopped
    /\ watch = "on" /\ watch' = "off" /\ missed' = Name
    /\ UNCHANGED <<disk, events, reading, registry, req, results>>

\* The event in hand is handled to its end, those behind it are handled no more.
stop_watching ==
    /\ watch = "on" /\ watch' = "off"
    /\ events' = <<>> /\ missed' = Name
    /\ UNCHANGED <<disk, reading, registry, req, results>>

HandleDeletionLate == \* mutant: on_moved forgets the name that went
    /\ watch = "on" /\ events # <<>> /\ reading = NONE
    /\ LET e == Head(events) IN
       CASE e.kind = "changed" -> reading' = [name |-> e.name, seen |-> disk[e.name]] /\ UNCHANGED registry
         [] e.kind = "deleted" -> registry' = [registry EXCEPT ![e.name] = NONE] /\ UNCHANGED reading
         [] e.kind = "moved"   -> reading' = [name |-> e.to, seen |-> disk[e.to]] /\ UNCHANGED registry
    /\ events' = Tail(events)
    /\ missed' = missed \ {Head(events).name}
    /\ UNCHANGED <<disk, watch, req, results>>

\* The observer takes an event: a name that went is dropped, one that is there is read.
Handle ==
    /\ watch = "on" /\ events # <<>> /\ reading = NONE
    /\ LET e == Head(events) IN
       /\ registry' = IF e.kind = "changed" THEN registry ELSE [registry EXCEPT ![e.name] = NONE]
       /\ reading' = CASE e.kind = "changed" -> [name |-> e.name, seen |-> disk[e.name]]
                       [] e.kind = "deleted" -> NONE
                       [] e.kind = "moved"   -> [name |-> e.to, seen |-> disk[e.to]]
    /\ events' = Tail(events)
    /\ missed' = missed \ {Head(events).name}
    /\ UNCHANGED <<disk, watch, req, results>>

\* _register: a file that is gone again gets an entry all the same, until its own event.
Register ==
    /\ reading # NONE
    /\ registry' = [registry EXCEPT ![reading.name] = IF reading.seen = NONE THEN EMPTY ELSE reading.seen]
    /\ reading' = NONE /\ missed' = missed \ {reading.name}
    /\ UNCHANGED <<disk, events, watch, req, results>>
-----------------------------------------------------------------------------
\* run_cleaner up to get_path, which knows a valid template.
Run(r, n) ==
    /\ req[r].pc = "idle" /\ registry[n] \in Cleans
    /\ req' = [req EXCEPT ![r] = [pc |-> "run", name |-> n]]
    /\ UNCHANGED <<files, watcher, results>>

\* The subprocess loads the file as it is now; rows are stored for one download.
RunEnds(r, k) ==
    /\ req[r].pc = "run" /\ disk[req[r].name] \in Cleans
    /\ k \notin DOMAIN issued
    /\ store'  = [j \in DOMAIN store \cup {k} |-> IF j = k THEN clock + Ttl ELSE store[j]]
    /\ issued' = [j \in DOMAIN issued \cup {k} |->
                     IF j = k THEN [expires |-> clock + Ttl, redeemed |-> 0] ELSE issued[j]]
    /\ req' = [req EXCEPT ![r] = Idle]
    /\ UNCHANGED <<files, watcher, clock>>

\* The time is up, the template raises, answers no rows, or is not there any more.
RunFails(r) ==
    /\ req[r].pc = "run"
    /\ req' = [req EXCEPT ![r] = Idle]
    /\ UNCHANGED <<files, watcher, results>>

DownloadKeeps(k) == \* mutant: the entry stays
    /\ k \in DOMAIN store /\ clock <= store[k] /\ issued[k].redeemed < 2
    /\ issued' = [issued EXCEPT ![k].redeemed = @ + 1]
    /\ UNCHANGED <<files, watcher, req, clock, store>>

Without(k) == [j \in DOMAIN store \ k |-> store[j]]

\* download_result, all of it under _download_lock.
Download(k) ==
    /\ k \in DOMAIN store
    /\ store' = Without({k})
    /\ issued' = IF clock > store[k] THEN issued ELSE [issued EXCEPT ![k].redeemed = @ + 1]
    /\ UNCHANGED <<files, watcher, req, clock>>

\* By the purge thread every five minutes, and at the start of each run.
_purge_expired_downloads ==
    /\ store' = Without({k \in DOMAIN store : store[k] < clock})
    /\ UNCHANGED <<files, watcher, req, clock, issued>>

Tick ==
    /\ clock < LastTick /\ clock' = clock + 1
    /\ UNCHANGED <<files, watcher, req, store, issued>>

Next ==
    \/ start_watching \/ stop_watching \/ Handle \/ Register
    \/ _purge_expired_downloads \/ Tick
    \/ \E k \in Token : Download(k)
    \/ \E n \in Name : Remove(n) \/ \E m \in Name : Rename(n, m)
    \/ \E n \in Name, source \in Source : CopyIn(n, source)
    \/ \E r \in Request :
          \/ OpenFile(r) \/ WriteFile(r) \/ WriteBreaksOff(r) \/ RunFails(r)
          \/ \E k \in Token : RunEnds(r, k)
          \/ \E n \in Name : Run(r, n)
          \/ \E n \in Name, source \in Source, create \in BOOLEAN : Check(r, n, source, create)

Spec == Init /\ [][Next]_vars
-----------------------------------------------------------------------------
\* Every variable has its type; what is stored was issued, and nobody queues events
\* for an observer that does not run.
TypeOK ==
    /\ disk \in [Name -> Contents \cup {NONE}]
    /\ registry \in [Name -> Contents \cup {NONE}]
    /\ missed \subseteq Name
    /\ watch \in {"none", "on", "off"} /\ (watch # "on" => events = <<>>)
    /\ \A r \in Request : req[r].pc \in {"idle", "open", "write", "run"}
    /\ DOMAIN store \subseteq DOMAIN issued /\ DOMAIN issued \subseteq Token

\* When every event has been handled the registry shows the files as they are: a change
\* that comes while an earlier one is read is not lost, and no name that went stays.
RegistryFollows ==
    watch = "on" /\ events = <<>> /\ reading = NONE =>
        \A n \in Name \ missed : registry[n] = disk[n]

\* A result that was kept for download is delivered once at most, and until then is
\* there for as long as it was promised, whatever the purge thread removes.
KeptUntilRedeemed ==
    \A k \in DOMAIN issued :
        /\ issued[k].redeemed <= 1
        /\ issued[k].redeemed = 0 /\ clock <= issued[k].expires => k \in DOMAIN store
=============================================================================
