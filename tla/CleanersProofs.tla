--------------------------- MODULE CleanersProofs ---------------------------
(***************************************************************************)
(* The templates for any names, sources, requests and tokens, any number   *)
(* of events in flight and any time to live.                               *)
(*                                                                         *)
(* Why the registry follows: the last event in flight about a name tells   *)
(* whether the file is there, so the file the handler reads for it is the  *)
(* newest one; and what is read while an event is still to come about the  *)
(* name is corrected by that event, even an entry for a file that is gone. *)
(***************************************************************************)
EXTENDS Cleaners, TLAPS

USE CleanersAssumption

Event == [kind : {"changed", "deleted"}, name : Name]
           \cup {e \in [kind : {"moved"}, name : Name, to : Name] : e.name # e.to}

Reading == [name : Name, seen : Contents \cup {NONE}]

Requests == {Idle} \cup [pc : {"open"}, name : Name, source : Source]
              \cup [pc : {"write"}, name : Name, source : Source, linked : BOOLEAN]
              \cup [pc : {"run"}, name : Name]

FilesType ==
    /\ disk \in [Name -> Contents \cup {NONE}] /\ events \in Seq(Event) /\ missed \subseteq Name

WatcherType ==
    /\ reading \in Reading \cup {NONE} /\ registry \in [Name -> Contents \cup {NONE}]
    /\ watch \in {"none", "on", "off"}
    /\ watch # "on" => events = <<>>
    /\ watch = "none" => reading = NONE

ResultsType ==
    /\ clock \in Nat
    /\ DOMAIN store \subseteq DOMAIN issued /\ DOMAIN issued \subseteq Token
    /\ issued \in [DOMAIN issued -> [expires : Nat, redeemed : Nat]]
    /\ store \in [DOMAIN store -> Nat]

Types == FilesType /\ WatcherType /\ req \in [Request -> Requests] /\ ResultsType

\* What an event is about, and whether it says that the file is there.
About(e, n)  == e.name = n \/ (e.kind = "moved" /\ e.to = n)
Brings(e, n) == e.kind = "changed" \/ (e.kind = "moved" /\ e.to = n)

\* Position i holds the last event in flight about n.
LastAbout(i, n) ==
    /\ i \in 1 .. Len(events) /\ About(events[i], n)
    /\ \A j \in i + 1 .. Len(events) : ~About(events[j], n)

NoneAbout(n) == \A i \in 1 .. Len(events) : ~About(events[i], n)

Reads(n) == reading # NONE /\ reading.name = n

\* The last event about a name is true of the file.
LastIsTrue(n) ==
    \A i \in 1 .. Len(events) : LastAbout(i, n) => (Brings(events[i], n) <=> disk[n] # NONE)

\* With no event to come the file is as it was read, or as it is registered.
NothingToCome(n) ==
    NoneAbout(n) =>
        /\ Reads(n) => reading.seen = disk[n] /\ disk[n] # NONE
        /\ ~Reads(n) => registry[n] = disk[n] \/ n \in missed

Follow == watch # "off" => \A n \in Name : LastIsTrue(n) /\ NothingToCome(n)

\* A stored result is one that was promised and has not been redeemed.
Kept ==
    /\ \A k \in DOMAIN store : store[k] = issued[k].expires /\ issued[k].redeemed = 0
    /\ KeptUntilRedeemed

IInv == Types /\ Follow /\ Kept
-----------------------------------------------------------------------------
LEMMA InitIInv == Init => IInv
<1> SUFFICES ASSUME Init PROVE IInv
  OBVIOUS
<1>1. Types
  <2>1. FilesType /\ WatcherType
    BY DEF Init, FilesType, WatcherType, Contents
  <2>2. req \in [Request -> Requests]
    BY DEF Init, Requests
  <2>3. ResultsType
    BY DEF Init, ResultsType
  <2> QED
    BY <2>1, <2>2, <2>3 DEF Types
<1>2. Follow
  <2>1. Len(events) = 0
    BY DEF Init
  <2> QED
    BY <2>1 DEF Init, Follow, LastIsTrue, NothingToCome, Reads
<1>3. Kept
  BY DEF Init, Kept, KeptUntilRedeemed
<1> QED
  BY <1>1, <1>2, <1>3 DEF IInv

\* Steps that touch neither files nor the registry, and steps that touch no results.
LEMMA FollowKept ==
  ASSUME Follow, UNCHANGED <<files, watcher>>
  PROVE  Follow'
  BY DEF Follow, LastIsTrue, LastAbout, NothingToCome, NoneAbout, Reads, About, Brings, files, watcher

LEMMA ResultsKept ==
  ASSUME ResultsType, Kept, UNCHANGED results
  PROVE  ResultsType' /\ Kept'
  BY DEF ResultsType, Kept, KeptUntilRedeemed, results

LEMMA FilesKept ==
  ASSUME FilesType, WatcherType, UNCHANGED <<files, watcher>>
  PROVE  FilesType' /\ WatcherType'
  BY DEF FilesType, WatcherType, files, watcher
-----------------------------------------------------------------------------
\* An event is added at the end: what was last about another name stays last.
LEMMA EventAdded ==
  ASSUME FilesType, Follow, NEW e \in Event, events' = Append(events, e),
         UNCHANGED <<watcher, missed>>, watch = "on",
         \A n \in Name : ~About(e, n) => disk'[n] = disk[n],
         \A n \in Name : About(e, n) => (Brings(e, n) <=> disk'[n] # NONE)
  PROVE  Follow'
<1>1. /\ Len(events') = Len(events) + 1 /\ Len(events) \in Nat
      /\ events'[Len(events) + 1] = e
      /\ \A i \in 1 .. Len(events) : events'[i] = events[i]
  BY DEF FilesType
<1> SUFFICES ASSUME NEW n \in Name
             PROVE  LastIsTrue(n)' /\ NothingToCome(n)'
  BY DEF Follow
<1>2. LastIsTrue(n) /\ NothingToCome(n)
  BY DEF Follow
<1>3. CASE About(e, n)
  <2>1. ~NoneAbout(n)'
    BY <1>1, <1>3 DEF NoneAbout, About
  <2>2. LastIsTrue(n)'
    <3> SUFFICES ASSUME NEW i \in 1 .. Len(events'), LastAbout(i, n)'
                 PROVE  Brings(events'[i], n) <=> disk'[n] # NONE
      BY DEF LastIsTrue, Brings
    <3>1. i = Len(events) + 1
      BY <1>1, <1>3 DEF LastAbout, About
    <3> QED
      BY <1>1, <1>3, <3>1
  <2> QED
    BY <2>1, <2>2 DEF NothingToCome
<1>4. CASE ~About(e, n)
  <2>1. disk'[n] = disk[n]
    BY <1>4
  <2>2. NoneAbout(n)' => NoneAbout(n)
    BY <1>1 DEF NoneAbout, About
  <2>3. NothingToCome(n)'
    BY <1>2, <2>1, <2>2 DEF NothingToCome, Reads, watcher
  <2>4. LastIsTrue(n)'
    <3> SUFFICES ASSUME NEW i \in 1 .. Len(events'), LastAbout(i, n)'
                 PROVE  Brings(events'[i], n) <=> disk'[n] # NONE
      BY DEF LastIsTrue, Brings
    <3>1. About(events'[i], n) /\ \A j \in i + 1 .. Len(events') : ~About(events'[j], n)
      BY DEF LastAbout, About
    <3>2. i # Len(events) + 1
      BY <1>1, <1>4, <3>1
    <3>3. i \in 1 .. Len(events) /\ events'[i] = events[i]
      BY <1>1, <3>2
    <3>4. \A j \in i + 1 .. Len(events) : ~About(events[j], n)
      <4> TAKE j \in i + 1 .. Len(events)
      <4>1. j \in 1 .. Len(events) /\ j \in i + 1 .. Len(events')
        BY <1>1, <3>3
      <4> QED
        BY <1>1, <3>1, <4>1
    <3>5. LastAbout(i, n)
      BY <3>1, <3>3, <3>4 DEF LastAbout
    <3> QED
      BY <1>2, <2>1, <3>3, <3>5 DEF LastIsTrue
  <2> QED
    BY <2>3, <2>4
<1> QED
  BY <1>3, <1>4

LEMMA BecomesInv ==
  ASSUME FilesType, WatcherType, Follow, NEW n \in Name, NEW content \in Contents \cup {NONE},
         Becomes(n, content), UNCHANGED watcher
  PROVE  FilesType' /\ WatcherType' /\ Follow'
<1> DEFINE e == [kind |-> IF content = NONE THEN "deleted" ELSE "changed", name |-> n]
<1>1. /\ disk' \in [Name -> Contents \cup {NONE}]
      /\ \A m \in Name : disk'[m] = IF m = n THEN content ELSE disk[m]
  BY DEF Becomes, FilesType
<1>2. e \in Event
  BY DEF Event
<1>3. CASE watch = "on"
  <2>1. events' = Append(events, e) /\ UNCHANGED missed
    BY <1>3 DEF Becomes
  <2>2. FilesType' /\ WatcherType'
    BY <1>1, <1>2, <1>3, <2>1 DEF FilesType, WatcherType, watcher
  <2>3. \A m \in Name : About(e, m) <=> m = n
    BY DEF About
  <2>4. Brings(e, n) <=> content # NONE
    BY DEF Brings
  <2> HIDE DEF e
  <2>5. \A m \in Name : ~About(e, m) => disk'[m] = disk[m]
    BY <1>1, <2>3
  <2>6. \A m \in Name : About(e, m) => (Brings(e, m) <=> disk'[m] # NONE)
    BY <1>1, <2>3, <2>4
  <2>7. Follow'
    BY <1>2, <1>3, <2>1, <2>5, <2>6, EventAdded
  <2> QED
    BY <2>2, <2>7
<1>4. CASE watch # "on"
  <2>1. UNCHANGED events /\ events = <<>> /\ missed' = missed \cup {n} /\ UNCHANGED watcher
    BY <1>4 DEF Becomes, WatcherType
  <2>2. FilesType' /\ WatcherType'
    BY <1>1, <2>1 DEF FilesType, WatcherType, watcher
  <2>3. Follow'
    <3> SUFFICES ASSUME watch = "none", NEW m \in Name
                 PROVE  LastIsTrue(m)' /\ NothingToCome(m)'
      BY <1>4 DEF Follow, WatcherType, watcher
    <3>1. Len(events') = 0 /\ reading' = NONE
      BY <2>1 DEF WatcherType, watcher
    <3>2. LastIsTrue(m)' /\ ~Reads(m)'
      BY <3>1 DEF LastIsTrue, Reads
    <3>3. registry[m] = disk[m] \/ m \in missed
      BY <2>1 DEF Follow, NothingToCome, NoneAbout, Reads, WatcherType
    <3>4. registry'[m] = disk'[m] \/ m \in missed'
      BY <1>1, <2>1, <3>3 DEF watcher
    <3> QED
      BY <3>2, <3>4 DEF NothingToCome
  <2> QED
    BY <2>2, <2>3
<1> QED
  BY <1>3, <1>4

\* Closing the door on writers changes no type.
LEMMA DetachedType ==
  ASSUME req \in [Request -> Requests], NEW n
  PROVE  Detached(n) \in [Request -> Requests]
<1> SUFFICES ASSUME NEW r \in Request PROVE Detached(n)[r] \in Requests
  BY DEF Detached
<1>1. req[r] \in Requests
  OBVIOUS
<1>2. CASE req[r].pc = "write" /\ req[r].name = n
  <2>1. req[r] \in [pc : {"write"}, name : Name, source : Source, linked : BOOLEAN]
    BY <1>1, <1>2 DEF Requests, Idle
  <2>2. Detached(n)[r] = [req[r] EXCEPT !.linked = FALSE]
    BY <1>2 DEF Detached
  <2> QED
    BY <2>1, <2>2 DEF Requests
<1>3. CASE ~(req[r].pc = "write" /\ req[r].name = n)
  BY <1>1, <1>3 DEF Detached
<1> QED
  BY <1>2, <1>3
-----------------------------------------------------------------------------
\* A request, or an operator, changes a file and nothing of the registry.
LEMMA FilesInv ==
  ASSUME IInv, NEW n \in Name, NEW content \in Contents \cup {NONE},
         Becomes(n, content), UNCHANGED <<watcher, results>>, req' \in [Request -> Requests]
  PROVE  IInv'
<1>1. FilesType' /\ WatcherType' /\ Follow'
  BY BecomesInv DEF IInv, Types
<1>2. ResultsType' /\ Kept'
  BY ResultsKept DEF IInv, Types
<1> QED
  BY <1>1, <1>2 DEF IInv, Types

\* A request advances and no file does.
LEMMA RequestInv ==
  ASSUME IInv, UNCHANGED <<files, watcher, results>>, req' \in [Request -> Requests]
  PROVE  IInv'
<1>1. FilesType' /\ WatcherType' /\ Follow'
  BY FilesKept, FollowKept DEF IInv, Types
<1>2. ResultsType' /\ Kept'
  BY ResultsKept DEF IInv, Types
<1> QED
  BY <1>1, <1>2 DEF IInv, Types

LEMMA CopyInInv ==
  ASSUME IInv, NEW n \in Name, NEW source \in Source, CopyIn(n, source)
  PROVE  IInv'
  BY FilesInv, DetachedType DEF CopyIn, Contents, IInv, Types

LEMMA RemoveInv ==
  ASSUME IInv, NEW n \in Name, Remove(n)
  PROVE  IInv'
  BY FilesInv, DetachedType DEF Remove, IInv, Types

LEMMA RenameInv ==
  ASSUME IInv, NEW n \in Name, NEW m \in Name, Rename(n, m)
  PROVE  IInv'
<1> DEFINE e == [kind |-> "moved", name |-> n, to |-> m]
<1>1. e \in Event
  BY DEF Event, Rename
<1>2. /\ disk' \in [Name -> Contents \cup {NONE}] /\ disk'[n] = NONE /\ disk'[m] # NONE
      /\ \A u \in Name \ {n, m} : disk'[u] = disk[u]
  BY DEF Rename, IInv, Types, FilesType
<1>3. events' = Append(events, e) /\ watch = "on" /\ UNCHANGED <<watcher, missed, req, results>>
  BY DEF Rename
<1>4. FilesType' /\ WatcherType'
  <2>1. FilesType'
    BY <1>1, <1>2, <1>3 DEF IInv, Types, FilesType
  <2>2. WatcherType'
    BY <1>3 DEF IInv, Types, WatcherType, watcher
  <2> QED
    BY <2>1, <2>2
<1>5. Follow'
  <2>1. \A u \in Name : About(e, u) <=> u \in {n, m}
    BY DEF About
  <2>2. Brings(e, m) /\ ~Brings(e, n)
    BY DEF Brings, Rename
  <2> HIDE DEF e
  <2>3. \A u \in Name : ~About(e, u) => disk'[u] = disk[u]
    BY <1>2, <2>1
  <2>4. \A u \in Name : About(e, u) => (Brings(e, u) <=> disk'[u] # NONE)
    BY <1>2, <2>1, <2>2
  <2>5. FilesType /\ Follow /\ UNCHANGED <<watcher, missed>>
    BY <1>3 DEF IInv, Types
  <2> QED
    BY <1>1, <1>3, <2>3, <2>4, <2>5, EventAdded
<1>6. ResultsType' /\ Kept'
  BY <1>3, ResultsKept DEF IInv, Types
<1> QED
  BY <1>3, <1>4, <1>5, <1>6 DEF IInv, Types

LEMMA CheckInv ==
  ASSUME IInv, NEW r \in Request, NEW n \in Name, NEW source \in Source, NEW create \in BOOLEAN,
         Check(r, n, source, create)
  PROVE  IInv'
<1>1. req' \in [Request -> Requests]
  BY DEF Check, IInv, Types, Requests
<1> QED
  BY <1>1, RequestInv DEF Check

LEMMA OpenFileInv ==
  ASSUME IInv, NEW r \in Request, OpenFile(r)
  PROVE  IInv'
<1>1. req[r] \in [pc : {"open"}, name : Name, source : Source]
  BY DEF OpenFile, IInv, Types, Requests, Idle
<1>2. req' \in [Request -> Requests]
  BY <1>1 DEF OpenFile, IInv, Types, Requests
<1> QED
  BY <1>1, <1>2, FilesInv DEF OpenFile, Contents

LEMMA WriteFileInv ==
  ASSUME IInv, NEW r \in Request, WriteFile(r)
  PROVE  IInv'
<1>1. req[r] \in [pc : {"write"}, name : Name, source : Source, linked : BOOLEAN]
  BY DEF WriteFile, IInv, Types, Requests, Idle
<1>2. req' \in [Request -> Requests]
  BY DEF WriteFile, IInv, Types, Requests
<1>3. CASE req[r].linked
  <2>1. PICK content \in {req[r].source, MIXED} : Becomes(req[r].name, content)
    BY <1>3 DEF WriteFile
  <2>2. content \in Contents \cup {NONE} /\ req[r].name \in Name
    BY <1>1 DEF Contents
  <2> QED
    BY <1>2, <2>1, <2>2, FilesInv DEF WriteFile
<1>4. CASE ~req[r].linked
  BY <1>2, <1>4, RequestInv DEF WriteFile
<1> QED
  BY <1>3, <1>4

LEMMA WriteBreaksOffInv ==
  ASSUME IInv, NEW r \in Request, WriteBreaksOff(r)
  PROVE  IInv'
<1>1. req[r] \in [pc : {"write"}, name : Name, source : Source, linked : BOOLEAN]
  BY DEF WriteBreaksOff, IInv, Types, Requests, Idle
<1>2. req' \in [Request -> Requests]
  BY DEF WriteBreaksOff, IInv, Types, Requests
<1>3. CASE UNCHANGED files
  BY <1>2, <1>3, RequestInv DEF WriteBreaksOff
<1>4. CASE Becomes(req[r].name, MIXED)
  BY <1>1, <1>2, <1>4, FilesInv DEF WriteBreaksOff, Contents
<1> QED
  BY <1>3, <1>4 DEF WriteBreaksOff
-----------------------------------------------------------------------------
LEMMA WatchInv ==
  ASSUME IInv, start_watching \/ stop_watching
  PROVE  IInv'
<1>1. CASE start_watching
  <2>1. FilesType' /\ WatcherType'
    BY <1>1 DEF start_watching, IInv, Types, FilesType, WatcherType, files
  <2>2. Follow'
    BY <1>1 DEF start_watching, files, IInv, Follow, LastIsTrue, LastAbout, NothingToCome, NoneAbout,
                Reads, About, Brings
  <2>3. ResultsType' /\ Kept' /\ UNCHANGED req
    BY <1>1, ResultsKept DEF start_watching, IInv, Types
  <2> QED
    BY <2>1, <2>2, <2>3 DEF IInv, Types
<1>2. CASE stop_watching
  <2>1. FilesType' /\ WatcherType'
    BY <1>2 DEF stop_watching, IInv, Types, FilesType, WatcherType
  <2>2. Follow'
    BY <1>2 DEF stop_watching, Follow
  <2>3. ResultsType' /\ Kept' /\ UNCHANGED req
    BY <1>2, ResultsKept DEF stop_watching, IInv, Types
  <2> QED
    BY <2>1, <2>2, <2>3 DEF IInv, Types
<1> QED
  BY <1>1, <1>2

\* The event at the head goes, those behind it move up by one.
LEMMA HandleInv ==
  ASSUME IInv, Handle
  PROVE  IInv'
<1> DEFINE e == events[1]
<1>1. /\ Len(events) \in Nat \ {0} /\ Head(events) = e /\ e \in Event
      /\ events' \in Seq(Event) /\ Len(events') = Len(events) - 1
      /\ \A i \in 1 .. Len(events) - 1 : events'[i] = events[i + 1]
  BY DEF Handle, IInv, Types, FilesType
<1>2. /\ reading = NONE /\ watch = "on" /\ UNCHANGED <<disk, watch, req, results>>
      /\ missed' = missed \ {e.name}
      /\ registry' = IF e.kind = "changed" THEN registry ELSE [registry EXCEPT ![e.name] = NONE]
      /\ reading' = CASE e.kind = "changed" -> [name |-> e.name, seen |-> disk[e.name]]
                      [] e.kind = "deleted" -> NONE
                      [] e.kind = "moved"   -> [name |-> e.to, seen |-> disk[e.to]]
  BY <1>1 DEF Handle
<1>3. /\ e.name \in Name /\ e.kind \in {"changed", "deleted", "moved"}
      /\ e.kind = "moved" => e.to \in Name /\ e.to # e.name
  BY <1>1 DEF Event
<1> HIDE DEF e
<1>4. \A n \in Name : [name |-> n, seen |-> disk[n]] \in Reading /\ [name |-> n, seen |-> disk[n]] # NONE
  BY DEF IInv, Types, FilesType, Reading
<1>5. FilesType' /\ WatcherType'
  <2>1. FilesType'
    BY <1>1, <1>2 DEF IInv, Types, FilesType
  <2>2. reading' \in Reading \cup {NONE}
    BY <1>2, <1>3, <1>4
  <2>3. registry' \in [Name -> Contents \cup {NONE}]
    BY <1>2, <1>3 DEF IInv, Types, WatcherType
  <2>4. WatcherType'
    BY <1>2, <2>2, <2>3 DEF WatcherType
  <2> QED
    BY <2>1, <2>4
<1>6. Follow'
  <2> SUFFICES ASSUME NEW n \in Name
               PROVE  LastIsTrue(n)' /\ NothingToCome(n)'
    BY DEF Follow
  <2>1. LastIsTrue(n) /\ NothingToCome(n)
    BY <1>2 DEF IInv, Follow
  <2>2. LastIsTrue(n)'
    <3> SUFFICES ASSUME NEW i \in 1 .. Len(events'), LastAbout(i, n)'
                 PROVE  Brings(events'[i], n) <=> disk'[n] # NONE
      BY DEF LastIsTrue, Brings
    <3>1. About(events'[i], n) /\ \A j \in i + 1 .. Len(events') : ~About(events'[j], n)
      BY DEF LastAbout, About
    <3>2. i + 1 \in 1 .. Len(events) /\ events'[i] = events[i + 1]
      BY <1>1
    <3>3. \A j \in (i + 1) + 1 .. Len(events) : ~About(events[j], n)
      <4> TAKE j \in (i + 1) + 1 .. Len(events)
      <4>1. j - 1 \in i + 1 .. Len(events') /\ j - 1 \in 1 .. Len(events) - 1 /\ (j - 1) + 1 = j
        BY <1>1
      <4> QED
        BY <1>1, <3>1, <4>1
    <3>4. LastAbout(i + 1, n)
      BY <3>1, <3>2, <3>3 DEF LastAbout
    <3> QED
      BY <1>2, <2>1, <3>2, <3>4 DEF LastIsTrue
  <2>3. NothingToCome(n)'
    <3> SUFFICES ASSUME NoneAbout(n)'
                 PROVE  /\ Reads(n)' => reading'.seen = disk'[n] /\ disk'[n] # NONE
                        /\ ~Reads(n)' => registry'[n] = disk'[n] \/ n \in missed'
      BY DEF NothingToCome
    <3>1. \A j \in 2 .. Len(events) : ~About(events[j], n)
      <4> TAKE j \in 2 .. Len(events)
      <4>1. j - 1 \in 1 .. Len(events') /\ j - 1 \in 1 .. Len(events) - 1 /\ (j - 1) + 1 = j
        BY <1>1
      <4>2. ~About(events'[j - 1], n)
        BY <4>1 DEF NoneAbout, About
      <4> QED
        BY <1>1, <4>1, <4>2
    <3>2. CASE About(e, n)
      <4>1. LastAbout(1, n)
        BY <1>1, <3>1, <3>2 DEF LastAbout, e
      <4>2. Brings(e, n) <=> disk[n] # NONE
        BY <1>1, <2>1, <4>1 DEF LastIsTrue, e
      <4>3. CASE e.kind = "changed"
        BY <1>2, <1>3, <1>4, <3>2, <4>2, <4>3 DEF About, Brings, Reads
      <4>4. CASE e.kind = "deleted"
        BY <1>2, <1>3, <3>2, <4>2, <4>4 DEF About, Brings, Reads, IInv, Types, WatcherType
      <4>5. CASE e.kind = "moved" /\ n = e.to
        BY <1>2, <1>3, <1>4, <3>2, <4>2, <4>5 DEF About, Brings, Reads
      <4>6. CASE e.kind = "moved" /\ n = e.name
        BY <1>2, <1>3, <1>4, <3>2, <4>2, <4>6 DEF About, Brings, Reads, IInv, Types, WatcherType
      <4> QED
        BY <1>3, <3>2, <4>3, <4>4, <4>5, <4>6 DEF About
    <3>3. CASE ~About(e, n)
      <4>1. NoneAbout(n)
        <5> SUFFICES ASSUME NEW j \in 1 .. Len(events) PROVE ~About(events[j], n)
          BY DEF NoneAbout
        <5>1. j = 1 \/ j \in 2 .. Len(events)
          BY <1>1
        <5> QED
          BY <3>1, <3>3, <5>1 DEF e
      <4>2. registry[n] = disk[n] \/ n \in missed
        BY <1>2, <2>1, <4>1 DEF NothingToCome, Reads
      <4>3. ~Reads(n)'
        BY <1>2, <1>3, <3>3 DEF Reads, About
      <4>4. registry'[n] = registry[n] /\ (n \in missed => n \in missed')
        BY <1>2, <1>3, <3>3 DEF About, IInv, Types, WatcherType
      <4> QED
        BY <1>2, <4>2, <4>3, <4>4
    <3> QED
      BY <3>2, <3>3
  <2> QED
    BY <2>2, <2>3
<1>7. ResultsType' /\ Kept'
  BY <1>2, ResultsKept DEF IInv, Types
<1> QED
  BY <1>2, <1>5, <1>6, <1>7 DEF IInv, Types

LEMMA RegisterInv ==
  ASSUME IInv, Register
  PROVE  IInv'
<1> DEFINE n == reading.name
           content == IF reading.seen = NONE THEN EMPTY ELSE reading.seen
<1>1. n \in Name /\ content \in Contents /\ reading # NONE
  BY DEF Register, IInv, Types, WatcherType, Reading, Contents
<1>2. /\ registry' = [registry EXCEPT ![n] = content] /\ reading' = NONE /\ missed' = missed \ {n}
      /\ UNCHANGED <<disk, events, watch, req, results>>
  BY DEF Register
<1>3. FilesType' /\ WatcherType'
  <2> HIDE DEF n, content
  <2> QED
    BY <1>1, <1>2 DEF IInv, Types, FilesType, WatcherType
<1>4. Follow'
  <2> SUFFICES ASSUME watch # "off", NEW m \in Name
               PROVE  LastIsTrue(m)' /\ NothingToCome(m)'
    BY <1>2 DEF Follow
  <2>1. LastIsTrue(m) /\ NothingToCome(m)
    BY DEF IInv, Follow
  <2>2. LastIsTrue(m)'
    BY <1>2, <2>1 DEF LastIsTrue, LastAbout, About, Brings
  <2>3. NoneAbout(m)' => NoneAbout(m)
    BY <1>2 DEF NoneAbout, About
  <2>4. ~Reads(m)'
    BY <1>2 DEF Reads
  <2>5. NoneAbout(m) => registry'[m] = disk'[m] \/ m \in missed'
    <3>1. CASE m = n
      BY <1>1, <1>2, <2>1, <3>1 DEF NothingToCome, Reads, IInv, Types, WatcherType
    <3>2. CASE m # n
      <4>1. ~Reads(m) /\ registry'[m] = registry[m] /\ (m \in missed => m \in missed')
        BY <1>1, <1>2, <3>2 DEF Reads, IInv, Types, WatcherType
      <4> QED
        BY <1>2, <2>1, <4>1 DEF NothingToCome
    <3> QED
      BY <3>1, <3>2
  <2> QED
    BY <2>2, <2>3, <2>4, <2>5 DEF NothingToCome
<1>5. ResultsType' /\ Kept'
  BY <1>2, ResultsKept DEF IInv, Types
<1> QED
  BY <1>2, <1>3, <1>4, <1>5 DEF IInv, Types
-----------------------------------------------------------------------------
LEMMA RunInv ==
  ASSUME IInv, NEW r \in Request, NEW n \in Name, Run(r, n)
  PROVE  IInv'
<1>1. req' \in [Request -> Requests]
  BY DEF Run, IInv, Types, Requests
<1> QED
  BY <1>1, RequestInv DEF Run

LEMMA RunFailsInv ==
  ASSUME IInv, NEW r \in Request, RunFails(r)
  PROVE  IInv'
<1>1. req' \in [Request -> Requests]
  BY DEF RunFails, IInv, Types, Requests
<1> QED
  BY <1>1, RequestInv DEF RunFails

\* A step of the results leaves files, registry and requests with their types.
LEMMA ResultsStep ==
  ASSUME IInv, UNCHANGED <<files, watcher>>, req' \in [Request -> Requests], ResultsType', Kept'
  PROVE  IInv'
  BY FilesKept, FollowKept DEF IInv, Types

LEMMA RunEndsInv ==
  ASSUME IInv, NEW r \in Request, NEW k \in Token, RunEnds(r, k)
  PROVE  IInv'
<1>1. req' \in [Request -> Requests]
  BY DEF RunEnds, IInv, Types, Requests
<1>2. clock \in Nat /\ clock + Ttl \in Nat /\ clock <= clock + Ttl /\ clock' = clock
  BY DEF RunEnds, IInv, Types, ResultsType
<1>3. /\ DOMAIN store' = DOMAIN store \cup {k} /\ DOMAIN issued' = DOMAIN issued \cup {k}
      /\ store'[k] = clock + Ttl /\ issued'[k] = [expires |-> clock + Ttl, redeemed |-> 0]
      /\ \A j \in DOMAIN store : store'[j] = store[j] /\ j \in DOMAIN issued
      /\ \A j \in DOMAIN issued : issued'[j] = issued[j] /\ j # k
  BY DEF RunEnds, IInv, Types, ResultsType
<1>4. ResultsType'
  <2>1. \A j \in DOMAIN issued' : issued'[j] \in [expires : Nat, redeemed : Nat]
    BY <1>2, <1>3 DEF IInv, Types, ResultsType
  <2>2. issued' \in [DOMAIN issued' -> [expires : Nat, redeemed : Nat]]
    BY <2>1 DEF RunEnds
  <2>3. \A j \in DOMAIN store' : store'[j] \in Nat
    BY <1>2, <1>3 DEF IInv, Types, ResultsType
  <2>4. store' \in [DOMAIN store' -> Nat]
    BY <2>3 DEF RunEnds
  <2> QED
    BY <1>2, <1>3, <2>2, <2>4 DEF IInv, Types, ResultsType
<1>5. Kept'
  BY <1>2, <1>3 DEF IInv, Kept, KeptUntilRedeemed
<1> QED
  BY <1>1, <1>4, <1>5, ResultsStep DEF RunEnds

LEMMA DownloadInv ==
  ASSUME IInv, NEW k \in Token, Download(k)
  PROVE  IInv'
<1>1. /\ DOMAIN store' = DOMAIN store \ {k} /\ \A j \in DOMAIN store' : store'[j] = store[j]
      /\ store' \in [DOMAIN store' -> Nat]
  BY DEF Download, Without, IInv, Types, ResultsType
<1>2. k \in DOMAIN store /\ k \in DOMAIN issued /\ store[k] = issued[k].expires /\ issued[k].redeemed = 0
      /\ clock \in Nat /\ clock' = clock /\ store[k] \in Nat
  BY DEF Download, IInv, Types, ResultsType, Kept
<1>3. /\ DOMAIN issued' = DOMAIN issued /\ issued' \in [DOMAIN issued -> [expires : Nat, redeemed : Nat]]
      /\ \A j \in DOMAIN issued \ {k} : issued'[j] = issued[j]
      /\ issued'[k].expires = issued[k].expires
      /\ issued'[k].redeemed = IF clock > store[k] THEN 0 ELSE 1
  <2>1. issued \in [DOMAIN issued -> [expires : Nat, redeemed : Nat]]
    BY DEF IInv, Types, ResultsType
  <2>2. CASE clock > store[k]
    BY <1>2, <2>1, <2>2 DEF Download
  <2>3. CASE ~(clock > store[k])
    BY <1>2, <2>1, <2>3 DEF Download
  <2> QED
    BY <2>2, <2>3
<1>4. ResultsType'
  BY <1>1, <1>2, <1>3 DEF IInv, Types, ResultsType
<1>5. Kept'
  BY <1>1, <1>2, <1>3 DEF IInv, Types, ResultsType, Kept, KeptUntilRedeemed
<1> QED
  BY <1>4, <1>5, ResultsStep DEF Download, IInv, Types

LEMMA PurgeInv ==
  ASSUME IInv, _purge_expired_downloads
  PROVE  IInv'
<1>1. /\ DOMAIN store' = {j \in DOMAIN store : ~(store[j] < clock)}
      /\ \A j \in DOMAIN store' : store'[j] = store[j]
      /\ store' \in [DOMAIN store' -> Nat]
  BY DEF _purge_expired_downloads, Without, IInv, Types, ResultsType
<1>2. UNCHANGED <<files, watcher, req, clock, issued>>
  BY DEF _purge_expired_downloads
<1>3. ResultsType'
  BY <1>1, <1>2 DEF IInv, Types, ResultsType
<1>4. Kept'
  BY <1>1, <1>2 DEF IInv, Types, ResultsType, Kept, KeptUntilRedeemed
<1> QED
  BY <1>2, <1>3, <1>4, ResultsStep DEF IInv, Types

LEMMA TickInv ==
  ASSUME IInv, Tick
  PROVE  IInv'
<1>1. ResultsType'
  BY DEF Tick, IInv, Types, ResultsType
<1>2. Kept'
  BY DEF Tick, IInv, Types, ResultsType, Kept, KeptUntilRedeemed
<1> QED
  BY <1>1, <1>2, ResultsStep DEF Tick, IInv, Types

LEMMA StepIInv == IInv /\ [Next]_vars => IInv'
<1> SUFFICES ASSUME IInv, [Next]_vars PROVE IInv'
  OBVIOUS
<1>1. CASE start_watching \/ stop_watching \/ Handle \/ Register
  BY <1>1, WatchInv, HandleInv, RegisterInv
<1>2. CASE _purge_expired_downloads \/ Tick \/ \E k \in Token : Download(k)
  BY <1>2, PurgeInv, TickInv, DownloadInv
<1>3. CASE \E n \in Name : Remove(n) \/ \E m \in Name : Rename(n, m)
  BY <1>3, RemoveInv, RenameInv
<1>4. CASE \E n \in Name, source \in Source : CopyIn(n, source)
  BY <1>4, CopyInInv
<1>5. CASE \E r \in Request : OpenFile(r) \/ WriteFile(r) \/ WriteBreaksOff(r) \/ RunFails(r)
  BY <1>5, OpenFileInv, WriteFileInv, WriteBreaksOffInv, RunFailsInv
<1>6. CASE \E r \in Request :
             \/ \E k \in Token : RunEnds(r, k)
             \/ \E n \in Name : Run(r, n)
             \/ \E n \in Name, source \in Source, create \in BOOLEAN : Check(r, n, source, create)
  BY <1>6, RunEndsInv, RunInv, CheckInv
<1>7. CASE UNCHANGED vars
  BY <1>7, RequestInv DEF vars, IInv, Types
<1> QED
  BY <1>1, <1>2, <1>3, <1>4, <1>5, <1>6, <1>7 DEF Next

\* The invariant holds in every state of every behaviour.
THEOREM Inductive == Spec => []IInv
  BY InitIInv, StepIInv, PTL DEF Spec
-----------------------------------------------------------------------------
\* Every variable has its type; what is stored was issued, and an observer that does
\* not run has no events to handle.
THEOREM TypeCorrect == Spec => []TypeOK
<1>1. IInv => TypeOK
  <2> SUFFICES ASSUME IInv PROVE TypeOK
    OBVIOUS
  <2>1. \A r \in Request : req[r].pc \in {"idle", "open", "write", "run"}
    BY DEF IInv, Types, Requests, Idle
  <2> QED
    BY <2>1 DEF IInv, Types, FilesType, WatcherType, ResultsType, TypeOK
<1> QED
  BY <1>1, Inductive, PTL

\* The registry shows the files as they are once every event is handled, for any
\* number of names, requests and events in flight.
THEOREM RegistryFollowsFiles == Spec => []RegistryFollows
<1>1. IInv => RegistryFollows
  <2> SUFFICES ASSUME IInv, watch = "on", events = <<>>, reading = NONE, NEW n \in Name \ missed
               PROVE  registry[n] = disk[n]
    BY DEF RegistryFollows
  <2>1. NoneAbout(n) /\ ~Reads(n)
    BY DEF NoneAbout, Reads
  <2> QED
    BY <2>1 DEF IInv, Follow, NothingToCome
<1> QED
  BY <1>1, Inductive, PTL

\* A stored result is delivered once at most and kept as long as promised, for any
\* number of tokens and any time to live.
THEOREM ResultsKeptUntilRedeemed == Spec => []KeptUntilRedeemed
<1>1. IInv => KeptUntilRedeemed
  BY DEF IInv, Kept
<1> QED
  BY <1>1, Inductive, PTL
=============================================================================
