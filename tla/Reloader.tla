------------------------------ MODULE Reloader ------------------------------
(***************************************************************************)
(* Automatic reload of files.  The code has the same scheme three times:   *)
(*   rules   the restriction file (restrictions/config_reloader.rs);       *)
(*   server  certificate, key and CAs of a server (tunnel/tls_reloader.rs),*)
(*           where the accept loop builds a new acceptor when a flag is    *)
(*           set (server/server.rs, TlsContext);                           *)
(*   client  certificate and key of a client (tunnel/tls_reloader.rs),     *)
(*           whose event handler builds the new connector itself.          *)
(* The watcher's own thread (Loop) runs the event handler.  A watch goes   *)
(* with the file it was set on: when a file is removed the handler starts  *)
(* a thread that waits for the file to come back, sets the watch again and *)
(* handles a made-up event.  The threads reload without excluding each     *)
(* other.                                                                  *)
(*                                                                         *)
(* The contents of a file are numbered in the order they are written; 0 is *)
(* a missing file.  A key and a certificate belong together when they      *)
(* carry the same number.  External: the files, the notify watcher (which  *)
(* sets a watch between two events) and rustls (which refuses what does    *)
(* not parse and a key that does not belong to the certificate).           *)
(***************************************************************************)
EXTENDS Naturals, Sequences, FiniteSets

CONSTANTS
  Reloaders,    \* [role, files, writes]: files in the order they are watched;
                \* writes bounds the contents written after the first ones
  MaxThreads,   \* bound: threads of try_rewatch_config and _certificate
  MaxBad,       \* bound: contents that do not parse
  MaxRemovals   \* bound: times a file is removed

ASSUME ReloaderAssumption ==
  /\ \A r \in Reloaders : r.role \in {"rules", "server", "client"} /\ r.writes \in Nat
  /\ MaxThreads \in Nat /\ MaxBad \in Nat /\ MaxRemovals \in Nat

VARIABLES
  reloader,  \* which one this is
  file,      \* the content at each path, 0 if there is no file
  version,   \* the last content written to each path
  bad,       \* contents <<f, v>> that do not parse
  removals,  \* times a file was removed
  watched,   \* files with a watch
  events,    \* events the watcher's thread has not handled
  start,     \* control point of start-up
  toWatch,   \* files start-up has still to watch
  early,     \* files changed before their first watch and not read since
  lostWatch, \* files whose watch could not be set again
  pc,        \* control point of each thread
  of,        \* the file whose event a thread handles
  loaded,    \* the contents a thread has read
  cfg,       \* server: tls_certificate, tls_key and the CAs behind mutexes
  flag,      \* tls_reload_certificate
  acc,       \* control point of the server's accept loop
  accCa,     \* the CAs the accept loop has read
  active,    \* the rules, or what the acceptor or connector was built from
  wentBack   \* an older content has replaced a newer one

fileVars == <<reloader, file, version, bad, removals>>
watchVars == <<watched, start, toWatch, lostWatch>>
accVars == <<acc, accCa>>
vars == <<fileVars, watchVars, early, events, pc, of, loaded, cfg, flag, accVars,
          active, wentBack>>

Role == reloader.role
Files == {reloader.files[i] : i \in DOMAIN reloader.files}
Loop == 0
Threads == 1 .. MaxThreads
Procs == 0 .. MaxThreads
First == [f \in Files |-> 1]

\* The files have just been read for the first time.
Init ==
  /\ reloader \in Reloaders
  /\ file = First /\ version = First /\ bad = {} /\ removals = 0
  /\ watched = {} /\ events = << >> /\ start = "watching" /\ toWatch = reloader.files
  /\ early = {} /\ lostWatch = {}
  /\ pc = [p \in Procs |-> "idle"]
  /\ of = [p \in Procs |-> reloader.files[1]]
  /\ loaded = [p \in Procs |-> First]
  /\ cfg = First /\ flag = FALSE
  /\ acc = "idle" /\ accCa = 1
  /\ active = First /\ wentBack = FALSE

-----------------------------------------------------------------------------
(***************************************************************************)
(* The files, as whoever edits them changes them                           *)
(***************************************************************************)

Unnoticed(f) ==
  early' = IF start = "watching" /\ f \notin watched THEN early \cup {f} ELSE early

NewContent(f) ==
  /\ Cardinality(UNION {{g} \X (2 .. version[g]) : g \in Files}) < reloader.writes
  /\ version' = [version EXCEPT ![f] = @ + 1]
  /\ file' = [file EXCEPT ![f] = version'[f]]
  /\ \/ bad' = bad
     \/ Cardinality(bad) < MaxBad /\ bad' = bad \cup {<<f, version'[f]>>}
  /\ Unnoticed(f)
  /\ UNCHANGED <<reloader, removals>>

Notify(kind, f) ==
  events' = IF f \in watched THEN Append(events, <<kind, f>>) ELSE events

EditFile(f) ==
  /\ file[f] # 0
  /\ NewContent(f) /\ Notify("modify", f)
  /\ UNCHANGED <<watchVars, pc, of, loaded, cfg, flag, accVars, active, wentBack>>

RemoveFile(f) ==
  /\ file[f] # 0
  /\ removals < MaxRemovals
  /\ removals' = removals + 1
  /\ file' = [file EXCEPT ![f] = 0]
  /\ watched' = watched \ {f}
  /\ Notify("remove", f) /\ Unnoticed(f)
  /\ UNCHANGED <<reloader, version, bad, start, toWatch, lostWatch, pc, of, loaded, cfg, flag,
                 accVars, active, wentBack>>

CreateFile(f) ==
  /\ file[f] = 0
  /\ NewContent(f)
  /\ UNCHANGED <<watchVars, events, pc, of, loaded, cfg, flag, accVars, active, wentBack>>

-----------------------------------------------------------------------------
(***************************************************************************)
(* Start-up                                                                *)
(***************************************************************************)

\* watcher.watch() on one path after the other; on an error the program ends.
Watch ==
  /\ start = "watching" /\ toWatch # << >>
  /\ IF file[Head(toWatch)] = 0
     THEN start' = "exited" /\ UNCHANGED <<toWatch, watched>>
     ELSE /\ toWatch' = Tail(toWatch) /\ watched' = watched \cup {Head(toWatch)}
          /\ UNCHANGED start
  /\ UNCHANGED <<fileVars, lostWatch, early, events, pc, of, loaded, cfg, flag, accVars,
                 active, wentBack>>

\* The watcher replaces the placeholder behind the mutex.
InstallWatcher ==
  /\ start = "watching" /\ toWatch = << >>
  /\ start' = "running"
  /\ UNCHANGED <<fileVars, watched, toWatch, lostWatch, early, events, pc, of, loaded, cfg, flag,
                 accVars, active, wentBack>>

-----------------------------------------------------------------------------
(***************************************************************************)
(* The event handlers and the threads they start                           *)
(***************************************************************************)

\* What rules, an acceptor or a connector can be built from.
Buildable(c) ==
  /\ \A f \in Files : c[f] # 0 /\ <<f, c[f]>> \notin bad
  /\ Role # "rules" => c["cert"] = c["key"]

\* load_certificates_from_pem leaves out what does not parse and fails only
\* on a missing file; load_private_key_from_file and from_config_file fail on
\* both.
Loadable(f) == file[f] # 0 /\ (f \in {"key", "rules"} => <<f, file[f]>> \notin bad)

\* A thread ends, or the watcher's thread returns from the handler.
Return(p) ==
  /\ pc' = [pc EXCEPT ![p] = "idle"]
  /\ of' = [of EXCEPT ![p] = reloader.files[1]]
  /\ loaded' = [loaded EXCEPT ![p] = First]

\* thread::spawn of the thread that waits for a file.  A thread whose own
\* made-up event fails ends there, and the thread it starts takes its place.
StartRewatch(p, f) ==
  \E t \in IF p = Loop THEN Threads ELSE {p} :
    /\ p = Loop => pc[t] = "idle" /\ \A u \in 1 .. t - 1 : pc[u] # "idle"
    /\ pc' = [[pc EXCEPT ![p] = "idle"] EXCEPT ![t] = "exists"]
    /\ of' = [[of EXCEPT ![p] = reloader.files[1]] EXCEPT ![t] = f]
    /\ loaded' = [loaded EXCEPT ![p] = First]

\* Mutant of HandleEvent: the handler waits for the file by itself.
HandleEventInline ==
  /\ pc[Loop] = "idle" /\ events # << >> /\ start # "exited"
  /\ events' = Tail(events)
  /\ pc' = [pc EXCEPT ![Loop] = IF Head(events)[1] = "modify" THEN "load" ELSE "exists"]
  /\ of' = [of EXCEPT ![Loop] = Head(events)[2]]
  /\ UNCHANGED <<fileVars, watchVars, early, loaded, cfg, flag, accVars, active, wentBack>>

\* The handler on the watcher's thread: reload after a create or modify
\* event, a thread for the file after a remove event.
HandleEvent ==
  /\ pc[Loop] = "idle" /\ events # << >> /\ start # "exited"
  /\ events' = Tail(events)
  /\ LET f == Head(events)[2] IN
       \/ /\ Head(events)[1] = "modify"
          /\ pc' = [pc EXCEPT ![Loop] = "load"]
          /\ of' = [of EXCEPT ![Loop] = f]
          /\ UNCHANGED loaded
       \/ Head(events)[1] = "remove" /\ StartRewatch(Loop, f)
  /\ UNCHANGED <<fileVars, watchVars, early, cfg, flag, accVars, active, wentBack>>

\* path.exists(), retried every 10 seconds.
FileExists(t) ==
  /\ pc[t] = "exists"
  /\ file[of[t]] # 0
  /\ pc' = [pc EXCEPT ![t] = "rewatch"]
  /\ UNCHANGED <<fileVars, watchVars, early, events, of, loaded, cfg, flag, accVars,
                 active, wentBack>>

\* unwatch and watch under the mutex, answered by the watcher's thread
\* between two events (those of the old watch may be lost); then the made-up
\* create event.  A thread that cannot set the watch gives up; a watch set on
\* the placeholder, which has a thread of its own, reports to nobody.
Rewatch(t) ==
  /\ pc[t] = "rewatch" /\ (start = "running" => pc[Loop] = "idle")
  /\ \/ file[of[t]] = 0 /\ Return(t)
     \/ /\ file[of[t]] # 0
        /\ pc' = [pc EXCEPT ![t] = "load"] /\ UNCHANGED <<of, loaded>>
  /\ IF file[of[t]] # 0 /\ start = "running"
     THEN /\ watched' = watched \cup {of[t]}
          /\ events' \in {events, SelectSeq(events, LAMBDA e : e[2] # of[t])}
          /\ lostWatch' = lostWatch \ {of[t]}
     ELSE /\ lostWatch' = lostWatch \cup {of[t]}
          /\ UNCHANGED <<watched, events>>
  /\ UNCHANGED <<fileVars, start, toWatch, early, cfg, flag, accVars, active,
                 wentBack>>

\* Mutant of RulesLoad: what does not parse is taken for rules.
RulesLoadUnparsed(p) ==
  /\ pc[p] = "load" /\ Role = "rules"
  /\ IF file["rules"] # 0
     THEN /\ loaded' = [loaded EXCEPT ![p] = file]
          /\ pc' = [pc EXCEPT ![p] = "store"]
          /\ early' = {}
          /\ UNCHANGED of
     ELSE Return(p) /\ UNCHANGED early
  /\ UNCHANGED <<fileVars, watchVars, events, cfg, flag, accVars, active, wentBack>>

\* reload_restrictions_config reads the file; an error keeps the old rules.
RulesLoad(p) ==
  /\ pc[p] = "load" /\ Role = "rules"
  /\ IF Loadable("rules")
     THEN /\ loaded' = [loaded EXCEPT ![p] = file]
          /\ pc' = [pc EXCEPT ![p] = "store"]
          /\ early' = {}
          /\ UNCHANGED of
     ELSE Return(p) /\ UNCHANGED early
  /\ UNCHANGED <<fileVars, watchVars, events, cfg, flag, accVars, active, wentBack>>

\* restrictions.store().
RulesStore(p) ==
  /\ pc[p] = "store" /\ Role = "rules"
  /\ active' = loaded[p]
  /\ wentBack' = (wentBack \/ loaded[p]["rules"] < active["rules"])
  /\ Return(p)
  /\ UNCHANGED <<fileVars, watchVars, early, events, cfg, flag, accVars>>

\* handle_server_fs_event loads the one file the event is about, and starts
\* try_rewatch_certificate if that fails.
ServerLoad(p) ==
  /\ pc[p] = "load" /\ Role = "server"
  /\ IF Loadable(of[p])
     THEN /\ loaded' = [loaded EXCEPT ![p] = [@ EXCEPT ![of[p]] = file[of[p]]]]
          /\ pc' = [pc EXCEPT ![p] = "store"]
          /\ early' = early \ {of[p]}
          /\ UNCHANGED of
     ELSE StartRewatch(p, of[p]) /\ UNCHANGED early
  /\ UNCHANGED <<fileVars, watchVars, events, cfg, flag, accVars, active, wentBack>>

\* Mutant of ServerStore: the flag is set before the content is there.
ServerStoreFlagFirst(p) ==
  \/ /\ pc[p] = "store" /\ Role = "server"
     /\ flag' = TRUE
     /\ pc' = [pc EXCEPT ![p] = "store2"]
     /\ UNCHANGED <<fileVars, watchVars, early, events, of, loaded, cfg, accVars, active,
                    wentBack>>
  \/ /\ pc[p] = "store2" /\ Role = "server"
     /\ cfg' = [cfg EXCEPT ![of[p]] = loaded[p][of[p]]]
     /\ pc' = [pc EXCEPT ![p] = "idle"]
     /\ UNCHANGED <<fileVars, watchVars, early, events, of, loaded, flag, accVars, active,
                    wentBack>>

\* The content replaces the one behind its mutex ...
ServerStore(p) ==
  /\ pc[p] = "store" /\ Role = "server"
  /\ cfg' = [cfg EXCEPT ![of[p]] = loaded[p][of[p]]]
  /\ wentBack' = (wentBack \/ loaded[p][of[p]] < cfg[of[p]])
  /\ pc' = [pc EXCEPT ![p] = "flag"]
  /\ UNCHANGED <<fileVars, watchVars, early, events, of, loaded, flag, accVars, active>>

\* handle_client_fs_event loads both files, whichever the event is about:
\* the certificate ...
ClientLoadCert(p) ==
  /\ pc[p] = "load" /\ Role = "client"
  /\ loaded' = [loaded EXCEPT ![p] = [@ EXCEPT !["cert"] = file["cert"]]]
  /\ early' = early \ {"cert"}
  /\ pc' = [pc EXCEPT ![p] = "load_key"]
  /\ UNCHANGED <<fileVars, watchVars, events, of, cfg, flag, accVars, active, wentBack>>

\* ... and the key.  If one cannot be loaded, try_rewatch_certificate starts;
\* if no connector can be built from the two, the old one stays.
ClientLoadKey(p) ==
  /\ pc[p] = "load_key"
  /\ LET pair == [loaded[p] EXCEPT !["key"] = file["key"]] IN
       IF pair["cert"] # 0 /\ Loadable("key")
       THEN /\ \/ ~Buildable(pair) /\ Return(p)
               \/ /\ Buildable(pair)
                  /\ pc' = [pc EXCEPT ![p] = "store"]
                  /\ loaded' = [loaded EXCEPT ![p] = pair]
                  /\ UNCHANGED of
            /\ early' = early \ {"key"}
       ELSE StartRewatch(p, of[p]) /\ UNCHANGED early
  /\ UNCHANGED <<fileVars, watchVars, events, cfg, flag, accVars, active, wentBack>>

\* The connector is replaced.
ClientStore(p) ==
  /\ pc[p] = "store" /\ Role = "client"
  /\ active' = loaded[p]
  /\ wentBack' = (wentBack \/ loaded[p]["cert"] < active["cert"])
  /\ pc' = [pc EXCEPT ![p] = "flag"]
  /\ UNCHANGED <<fileVars, watchVars, early, events, of, loaded, cfg, flag, accVars>>

\* ... and tls_reload_certificate.store(true).  The client never reads it.
SetFlag(p) ==
  /\ pc[p] = "flag"
  /\ flag' = TRUE
  /\ Return(p)
  /\ UNCHANGED <<fileVars, watchVars, early, events, cfg, accVars, active,
                 wentBack>>

-----------------------------------------------------------------------------
(***************************************************************************)
(* TlsContext::tls_acceptor, once for every connection the server accepts  *)
(***************************************************************************)

\* should_reload_certificate: swap(false).
SwapFlag ==
  /\ acc = "idle" /\ Role = "server" /\ start = "running"
  /\ flag
  /\ flag' = FALSE
  /\ acc' = "ca"
  /\ UNCHANGED <<fileVars, watchVars, early, events, pc, of, loaded, cfg, accCa, active,
                 wentBack>>

\* tls::tls_acceptor reads the CAs first ...
ReadCa ==
  /\ acc = "ca"
  /\ acc' = "build"
  /\ accCa' = IF "ca" \in Files THEN cfg["ca"] ELSE accCa
  /\ UNCHANGED <<fileVars, watchVars, early, events, pc, of, loaded, cfg, flag, active,
                 wentBack>>

\* ... then the certificate and, while it holds that mutex, the key.  If no
\* acceptor can be built the old one stays.
BuildAcceptor ==
  /\ acc = "build"
  /\ acc' = "idle"
  /\ LET c == [f \in Files |-> IF f = "ca" THEN accCa ELSE cfg[f]] IN
       active' = IF Buildable(c) THEN c ELSE active
  /\ UNCHANGED <<fileVars, watchVars, early, events, pc, of, loaded, cfg, flag, accCa,
                 wentBack>>

-----------------------------------------------------------------------------

Load(p) == RulesLoad(p) \/ ServerLoad(p) \/ ClientLoadCert(p) \/ ClientLoadKey(p)
Store(p) == RulesStore(p) \/ ServerStore(p) \/ ClientStore(p) \/ SetFlag(p)
ProcStep(p) ==
  start # "exited" /\ (FileExists(p) \/ Rewatch(p) \/ Load(p) \/ Store(p))
StartStep == Watch \/ InstallWatcher
AcceptStep == SwapFlag \/ ReadCa \/ BuildAcceptor

Next ==
  \/ \E f \in Files : EditFile(f) \/ RemoveFile(f) \/ CreateFile(f)
  \/ StartStep
  \/ HandleEvent
  \/ \E p \in Procs : ProcStep(p)
  \/ AcceptStep

Spec == Init /\ [][Next]_vars

\* Start-up and the threads run and connections keep coming in; files change
\* or do not.
FairSpec ==
  /\ Spec
  /\ WF_vars(StartStep) /\ WF_vars(HandleEvent) /\ WF_vars(AcceptStep)
  /\ \A p \in Procs : WF_vars(ProcStep(p))

-----------------------------------------------------------------------------
(***************************************************************************)
(* Properties                                                              *)
(***************************************************************************)

MaxVersion == reloader.writes + 1
Contents == [Files -> 0 .. MaxVersion]

\* Every variable keeps its type.
TypeOK ==
  /\ reloader \in Reloaders
  /\ file \in Contents /\ version \in Contents
  /\ bad \subseteq Files \X (1 .. MaxVersion)
  /\ removals \in 0 .. MaxRemovals
  /\ watched \subseteq Files /\ early \subseteq Files /\ lostWatch \subseteq Files
  /\ start \in {"watching", "running", "exited"} /\ toWatch \in Seq(Files)
  /\ events \in Seq({"modify", "remove"} \X Files)
  /\ pc \in [Procs -> {"idle", "exists", "rewatch", "load", "load_key", "store", "flag"}]
  /\ of \in [Procs -> Files] /\ loaded \in [Procs -> Contents]
  /\ cfg \in [Files -> 1 .. MaxVersion] /\ flag \in BOOLEAN
  /\ acc \in {"idle", "ca", "build"} /\ accCa \in 1 .. MaxVersion
  /\ active \in [Files -> 1 .. MaxVersion] /\ wentBack \in BOOLEAN

\* What is in use is always usable: no connection sees a certificate with a
\* key of another one, and no file that is missing or does not parse changes
\* the rules ("keeping the old one", reload_restrictions_config), whatever is
\* on disk while files are replaced.
ActiveUsable == TypeOK /\ Buildable(active)

\* No reload is lost between the watcher and the accept loop: while a usable
\* new configuration is not in the acceptor, the flag is set, or about to be
\* set by the thread that stored it, or the accept loop is reading it.
NoLostReload ==
  Role = "server" /\ Buildable(cfg) /\ cfg # active
    => \/ flag
       \/ \E p \in Procs : pc[p] = "flag"
       \/ acc = "ca"
       \/ acc = "build" /\ ("ca" \in Files => accCa = cfg["ca"])

\* README.md:330, 334, 338 and 343 ("automatically reloaded if it changes"):
\* when the files stay as they are, and can be used together, they are what is
\* in use, with three exceptions: a watch was lost, a file changed between its
\* first read and its first watch and not since, or a reload that had read an
\* older content stored it last.
ActiveFollowsFiles ==
  <>[](start = "running" /\ Buildable(file)
         => active = file \/ lostWatch # {} \/ early # {} \/ wentBack)
=============================================================================
