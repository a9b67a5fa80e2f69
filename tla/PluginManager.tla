------------------------------ MODULE PluginManager ------------------------------
(***************************************************************************)
(* The plugin manager of infinoted and the plugins that look after          *)
(* sessions and connections: infinoted-plugin-manager.c with autosave,      *)
(* directory-sync, linekeeper, record, transformation-protection, logging,  *)
(* traffic-logging, certificate-auth and the note plugins, under the        *)
(* directory's signals, the reload of the configuration and the end of the  *)
(* server.  The plugins' callbacks change the server within one event of    *)
(* the main loop: they are functions on its state S.                        *)
(***************************************************************************)
EXTENDS Naturals, Sequences, FiniteSets, FiniteSetsExt, SequencesExt

CONSTANTS Conns, Notes, Users,
          Plans,      \* the lists of plugins a configuration may name
          Keep,       \* linekeeper's n-lines
          Bodies,     \* what a text says, apart from the empty lines at its end
          Edits, Faults, Reloads  \* bounds: edits, failing writes, restarts

VARIABLES server,     \* the state of the server
          edits, faults, reloads
managerVars == <<server, edits, faults, reloads>>

NoText == [body |-> 0, lines |-> 0]
None == "none"
Fresh == [
  up |-> FALSE,
  loaded |-> <<>>,                      \* priv->plugins, the head was loaded last
  infos |-> {},                         \* priv->connections, priv->sessions
  conn |-> [c \in Conns |-> None],      \* the directory's connections: opening, open
  exists |-> {}, live |-> {},           \* the notes, those with a session
  disk |-> [n \in Notes |-> NoText],    \* what the storage has
  text |-> [n \in Notes |-> NoText],    \* the buffers
  base |-> [n \in Notes |-> NoText],    \* the text for which a buffer is not modified
  users |-> [n \in Notes |-> {}],       \* available users that are not local
  timers |-> {},                        \* <<plugin, note>>: timeouts that run
  file |-> [n \in Notes |-> NoText], files |-> {},  \* directory-sync's files
  keeper |-> {}, dispatch |-> {},       \* notes in which LineKeeper is, is to run
  records |-> {},                       \* notes that are recorded
  watched |-> {}, greeted |-> {},       \* logging: waits for the connection; has logged it
  verified |-> {},                      \* connections with certificate-auth's callback
  lost |-> {}, left |-> {},             \* ghosts: texts lost; files left behind
  aborted |-> FALSE]                    \* an assertion has failed
Init == server = Fresh /\ edits = 0 /\ faults = 0 /\ reloads = 0

Has(S, p, n) == <<p, n>> \in S.infos
Modified(S, n) == S.text[n] # S.base[n]
Drop(S, p, n) == [S EXCEPT !.timers = @ \ {<<p, n>>}]
Arm(S, p, n) == [S EXCEPT !.timers = @ \union {<<p, n>>}]

(***************************************************************************)
(* Changes of a buffer, and who hears of them                              *)
(***************************************************************************)
\* infinoted_plugin_autosave_buffer_notify_modified_cb
NotifyModified(S, n, was) ==
  IF ~Has(S, "autosave", n) \/ Modified(S, n) = was THEN S
  ELSE IF Modified(S, n) THEN Arm(S, "autosave", n) ELSE Drop(S, "autosave", n)

\* infinoted_plugin_directory_sync_buffer_text_inserted_cb, ..._erased_cb
SyncChanged(S, n) == IF Has(S, "directory-sync", n) THEN Arm(S, "directory-sync", n) ELSE S

\* infinoted_plugin_linekeeper_text_inserted_cb, ..._erased_cb
KeeperChanged(S, n) == IF n \in S.keeper THEN [S EXCEPT !.dispatch = @ \union {n}] ELSE S

SetText(S, n, t) ==
  LET T == [S EXCEPT !.text[n] = t]
  IN  KeeperChanged(SyncChanged(NotifyModified(T, n, Modified(S, n)), n), n)

(***************************************************************************)
(* The plugins; o tells how their writes end: ok, write, hook              *)
(***************************************************************************)
\* A variant for the mutation checks: a failed save is not tried again.
AutosaveSaveOnce(S, n, o) ==
  LET T == Drop(S, "autosave", n)
  IN  IF o = "write" THEN T ELSE [T EXCEPT !.disk[n] = S.text[n], !.base[n] = S.text[n]]

AutosaveSave(S, n, o) ==
  LET T == Drop(S, "autosave", n)
  IN  IF o = "write" THEN Arm(T, "autosave", n)
      ELSE [T EXCEPT !.disk[n] = S.text[n], !.base[n] = S.text[n]]

SyncSave(S, n, o) ==
  LET T == Drop(S, "directory-sync", n)
  IN  IF o = "write" THEN T ELSE [T EXCEPT !.file[n] = S.text[n], !.files = @ \union {n}]
SyncSaveWithError(S, n, o, retry) ==
  IF o # "ok" /\ retry THEN Arm(SyncSave(S, n, o), "directory-sync", n) ELSE SyncSave(S, n, o)

\* infinoted_plugin_directory_sync_node_removed_cb
SyncRemove(S, n, o) ==
  IF "directory-sync" \in ToSet(S.loaded) /\ o # "write" THEN [S EXCEPT !.files = @ \ {n}]
  ELSE [S EXCEPT !.left = @ \union ({n} \intersect S.files)]

\* infinoted_plugin_linekeeper_run for a user, or for none: the session asserts
\* that the one who edits is a user.
KeeperRun(S, n, user) ==
  IF S.text[n].lines = Keep THEN S
  ELSE IF user THEN SetText(S, n, [S.text[n] EXCEPT !.lines = Keep])
  ELSE [S EXCEPT !.aborted = TRUE]

\* A variant for the mutation checks: the user stays when the last one leaves.
KeeperRemoveUserLate(S, n) == S

KeeperRemoveUser(S, n) == [S EXCEPT !.keeper = @ \ {n}]

\* infinoted_plugin_linekeeper_join_user, ..._user_join_cb: the join is answered
\* within the call; the handlers are connected after the lines were counted.
KeeperJoinUser(S, n, o) ==
  IF o = "write" THEN S
  ELSE LET T == KeeperRun(S, n, TRUE)
           U == [T EXCEPT !.keeper = @ \union {n}]
       IN  IF U.users[n] = {} THEN KeeperRemoveUser(U, n) ELSE U

\* infinoted_plugin_linekeeper_add_available_user_cb, ..._remove_available_user_cb
AddAvailableUser(S, n, u, o) ==
  LET T == [S EXCEPT !.users[n] = @ \union {u}]
  IN  IF Has(S, "linekeeper", n) /\ n \notin S.keeper THEN KeeperJoinUser(T, n, o) ELSE T
RemoveAvailableUser(S, n, u) ==
  LET T == [S EXCEPT !.users[n] = @ \ {u}]
  IN  IF n \in S.keeper /\ T.users[n] = {} THEN KeeperRemoveUser(T, n) ELSE T

SessionPlugins == {"autosave", "directory-sync", "linekeeper", "record", "logging",
                   "transformation-protection"}
ConnectionPlugins == {"logging", "traffic-logging", "certificate-auth"}

\* ..._session_added of the plugins.
AutosaveAdded(S, n) == IF Modified(S, n) THEN Arm(S, "autosave", n) ELSE S
KeeperAdded(S, n, o) == IF S.users[n] # {} THEN KeeperJoinUser(S, n, o) ELSE S
RecordAdded(S, n, o) == IF o = "ok" THEN [S EXCEPT !.records = @ \union {n}] ELSE S

\* infinoted_plugin_manager_add_session
AddSession(S, p, n, o) ==
  LET T == [S EXCEPT !.infos = @ \union {<<p, n>>}]
  IN  CASE p = "autosave" -> AutosaveAdded(T, n)
        [] p = "directory-sync" -> SyncSaveWithError(T, n, o, TRUE)
        [] p = "linekeeper" -> KeeperAdded(T, n, o)
        [] p = "record" -> RecordAdded(T, n, o)
        [] OTHER -> T

\* ..._session_removed of the plugins.
SyncRemoved(S, n, o) ==
  IF <<"directory-sync", n>> \in S.timers THEN SyncSaveWithError(S, n, o, FALSE) ELSE S
KeeperRemoved(S, n) == [S EXCEPT !.dispatch = @ \ {n}, !.keeper = @ \ {n}]
RecordRemoved(S, n) == [S EXCEPT !.records = @ \ {n}]

\* infinoted_plugin_manager_remove_session
RemoveSession(S, p, n, o) ==
  LET T == [S EXCEPT !.infos = @ \ {<<p, n>>}]
  IN  CASE p = "autosave" -> Drop(T, p, n)
        [] p = "directory-sync" -> SyncRemoved(T, n, o)
        [] p = "linekeeper" -> KeeperRemoved(T, n)
        [] p = "record" -> RecordRemoved(T, n)
        [] OTHER -> T

\* ..._connection_added and ..._connection_removed of the plugins.
LoggingAdded(S, c) == IF S.conn[c] = "opening" THEN [S EXCEPT !.watched = @ \union {c}]
                      ELSE [S EXCEPT !.greeted = @ \union {c}]
LoggingRemoved(S, c) == [S EXCEPT !.watched = @ \ {c}, !.greeted = @ \ {c}]
TrafficAdded(S, c) == [S EXCEPT !.infos = @ \union {<<"traffic-logging", c>>}]
TrafficRemoved(S, c) == [S EXCEPT !.infos = @ \ {<<"traffic-logging", c>>}]
CertificateAdded(S, c) == [S EXCEPT !.verified = @ \union {c}]
CertificateRemoved(S, c) == [S EXCEPT !.verified = @ \ {c}]

\* infinoted_plugin_manager_add_connection, infinoted_plugin_manager_remove_connection
AddConnection(S, p, c) ==
  CASE p = "logging" -> LoggingAdded(S, c)
    [] p = "traffic-logging" -> TrafficAdded(S, c)
    [] p = "certificate-auth" -> CertificateAdded(S, c)
RemoveConnection(S, p, c) ==
  CASE p = "logging" -> LoggingRemoved(S, c)
    [] p = "traffic-logging" -> TrafficRemoved(S, c)
    [] p = "certificate-auth" -> CertificateRemoved(S, c)

(***************************************************************************)
(* Loading and unloading; sessions and connections that come and go        *)
(***************************************************************************)
AddSessions(S, p, ns, o) ==
  IF p \in SessionPlugins THEN FoldSet(LAMBDA n, T : AddSession(T, p, n, o), S, ns) ELSE S
RemoveSessions(S, p, ns, o) ==
  IF p \in SessionPlugins THEN FoldSet(LAMBDA n, T : RemoveSession(T, p, n, o), S, ns) ELSE S
AddConnections(S, p, cs) ==
  IF p \in ConnectionPlugins THEN FoldSet(LAMBDA c, T : AddConnection(T, p, c), S, cs) ELSE S
RemoveConnections(S, p, cs) ==
  IF p \in ConnectionPlugins THEN FoldSet(LAMBDA c, T : RemoveConnection(T, p, c), S, cs) ELSE S
Connected(S) == {c \in Conns : S.conn[c] # None}

\* A variant for the mutation checks: the plugins are not told.
UnsubscribeSessionQuietly(S, n, o) ==
  [S EXCEPT !.live = @ \ {n}, !.users[n] = {}, !.text[n] = NoText, !.base[n] = NoText]

\* infinoted_plugin_manager_unsubscribe_session_cb, then the session is gone.
UnsubscribeSession(S, n, o) ==
  LET T == FoldLeft(LAMBDA U, p : RemoveSessions(U, p, {n}, o), S, S.loaded)
  IN  [T EXCEPT !.live = @ \ {n}, !.users[n] = {}, !.text[n] = NoText, !.base[n] = NoText]

\* infd_directory_remove_plugin: the sessions are closed as they are.
RemoveNotePlugin(S, o) ==
  LET unsaved == {n \in S.live : S.text[n] # S.disk[n]}
      T == FoldSet(LAMBDA n, U : UnsubscribeSession(U, n, o), S, S.live)
  IN  [T EXCEPT !.lost = @ \union unsaved]

\* infinoted_plugin_manager_load_plugin
LoadPlugin(S, p, o) ==
  LET T == AddSessions(AddConnections(S, p, Connected(S)), p, S.live, o)
  IN  [T EXCEPT !.loaded = <<p>> \o @]

\* A variant for the mutation checks: the connections are forgotten.
UnloadPluginSessions(S, o) ==
  LET p == Head(S.loaded)
      T == RemoveSessions([S EXCEPT !.loaded = Tail(@)], p, S.live, o)
  IN  IF p = "note-text" THEN RemoveNotePlugin(T, o) ELSE T

\* infinoted_plugin_manager_unload_plugin for the plugin loaded last
UnloadPlugin(S, o) ==
  LET p == Head(S.loaded)
      T == RemoveSessions([S EXCEPT !.loaded = Tail(@)], p, S.live, o)
      U == RemoveConnections(T, p, Connected(S))
  IN  IF p = "note-text" THEN RemoveNotePlugin(U, o) ELSE U
UnloadAll(S, o) == FoldLeft(LAMBDA T, i : UnloadPlugin(T, o), S, S.loaded)

\* infinoted_plugin_manager_load: if one plugin fails, all are unloaded.
LoadPlugins(S, plan, fails, o) ==
  LET T == FoldLeft(LAMBDA U, p : LoadPlugin(U, p, o), UnloadAll(S, o),
                    IF fails THEN Front(plan) ELSE plan)
  IN  IF fails THEN UnloadAll(T, o) ELSE T

(***************************************************************************)
(* The events of the main loop                                             *)
(***************************************************************************)
Outcome(o) == IF o = "ok" THEN UNCHANGED faults ELSE faults < Faults /\ faults' = faults + 1
Outcomes == {"ok", "write", "hook"}
Running == server.up /\ ~server.aborted
Handles(S) == "note-text" \in ToSet(S.loaded)

\* infinoted_run_new, infinoted_run_load_directory: the server is started; if a
\* plugin cannot be loaded it ends.
Start(plan, fails) ==
  /\ ~server.up /\ ~server.aborted /\ reloads < Reloads
  /\ server' = [LoadPlugins(server, plan, fails, "ok") EXCEPT !.up = ~fails]
  /\ reloads' = reloads + 1 /\ UNCHANGED <<edits, faults>>

\* infinoted_config_reload: the manager is disposed of, a new one loads the plugins
Reload(plan, fails, o) ==
  /\ Running /\ reloads < Reloads /\ Outcome(o)
  /\ server' = LoadPlugins(server, plan, fails, o)
  /\ reloads' = reloads + 1 /\ UNCHANGED edits

\* infinoted_run_free: the plugins go before the directory, which saves the
\* sessions that are left.
Stop(o) ==
  /\ Running /\ Outcome(o)
  /\ LET T == UnloadAll(server, o)
     IN  server' = [T EXCEPT !.up = FALSE, !.conn = [c \in Conns |-> None], !.live = {},
                             !.disk = [n \in Notes |-> IF n \in T.live THEN T.text[n] ELSE T.disk[n]]]
  /\ UNCHANGED <<edits, reloads>>

\* infinoted_plugin_manager_connection_added_cb
AddConn(c, status) ==
  /\ Running /\ server.conn[c] = None
  /\ LET T == [server EXCEPT !.conn[c] = status]
     IN  server' = FoldLeft(LAMBDA U, p : AddConnections(U, p, {c}), T, T.loaded)
  /\ UNCHANGED <<edits, faults, reloads>>
\* infinoted_plugin_logging_connection_notify_status_cb
OpenConn(c) ==
  /\ Running /\ server.conn[c] = "opening"
  /\ server' = [server EXCEPT !.conn[c] = "open", !.watched = @ \ {c},
                              !.greeted = IF c \in server.watched THEN @ \union {c} ELSE @]
  /\ UNCHANGED <<edits, faults, reloads>>
\* infinoted_plugin_manager_connection_removed_cb
RemoveConn(c) ==
  /\ Running /\ server.conn[c] # None
  /\ LET T == [server EXCEPT !.conn[c] = None]
     IN  server' = FoldLeft(LAMBDA U, p : RemoveConnections(U, p, {c}), T, T.loaded)
  /\ UNCHANGED <<edits, faults, reloads>>

\* A note is created; it is removed, its session is not saved then.
AddNode(n) ==
  /\ Running /\ Handles(server) /\ n \notin server.exists
  /\ server' = [server EXCEPT !.exists = @ \union {n}, !.disk[n] = NoText]
  /\ UNCHANGED <<edits, faults, reloads>>
RemoveNode(n, o) ==
  /\ Running /\ n \in server.exists /\ Outcome(o)
  /\ LET T == IF n \in server.live THEN UnsubscribeSession(server, n, o) ELSE server
     IN  server' = SyncRemove([T EXCEPT !.exists = @ \ {n}, !.lost = @ \ {n}], n, o)
  /\ UNCHANGED <<edits, reloads>>

\* The session is read (infinoted_plugin_note_text_session_read) and
\* infinoted_plugin_manager_subscribe_session_cb tells the plugins.
OpenSession(n, o) ==
  /\ Running /\ Handles(server) /\ n \in server.exists \ server.live /\ Outcome(o)
  /\ LET T == [server EXCEPT !.live = @ \union {n}, !.text[n] = server.disk[n],
                             !.base[n] = server.disk[n], !.lost = @ \ {n}]
     IN  server' = FoldLeft(LAMBDA U, p : AddSessions(U, p, {n}, o), T, T.loaded)
  /\ UNCHANGED <<edits, reloads>>

\* infd_directory_session_save_timeout_func: nobody uses the session.  If it
\* cannot be written it is kept.
IdleTimeout(n, o) ==
  /\ Running /\ n \in server.live /\ server.users[n] = {} /\ Outcome(o)
  /\ server' = IF o = "write" THEN server
               ELSE UnsubscribeSession([server EXCEPT !.disk[n] = server.text[n]], n, o)
  /\ UNCHANGED <<edits, reloads>>

\* infd_directory_handle_save_session: the buffer stays modified.
SaveSession(n) ==
  /\ Running /\ n \in server.live /\ server.users[n] # {} /\ server.text[n] # server.disk[n]
  /\ server' = [server EXCEPT !.disk[n] = server.text[n]]
  /\ UNCHANGED <<edits, faults, reloads>>

Join(n, u, o) ==
  /\ Running /\ n \in server.live /\ u \notin server.users[n] /\ Outcome(o)
  /\ server' = AddAvailableUser(server, n, u, o) /\ UNCHANGED <<edits, reloads>>
Leave(n, u) ==
  /\ Running /\ u \in server.users[n]
  /\ server' = RemoveAvailableUser(server, n, u) /\ UNCHANGED <<edits, faults, reloads>>

\* A request of a user; infinoted_plugin_transformation_protection_check_request_cb
\* unsubscribes the user of a request that is too far behind.
Edit(n, u, t, late) ==
  /\ Running /\ n \in server.live /\ u \in server.users[n] /\ edits < Edits /\ edits' = edits + 1
  /\ server' = IF late /\ Has(server, "transformation-protection", n)
               THEN RemoveAvailableUser(server, n, u) ELSE SetText(server, n, t)
  /\ UNCHANGED <<faults, reloads>>

\* infinoted_plugin_autosave_timeout_cb, infinoted_plugin_directory_sync_timeout_cb
AutosaveTimeout(n, o) ==
  /\ Running /\ <<"autosave", n>> \in server.timers /\ Outcome(o)
  /\ server' = AutosaveSave(server, n, o) /\ UNCHANGED <<edits, reloads>>
SyncTimeout(n, o) ==
  /\ Running /\ <<"directory-sync", n>> \in server.timers /\ Outcome(o)
  /\ server' = SyncSaveWithError(server, n, o, TRUE) /\ UNCHANGED <<edits, reloads>>

\* infinoted_plugin_linekeeper_run_dispatch_func
KeeperDispatch(n) ==
  /\ Running /\ n \in server.dispatch
  /\ server' = KeeperRun([server EXCEPT !.dispatch = @ \ {n}], n, n \in server.keeper)
  /\ UNCHANGED <<edits, faults, reloads>>

Texts == [body : Bodies, lines : 0..Keep]
Next ==
  \/ \E plan \in Plans, fails \in BOOLEAN : Start(plan, fails)
  \/ \E plan \in Plans, fails \in BOOLEAN, o \in Outcomes : Reload(plan, fails, o)
  \/ \E o \in Outcomes : Stop(o)
  \/ \E c \in Conns : OpenConn(c) \/ RemoveConn(c) \/ \E s \in {"opening", "open"} : AddConn(c, s)
  \/ \E n \in Notes :
       \/ AddNode(n) \/ SaveSession(n) \/ KeeperDispatch(n)
       \/ \E o \in Outcomes : RemoveNode(n, o) \/ OpenSession(n, o) \/ IdleTimeout(n, o)
                              \/ AutosaveTimeout(n, o) \/ SyncTimeout(n, o)
       \/ \E u \in Users : Leave(n, u) \/ (\E o \in Outcomes : Join(n, u, o))
                           \/ \E t \in Texts, late \in BOOLEAN : Edit(n, u, t, late)

\* Timeouts and dispatches run while the main loop does.
Fairness == \A n \in Notes : /\ WF_managerVars(\E o \in Outcomes : AutosaveTimeout(n, o))
                             /\ WF_managerVars(\E o \in Outcomes : SyncTimeout(n, o))
                             /\ WF_managerVars(KeeperDispatch(n))
Spec == Init /\ [][Next]_managerVars /\ Fairness

(***************************************************************************)
(* Properties                                                              *)
(***************************************************************************)
\* The manager keeps an info for each loaded plugin and each of the directory's
\* sessions and connections, and what a plugin has attached to them is there
\* exactly while it is loaded; after a reload, a failed one too, and at the end,
\* where the manager asserts that its tables are empty.
InfosExact ==
  LET S == server
      on == ToSet(S.loaded)
  IN  /\ S.infos = ((on \intersect SessionPlugins) \X S.live)
                   \union ((on \intersect {"traffic-logging"}) \X Connected(S))
      /\ S.timers \subseteq S.infos
      /\ S.keeper \union S.dispatch \subseteq {n \in S.live : Has(S, "linekeeper", n)}
      /\ S.records \subseteq {n \in S.live : Has(S, "record", n)}
      /\ S.verified = IF "certificate-auth" \in on THEN Connected(S) ELSE {}
      /\ S.watched \union S.greeted = IF "logging" \in on THEN Connected(S) ELSE {}
      /\ S.watched = {c \in S.watched : S.conn[c] = "opening"}

\* While a document is modified autosave's timeout runs, and while the file of
\* directory-sync differs from the document its timeout runs; a file is not left
\* behind by a document that was removed, unless it could not be deleted.
SavePending ==
  LET S == server
  IN  \A n \in Notes :
        /\ Has(S, "autosave", n) => (Modified(S, n) <=> <<"autosave", n>> \in S.timers)
        /\ Has(S, "directory-sync", n) =>
             (<<"directory-sync", n>> \in S.timers \/ (n \in S.files /\ S.file[n] = S.text[n]))
        /\ n \in S.files => n \in S.exists \union S.left

\* Where LineKeeper has joined and is not about to run, the document ends with
\* its number of empty lines; it is never the only user of a document.
LinesKept ==
  \A n \in server.keeper :
    server.users[n] # {} /\ (n \in server.dispatch \/ server.text[n].lines = Keep)

\* What the plugins keep is what they look after.
PluginsSound == InfosExact /\ SavePending /\ LinesKept

\* "Another save attempt will be made when the server is shut down": a document
\* that was open when the server ends has been saved.
SavedAtShutdown == ~server.up => server.lost = {}

\* A buffer is changed for a user of its session.
EditedByUser == ~server.aborted

\* A modified document is saved in the end, while its session and the plugin stay.
SavedInTheEnd ==
  \A n \in Notes : (Has(server, "autosave", n) /\ Modified(server, n)) ~>
                   (~Modified(server, n) \/ ~Has(server, "autosave", n) \/ ~Running)
================================================================================
