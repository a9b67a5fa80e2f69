------------------------------ MODULE XmppManager ------------------------------
(***************************************************************************)
(* The connections that can be found by address or by host name,           *)
(* inf-xmpp-manager.c.  A connection has a key for its remote address, one *)
(* for the name its resolver looks up, and one for each address found for  *)
(* it; the manager keeps them in a tree and follows their changes.  Of two *)
(* connections to the same host one is removed.                            *)
(***************************************************************************)
EXTENDS Naturals, Sequences, FiniteSets, TLC

CONSTANTS Conns, Names, Addrs, Nothing,
          Changes     \* how often the connections change

VARIABLES host,     \* host[c]: remote address, name of the resolver, whether it
                    \* is not looking up, addresses it has found
          tree,     \* key -> connection
          keys,     \* keys[c]: the array of keys of c's info
          members,  \* the connections with an info
          gone,     \* the last connection removed, and the one it was replaced by
          changes
managerVars == <<host, tree, keys, members, gone, changes>>

\* Keys of an array.
KeySet(ks) == {ks[i] : i \in DOMAIN ks}

\* The keys a connection should have, in the order
\* inf_xmpp_manager_update_keys looks at them.
Wanted(h) ==
  (IF h.addr = Nothing THEN <<>> ELSE <<h.addr>>)
  \o (IF h.name = Nothing THEN <<>>
      ELSE <<h.name>> \o (IF h.finished THEN h.found ELSE <<>>))

\* inf_xmpp_manager_check_key for each key k of w in turn: k is inserted unless
\* it is there, has tells which of the first n keys are still wanted.
RECURSIVE CheckKeys(_, _, _, _)
CheckKeys(s, c, w, has) ==
  IF w = <<>> THEN [s |-> s, has |-> has, dup |-> Nothing]
  ELSE LET k == Head(w)
       IN  IF k \notin DOMAIN s.tree
           THEN CheckKeys([s EXCEPT !.tree = @ @@ (k :> c), !.keys[c] = Append(@, k)], c, Tail(w), has)
           ELSE IF s.tree[k] # c THEN [s |-> s, has |-> has, dup |-> s.tree[k]]
           ELSE CheckKeys(s, c, Tail(w), [i \in DOMAIN has |-> has[i] \/ s.keys[c][i] = k])

\* g_tree_remove
Without(t, ks) == [k \in DOMAIN t \ ks |-> t[k]]

\* A variant for the mutation checks: the gap is not filled by the last key.
RECURSIVE DropKeysGap(_, _, _, _)
DropKeysGap(ks, has, i, n) ==
  IF i > n THEN ks
  ELSE IF has[i] THEN DropKeysGap(ks, has, i + 1, n)
  ELSE DropKeysGap(SubSeq([ks EXCEPT ![i] = ks[n]], 1, Len(ks) - 1), [has EXCEPT ![i] = has[n]], i, n - 1)

\* The keys of the array that are no longer wanted are taken out: the last of
\* the old keys takes the place, and the last key that one's.
RECURSIVE DropKeys(_, _, _, _)
DropKeys(ks, has, i, n) ==
  IF i > n THEN ks
  ELSE IF has[i] THEN DropKeys(ks, has, i + 1, n)
  ELSE LET filled == [[ks EXCEPT ![i] = ks[n]] EXCEPT ![n] = ks[Len(ks)]]
       IN  DropKeys(SubSeq(filled, 1, Len(ks) - 1), [has EXCEPT ![i] = has[n]], i, n - 1)

Manager == [tree |-> tree, keys |-> keys, members |-> members, gone |-> gone]

\* inf_xmpp_manager_connection_info_free after the keys were taken from the tree,
\* and connection-removed.
InfoFree(s, c, other) ==
  [tree |-> Without(s.tree, KeySet(s.keys[c])), keys |-> [s.keys EXCEPT ![c] = <<>>],
   members |-> s.members \ {c}, gone |-> <<c, other>>]

\* inf_xmpp_manager_update_keys
UpdateKeys(s, c, h) ==
  LET n == Len(s.keys[c])
      r == CheckKeys(s, c, Wanted(h), [i \in 1..n |-> FALSE])
      ks == DropKeys(r.s.keys[c], r.has, 1, n)
      stale == {r.s.keys[c][i] : i \in {j \in 1..n : ~r.has[j]}}
  IN  IF c \notin s.members THEN s
      ELSE IF r.dup # Nothing THEN InfoFree(r.s, c, r.dup)
      ELSE IF ks = <<>> THEN InfoFree(r.s, c, Nothing)
      ELSE [r.s EXCEPT !.tree = Without(@, stale), !.keys[c] = ks]

Becomes(s) ==
  /\ tree' = s.tree /\ keys' = s.keys /\ members' = s.members /\ gone' = s.gone

Init ==
  /\ host \in [Conns -> {[addr |-> a, name |-> n, finished |-> TRUE, found |-> <<>>] :
                           a \in {Nothing}, n \in Names \union {Nothing}}]
  /\ tree = <<>> /\ keys = [c \in Conns |-> <<>>]
  /\ members = {} /\ gone = <<Nothing, Nothing>> /\ changes = 0

\* A change of the connection or of its resolver, with the notifications of the
\* manager that follow: one for each property that has changed.
Change(c, h, times) ==
  /\ changes < Changes /\ changes' = changes + 1
  /\ host' = [host EXCEPT ![c] = h]
  /\ Becomes(CASE times = 0 -> Manager
               [] times = 1 -> UpdateKeys(Manager, c, h)
               [] times = 2 -> UpdateKeys(UpdateKeys(Manager, c, h), c, h))

\* inf_xmpp_manager_add_connection.  Who adds a connection has looked for one
\* with the same keys.
AddConnection(c) ==
  LET s == UpdateKeys([Manager EXCEPT !.members = @ \union {c}], c, host[c])
  IN  /\ c \notin members /\ KeySet(Wanted(host[c])) \intersect DOMAIN tree = {}
      /\ Wanted(host[c]) # <<>>
      /\ Becomes(s) /\ UNCHANGED <<host, changes>>

\* inf_xmpp_manager_lookup_connection: by the remote address if there is one,
\* otherwise by the name.
LookupConnection(c) ==
  LET k == IF host[c].addr = Nothing THEN host[c].name ELSE host[c].addr
  IN  IF k \in DOMAIN tree THEN tree[k] ELSE Nothing

\* inf_xmpp_manager_remove_connection
RemoveConnection(c) ==
  /\ c \in members
  /\ Becomes([InfoFree(Manager, LookupConnection(c), Nothing) EXCEPT !.gone = <<c, Nothing>>])
  /\ UNCHANGED <<host, changes>>

\* inf_tcp_connection_open and inf_name_resolver_start forget what was found.
StartLookup(c) ==
  /\ host[c].name # Nothing /\ host[c].finished
  /\ Change(c, [host[c] EXCEPT !.finished = FALSE, !.found = <<>>], 0)
\* inf_name_resolver_lookup_backup keeps it.
LookupBackup(c) ==
  /\ host[c].name # Nothing /\ host[c].finished /\ host[c].found # <<>>
  /\ Change(c, [host[c] EXCEPT !.finished = FALSE], 0)
\* "resolved"
Resolved(c, found) ==
  /\ ~host[c].finished
  /\ Change(c, [host[c] EXCEPT !.finished = TRUE, !.found = @ \o found], 1)
\* inf_tcp_connection_connected: notify::remote-address and notify::remote-port.
Connected(c) == \E a \in KeySet(host[c].found) :
  /\ host[c].finished
  /\ Change(c, [host[c] EXCEPT !.addr = a], 2)
\* notify::resolver: the application gives the connection another resolver.
SetResolver(c, name) ==
  /\ host[c].finished
  /\ Change(c, [host[c] EXCEPT !.name = name, !.finished = TRUE, !.found = <<>>], 1)

Next == \E c \in Conns :
  \/ AddConnection(c) \/ RemoveConnection(c) \/ StartLookup(c) \/ LookupBackup(c) \/ Connected(c)
  \/ \E a, b \in Addrs : Resolved(c, <<a>>) \/ (a # b /\ Resolved(c, <<a, b>>))
  \/ \E n \in Names \union {Nothing} : SetResolver(c, n)
Spec == Init /\ [][Next]_managerVars

(***************************************************************************)
(* Properties                                                              *)
(***************************************************************************)
\* The tree is exactly the keys of the members: no two share one, none is left
\* of a removed connection.  A member can be found by its address and its name,
\* and, unless a lookup runs, exactly by its keys; only it is found when it is
\* looked up itself.
KeysExact ==
  /\ DOMAIN tree = UNION {KeySet(keys[c]) : c \in members}
  /\ \A c \in Conns : \A k \in KeySet(keys[c]) : tree[k] = c
  /\ \A c \in members :
       /\ KeySet(keys[c]) # {} /\ Len(keys[c]) = Cardinality(KeySet(keys[c]))
       /\ LookupConnection(c) = c
       /\ IF host[c].finished THEN KeySet(keys[c]) = KeySet(Wanted(host[c]))
          ELSE KeySet(Wanted(host[c])) \subseteq KeySet(keys[c])
================================================================================
