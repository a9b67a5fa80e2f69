------------------------------ MODULE Replicas ------------------------------
(* The algorithms of several sites editing one document.  Each user is local *)
(* to one site.  What a user issues arrives at every other site, in order    *)
(* and when the state it was made at has been reached there: the session     *)
(* layer sees to that.                                                       *)
EXTENDS AdoptedAlgorithm

CONSTANTS Document,      \* the document everybody starts with
          MaxRequests,   \* bound: the number of requests of each user
          Kinds,         \* bound: kind, length and last position of what each user can issue
          MaxSaves       \* bound: how often the buffer of each site is saved

VARIABLES site,    \* each user's site
          sent,    \* each user's requests so far, as they are on the wire
          saves    \* counter for the bound

vars == <<site, sent, saves>>

Init ==
  /\ site = [u \in Users |-> NewSite(u, Document)]
  /\ sent = [u \in Users |-> <<>>]
  /\ saves = [u \in Users |-> 0]

OnWire(op) == IF op.kind = "delete" THEN RemoteDelete(op.pos, Len(op.text), <<>>, 0) ELSE op

(* Fresh characters, so that two equal documents got them from the same      *)
(* operations                                                                *)
NewText(u, length) == [i \in 1 .. length |-> 100 * u + 10 * Len(sent[u]) + i]

(* The operations user u can issue on document d                             *)
Operations(u, d) ==
  UNION {IF k.kind = "insert"
           THEN {Insert(p, NewText(u, k.length)) : p \in 0 .. Len(d) \cap 0 .. k.last}
           ELSE {Delete(p, Substring(d, p, k.length)) :
                   p \in 0 .. Len(d) - k.length \cap 0 .. k.last} : k \in Kinds[u]}

IssueLate(u, r, executed) ==   \* mistake: written after its own execution
  /\ Len(sent[u]) < MaxRequests[u] /\ ~site[u].aborted
  /\ sent' = [sent EXCEPT ![u] = Append(@, [r EXCEPT !.op = OnWire(@),
                                                    !.vector = executed.current])]
  /\ site' = [site EXCEPT ![u] = executed]
  /\ UNCHANGED saves

Issue(u, r, executed) ==
  /\ Len(sent[u]) < MaxRequests[u] /\ ~site[u].aborted
  /\ sent' = [sent EXCEPT ![u] = Append(@, [r EXCEPT !.op = OnWire(@)])]
  /\ site' = [site EXCEPT ![u] = executed]
  /\ UNCHANGED saves

(* The user edits the buffer, which tells the session: that makes a DO       *)
(* request of it and executes it.  Only then the buffer becomes modified.    *)
LocalDo(u, op) ==
  LET edited == [site[u] EXCEPT !.doc = Apply(op, @).doc]
      r == Request(DO, u, site[u].current, op)
  IN Issue(u, r, BufferModified(ExecuteRequest(edited, r, FALSE)))

LocalUndo(u) ==
  LET r == Request(UNDO, u, site[u].current, NoOperation)
  IN CanExecute(site[u], r) /\ Issue(u, r, ExecuteRequest(site[u], r, TRUE))

LocalRedo(u) ==
  LET r == Request(REDO, u, site[u].current, NoOperation)
  IN CanExecute(site[u], r) /\ Issue(u, r, ExecuteRequest(site[u], r, TRUE))

(* The next request of user u, made at a state that site s has reached       *)
NextFrom(s, u) == sent[u][site[s].current[u] + 1]
Ready(s, u) ==
  /\ site[s].current[u] < Len(sent[u])
  /\ CausallyBefore(NextFrom(s, u).vector, site[s].current)

ProcessRequestAhead(st, r) ==   \* mistake: takes its own state for the sender's
  LET executed == ExecuteRequest(st, r, TRUE)
  IN IF executed.aborted THEN executed
     ELSE Cleanup([executed EXCEPT !.vector[r.user] = executed.current])

(* inf_adopted_session_process_xml_run for a request that can be executed at *)
(* once: its vector tells what its user had processed.                       *)
ProcessRequest(st, r) ==
  LET known == [st EXCEPT !.vector[r.user] = r.vector]
      executed == ExecuteRequest(known, r, TRUE)
  IN IF executed.aborted THEN executed
     ELSE Cleanup([executed EXCEPT !.vector[r.user] = Add(r.vector, r.user, 1)])

(* Site s executes the next request of user u.                               *)
Receive(s, u) ==
  /\ Ready(s, u) /\ ~site[s].failed /\ ~site[s].aborted
  /\ site' = [site EXCEPT ![s] = ProcessRequest(@, NextFrom(s, u))]
  /\ UNCHANGED <<sent, saves>>

Save(s) ==
  /\ saves[s] < MaxSaves[s] /\ site[s].modified /\ ~site[s].aborted
  /\ saves' = [saves EXCEPT ![s] = @ + 1]
  /\ site' = [site EXCEPT ![s] = BufferSaved(@)]
  /\ UNCHANGED sent

Next ==
  \/ \E u \in Users : \/ \E op \in Operations(u, site[u].doc) : LocalDo(u, op)
                      \/ LocalUndo(u) \/ LocalRedo(u) \/ Save(u)
  \/ \E s, u \in Users : Receive(s, u)

Spec == Init /\ [][Next]_vars

-----------------------------------------------------------------------------
(* The components of a site have their types, and its vector counts the      *)
(* requests in its logs.                                                     *)
TypeOK ==
  /\ \A s, u \in Users :
       /\ site[s].doc \in Seq(Nat)
       /\ site[s].current[u] = site[s].log[u].end
       /\ site[s].current[u] \in 0 .. Len(sent[u])
       /\ site[s].modified \in BOOLEAN /\ site[s].failed \in BOOLEAN
  /\ \A s \in Users : saves[s] \in 0 .. MaxSaves[s]

(* Sites that have executed the same requests, in whatever order, have the   *)
(* same document.                                                            *)
Converged ==
  \A s, t \in Users : site[s].current = site[t].current => site[s].doc = site[t].doc

(* No site ever fails to execute a request another site could issue: the     *)
(* translated operation fits the document, and what the issuer could undo or *)
(* redo can be undone or redone everywhere.                                  *)
NeverFails == \A s \in Users : ~site[s].failed

(* No assertion of the algorithm ever fails: every state it translates a     *)
(* request to can be reached with the requests that were not cleaned up.     *)
NeverAborts == \A s \in Users : ~site[s].aborted

(* A site cleans up only what every other site has processed, however late   *)
(* the messages that tell about it are.                                      *)
RemovedByAll ==
  \A s, t, u \in Users : site[s].log[u].begin <= site[t].current[u]

(* What a site knows about the state of a user is never ahead of that user.  *)
KnownReached ==
  \A s, u \in Users : CausallyBefore(site[s].vector[u], site[u].current)

(* All sites keep the same requests in their logs, with the same             *)
(* associations: the text of a delete that a site reconstructed while it     *)
(* executed the request is the text its issuer deleted.                      *)
LogsAgree ==
  \A s, u \in Users :
    LET mine == site[s].log[u]
        theirs == site[u].log[u]
    IN \A n \in Entries(mine) : /\ mine.request[n] = theirs.request[n]
                                /\ mine.prev[n] = theirs.prev[n]
                                /\ mine.original[n] = theirs.original[n]

(* The translation cache is transparent: what is in it is what translating   *)
(* the request again, with the logs of today and no cache, would give.       *)
WithoutCache(st) == [st EXCEPT !.log = [u \in Users |-> [@[u] EXCEPT !.cache = {}]]]
CacheTransparent ==
  \A s, u \in Users : \A c \in site[s].log[u].cache :
    c.index < site[s].log[u].end =>
      LET log == site[s].log[u]
          r == log.request[OriginalRequest(log, c.index, log.request[c.index].type)]
      IN TranslateRequest(WithoutCache(site[s]), r, c.vector).request.op = c.op

(* A buffer that claims to be unmodified holds the saved text, also when the *)
(* claim was derived from undo and redo requests that cancel each other.     *)
UnmodifiedIsSaved ==
  \A s \in Users : ~site[s].modified => site[s].doc = site[s].saved

(* No site waits for a state it cannot reach: if it has not executed all     *)
(* requests yet, it can execute one of those it has not.                     *)
NeverStuck ==
  \A s \in Users :
    (\E u \in Users : site[s].current[u] < Len(sent[u]))
      => \E u \in Users : Ready(s, u)

(* Every request that is made can be executed everywhere, sooner or later:   *)
(* none fails, none runs into an assertion of the translation, and a site    *)
(* never waits for a state that it cannot reach.                             *)
AlwaysExecutable == NeverFails /\ NeverAborts /\ NeverStuck

(* Cleanup removes nothing that another site still needs, and nobody is      *)
(* believed to know more than it does.                                       *)
CleanupSafe == RemovedByAll /\ KnownReached
=============================================================================
