------------------------------- MODULE MCEditing -------------------------------
(***************************************************************************)
(* The parts of an editing session that work on their own data: a request  *)
(* log, the text operations, the grouping of requests for undo, the chat,  *)
(* and three sites with limited logs.  They share no variables, so one run *)
(* checks them side by side: part says which one a behaviour is about.     *)
(***************************************************************************)
EXTENDS RequestLogSpec, Sequences

CONSTANTS c1, c2, srv

VARIABLES part,
  doc, issued, own, received, cid, concurrent, mirrors,
  author_log, others, ring, group, broken,
  chat, up, down, state, joined, now, jumps, count, jumbled, dropped,
  site, sent, saves

\* A document of three characters.
Text == INSTANCE TextOperationSpec WITH
          Document <- <<1, 2, 3>>, MaxOthers <- 3, MaxMirrors <- 1, MaxText <- 2,
          others <- concurrent
Grouping == INSTANCE UndoGrouping WITH
              MaxTotal <- 6, MinAlloc <- 2, MaxRequests <- 6, MaxOthers <- 2, log <- author_log
\* Two clients with few messages, and one client whose messages fill the buffer.
Chat == INSTANCE Chat WITH
          Clients <- {c1, c2}, Server <- srv, Size <- 2, MinAlloc <- 2, MaxMessages <- 3,
          MaxTime <- 2, Jumps <- 1
LongChat == INSTANCE Chat WITH
              Clients <- {c1}, Server <- srv, Size <- 3, MinAlloc <- 2, MaxMessages <- 5,
              MaxTime <- 2, Jumps <- 1
\* Three sites that may remove a request two requests later.
Limited == INSTANCE Replicas WITH
             UserOrder <- <<1, 2, 3>>, MaxTotalLogSize <- 2, Document <- <<1>>,
             MaxRequests <- <<2, 1, 1>>, MaxSaves <- <<0, 0, 0>>,
             Kinds <- [u \in 1 .. 3 |-> {[kind |-> "insert", length |-> 1, last |-> 0]}]

logVars == <<log>>
textVars == <<doc, issued, own, received, cid, concurrent, mirrors>>
groupingVars == <<author_log, others, ring, group, broken>>
chatVars == <<chat, up, down, state, joined, now, jumps, count, jumbled, dropped>>
replicaVars == <<site, sent, saves>>

EditingInit ==
  /\ part \in {"log", "text", "grouping", "chat", "long chat", "limited"}
  /\ Init /\ Text!Init /\ Grouping!Init /\ Limited!Init
  /\ IF part = "long chat" THEN LongChat!Init ELSE Chat!Init
  /\ part # "text" => issued.kind = "insert" /\ issued.pos = 0 /\ cid = 1
EditingNext ==
  /\ UNCHANGED part
  /\ \/ part = "log" /\ Next /\ UNCHANGED <<textVars, groupingVars, chatVars, replicaVars>>
     \/ part = "text" /\ Text!Next /\ UNCHANGED <<logVars, groupingVars, chatVars, replicaVars>>
     \/ part = "grouping" /\ Grouping!Next /\ UNCHANGED <<logVars, textVars, chatVars, replicaVars>>
     \/ part = "chat" /\ Chat!Next /\ UNCHANGED <<logVars, textVars, groupingVars, replicaVars>>
     \/ part = "long chat" /\ LongChat!Next /\ UNCHANGED <<logVars, textVars, groupingVars, replicaVars>>
     \/ part = "limited" /\ Limited!Next /\ UNCHANGED <<logVars, textVars, groupingVars, chatVars>>
EditingSpec == EditingInit /\ [][EditingNext]_<<part, logVars, textVars, groupingVars, chatVars, replicaVars>>

(***************************************************************************)
(* The properties of the parts; those of RequestLogSpec have their own      *)
(* names.                                                                  *)
(***************************************************************************)
\* TextOperationSpec: the transformation functions satisfy TP1.
Convergent == Text!Convergent
\* TextOperationSpec: an undo restores the document, and a delete that was
\* received without its text recovers it.
TextRestored == Text!UndoRestores /\ Text!Reconstructed
\* Replicas: cleanup removes nothing that another site needs.
CleanupSafe == Limited!CleanupSafe
\* Chat: the logs of the sites agree, and are in order as far as the code keeps them so.
ChatAgrees == IF part = "long chat" THEN LongChat!MostlyOrdered /\ LongChat!ChatAgrees
              ELSE Chat!MostlyOrdered /\ Chat!ChatAgrees
================================================================================
