-------------------------- MODULE RequestLogProofs --------------------------
(* Proofs about the request log, for every MaxIndex and every set of cache   *)
(* keys.                                                                     *)
EXTENDS RequestLogSpec, FiniteSetTheorems, TLAPS

(* The fields of a log (struct _InfAdoptedRequestLogPrivate)                  *)
Fields == {"begin", "end", "request", "original", "next", "prev", "lower", "upper",
           "next_undo", "next_redo", "cache"}

(* A new log has all fields and no entries.                                  *)
LEMMA NewLogFields ==
  ASSUME NEW b \in Int
  PROVE  /\ DOMAIN NewLog(b) = Fields
         /\ NewLog(b).begin = b /\ NewLog(b).end = b
         /\ Entries(NewLog(b)) = {}
BY DEF NewLog, Fields, Entries

(* Where the related set of a new request starts                             *)
NewLower(L, n, type) ==
  IF Associate(L, type) = NULL THEN n ELSE L.lower[L.original[Associate(L, type)]]

(* A is log L with request r, number n, added: all fields but next_undo and  *)
(* next_redo.                                                                *)
Grown(L, A, n, r, type) ==
  LET b == IF IsEmpty(L) THEN n ELSE L.begin
      p == Associate(L, type)
      l == NewLower(L, n, type)
      o == IF p = NULL THEN n ELSE L.original[p]
  IN /\ DOMAIN A = Fields
     /\ A.begin = b /\ A.end = n + 1
     /\ A.request = [x \in b .. n |-> IF x = n THEN r ELSE L.request[x]]
     /\ A.original = [x \in b .. n |-> IF x = n THEN o ELSE L.original[x]]
     /\ A.prev = [x \in b .. n |-> IF x = n THEN p ELSE L.prev[x]]
     /\ A.next = [x \in b .. n |-> IF x = n THEN NULL ELSE IF x = p THEN n ELSE L.next[x]]
     /\ A.lower = [x \in b .. n |-> IF x >= l THEN l ELSE L.lower[x]]
     /\ A.upper = [x \in b .. n |-> IF x >= l THEN n ELSE L.upper[x]]
     /\ A.cache = L.cache

(* That is what inf_adopted_request_log_add_request does.                    *)
LEMMA AddRequestGrows ==
  ASSUME NEW L, DOMAIN L = Fields, NEW n, NEW type, NEW r, r.type = type
  PROVE  Grown(L, AddRequest(L, n, r), n, r, type)
BY DEF AddRequest, AppendEntry, Fields, NewLower, Grown

(* next_undo and next_redo of A, from the entries of L                        *)
NextFound(L, A, n, type) ==
  LET F(t) == FindAssociated(L, t)
  IN /\ A.next_undo = IF type = UNDO THEN F(UNDO) ELSE n
     /\ A.next_redo = CASE type = DO   -> NULL
                        [] type = UNDO -> n
                        [] type = REDO -> F(REDO)
     /\ Entries(L) = Entries(A)

(* add_request computes them when the new entry is in place.                 *)
LEMMA AddRequestFinds ==
  ASSUME NEW L, DOMAIN L = Fields, NEW n, NEW type \in RequestType, NEW r, r.type = type
  PROVE  NextFound(AppendEntry(L, n, r), AddRequest(L, n, r), n, type)
BY DEF AddRequest, AppendEntry, Fields, Entries, NextFound

(* find_associated returns an entry of the log, or NULL.                     *)
LEMMA FoundIsEntry ==
  ASSUME NEW L, NEW type
  PROVE  FindAssociated(L, type) \in Entries(L) \cup {NULL}
BY DEF FindAssociated, Walk

(* R is log L without the entries before number n                            *)
Kept(L, n, f) == [x \in n .. L.end - 1 |-> f[x]]
Clear(n, x) == IF x < n THEN NULL ELSE x

Trimmed(L, R, n) ==
  /\ DOMAIN R = Fields
  /\ R.begin = n /\ R.end = L.end
  /\ R.request = Kept(L, n, L.request) /\ R.original = Kept(L, n, L.original)
  /\ R.next = Kept(L, n, L.next) /\ R.prev = Kept(L, n, L.prev)
  /\ R.lower = Kept(L, n, L.lower) /\ R.upper = Kept(L, n, L.upper)
  /\ R.next_undo = Clear(n, L.next_undo) /\ R.next_redo = Clear(n, L.next_redo)
  /\ R.cache = {c \in L.cache : c.index >= n}

(* That is what inf_adopted_request_log_remove_requests does.                *)
LEMMA RemoveTrims ==
  ASSUME NEW L, DOMAIN L = Fields, NEW n
  PROVE  Trimmed(L, RemoveRequests(L, n), n)
BY DEF RemoveRequests, Trimmed, Kept, Clear, Fields

-----------------------------------------------------------------------------
(* The inductive invariant.  TypeOK alone is not: the set a new undo or redo *)
(* joins starts at the lower end of the set of its original, which is an     *)
(* entry because links stay in the related set, which lies in the log.       *)
IInv == TypeOK /\ RelatedDisjoint /\ LinksRelated


(* The invariant for an empty log, whatever its first number                 *)
LEMMA EmptyLog ==
  ASSUME NEW n \in 0 .. MaxIndex
  PROVE  LET L == NewLog(n)
         IN /\ DOMAIN L = DOMAIN NewLog(0) /\ Entries(L) = {}
            /\ L.begin \in 0 .. MaxIndex /\ L.end \in L.begin .. MaxIndex
            /\ L.request \in [{} -> [type : RequestType]]
            /\ L.original \in [{} -> Index \cup {NULL}]
            /\ L.next \in [{} -> Index \cup {NULL}]
            /\ L.prev \in [{} -> Index \cup {NULL}]
            /\ L.lower \in [{} -> Index \cup {NULL}]
            /\ L.upper \in [{} -> Index \cup {NULL}]
            /\ L.next_undo = NULL /\ L.next_redo = NULL /\ L.cache = {}
<1>1. Entries(NewLog(n)) = {} /\ DOMAIN NewLog(n) = DOMAIN NewLog(0)
  BY NewLogFields, MaxIndexAssumption
<1>2. n .. n - 1 = {}
  BY MaxIndexAssumption
<1>3. NewLog(n).begin = n /\ NewLog(n).end = n /\ n \in n .. MaxIndex
  BY NewLogFields, MaxIndexAssumption
<1> QED BY <1>1, <1>2, <1>3 DEF NewLog, RequestType

(* The invariant holds of the empty log,                                     *)
LEMMA InitIInv == Init => IInv
<1> SUFFICES ASSUME Init PROVE IInv
  OBVIOUS
<1>1. log = NewLog(0) /\ 0 \in 0 .. MaxIndex
  BY MaxIndexAssumption DEF Init
<1> DEFINE S == Index \cup {NULL}
<1>2. Entries(log) = {} /\ Link(log) = [{} -> S]
  BY <1>1, EmptyLog DEF Link
<1> HIDE DEF S
<1>3. TypeOK
  BY <1>1, <1>2, EmptyLog DEF TypeOK, S
<1>4. RelatedDisjoint /\ LinksRelated
  BY <1>2 DEF RelatedDisjoint, LinksRelated
<1> QED BY <1>3, <1>4 DEF IInv

(* Where the related set of a new request starts, no other related set is    *)
(* cut in two.                                                               *)
LEMMA LowerOfNew ==
  ASSUME IInv, NEW n \in Index, NEW type \in RequestType,
         CanAddRequest(log, n, [type |-> type])
  PROVE  LET p == Associate(log, type)
             l == NewLower(log, n, type)
         IN /\ p = NULL => l = n
            /\ p # NULL => /\ p \in Entries(log)
                           /\ log.original[p] \in Entries(log)
                           /\ l \in log.begin .. p
                           /\ log.lower[p] = l
                           /\ log.original[p] >= l
                           /\ n = log.end
            /\ \A x \in Entries(log) :
                 IF x < l THEN log.upper[x] < l ELSE log.lower[x] >= l
<1> DEFINE p == Associate(log, type)
           l == NewLower(log, n, type)
<1>0. log.begin \in Int /\ log.end \in Int
  BY DEF IInv, TypeOK
<1> USE <1>0 DEF IInv
<1>1. CASE p = NULL
  <2>1. l = n
    BY <1>1 DEF NewLower
  <2>2. ASSUME NEW x \in Entries(log) PROVE x < n /\ log.upper[x] < n
    BY <2>2 DEF Entries, IsEmpty, CanAddRequest, TypeOK, RelatedDisjoint
  <2> QED BY <1>1, <2>1, <2>2
<1>2. CASE p # NULL
  <2>1. p \in Entries(log)
    BY <1>2 DEF TypeOK, Associate, RequestType
  <2>2. n = log.end
    BY <2>1 DEF CanAddRequest, IsEmpty, Entries, TypeOK
  <2>3. log.original[p] \in log.lower[p] .. log.upper[p]
    BY <2>1 DEF LinksRelated
  <2>4. log.lower[p] \in log.begin .. p /\ log.upper[p] \in p .. log.end - 1
    BY <2>1 DEF RelatedDisjoint
  <2>5. log.original[p] \in Entries(log)
    BY <2>1, <2>3, <2>4 DEF Entries
  <2>6. log.lower[log.original[p]] = log.lower[p]
    BY <2>1, <2>3 DEF RelatedDisjoint
  <2>7. l = log.lower[p]
    BY <1>2, <2>6 DEF NewLower
  <2>8. log.lower[l] = l
    <3>1. l \in log.lower[p] .. log.upper[p]
      BY <2>1, <2>4, <2>7 DEF Entries
    <3> QED BY <3>1, <2>1, <2>7 DEF RelatedDisjoint
  <2>9. ASSUME NEW x \in Entries(log)
        PROVE  IF x < l THEN log.upper[x] < l ELSE log.lower[x] >= l
    <3>1. log.lower[x] \in log.begin .. x /\ log.upper[x] \in x .. log.end - 1
      BY DEF RelatedDisjoint
    <3>2. l \in log.lower[x] .. log.upper[x] => log.lower[x] = l
      BY <2>8 DEF RelatedDisjoint
    <3> QED BY <3>1, <3>2, <2>4, <2>7 DEF Entries
  <2> QED BY <1>2, <2>1, <2>2, <2>3, <2>4, <2>5, <2>7, <2>9 DEF Entries
<1> QED BY <1>1, <1>2

(* and is preserved when a do, undo or redo is added,                        *)
LEMMA AddPreserves ==
  ASSUME IInv, NEW n \in Index, NEW type \in RequestType, Add(n, type)
  PROVE  IInv'
<1> DEFINE r == [type |-> type]
           b == IF IsEmpty(log) THEN n ELSE log.begin
           p == Associate(log, type)
           l == NewLower(log, n, type)
           o == IF p = NULL THEN n ELSE log.original[p]
<1>0. log.begin \in Int /\ log.end \in Int /\ DOMAIN log = Fields
  BY NewLogFields DEF IInv, TypeOK
<1>1. CanAddRequest(log, n, r) /\ log' = AddRequest(log, n, r) /\ r.type = type
  BY DEF Add
<1>2. /\ p = NULL => l = n
      /\ p # NULL => /\ p \in Entries(log)
                     /\ log.original[p] \in Entries(log)
                     /\ l \in log.begin .. p
                     /\ log.lower[p] = l
                     /\ log.original[p] >= l
                     /\ n = log.end
      /\ \A x \in Entries(log) : IF x < l THEN log.upper[x] < l ELSE log.lower[x] >= l
  BY <1>1, LowerOfNew
<1>3. /\ DOMAIN log' = Fields
      /\ log'.begin = b /\ log'.end = n + 1
      /\ log'.request = [x \in b .. n |-> IF x = n THEN r ELSE log.request[x]]
      /\ log'.original = [x \in b .. n |-> IF x = n THEN o ELSE log.original[x]]
      /\ log'.prev = [x \in b .. n |-> IF x = n THEN p ELSE log.prev[x]]
      /\ log'.next = [x \in b .. n |-> IF x = n THEN NULL ELSE IF x = p THEN n ELSE log.next[x]]
      /\ log'.lower = [x \in b .. n |-> IF x >= l THEN l ELSE log.lower[x]]
      /\ log'.upper = [x \in b .. n |-> IF x >= l THEN n ELSE log.upper[x]]
      /\ log'.cache = log.cache
  <2>1. Grown(log, AddRequest(log, n, r), n, r, type)
    BY <1>0, <1>1, AddRequestGrows
  <2>2. Grown(log, log', n, r, type)
    BY <1>1, <2>1
  <2> QED BY <2>2 DEF Grown
<1>4. /\ b \in 0 .. n
      /\ n \in 0 .. MaxIndex - 1
      /\ Entries(log') = b .. n
      /\ \A x \in b .. n : x = n \/ x \in Entries(log)
      /\ b = log.begin \/ Entries(log) = {}
  <2>1. log.begin \in 0 .. MaxIndex /\ n \in 0 .. MaxIndex - 1
    BY DEF IInv, TypeOK, Index
  <2>2. IF IsEmpty(log) THEN b = n /\ Entries(log) = {} ELSE b = log.begin /\ n = log.end
    BY <1>0, <1>1 DEF CanAddRequest, IsEmpty, Entries
  <2>3. log.begin <= log.end
    BY <1>0, MaxIndexAssumption DEF IInv, TypeOK
  <2> QED BY <1>0, <1>3, <2>1, <2>2, <2>3, MaxIndexAssumption DEF Entries, IsEmpty
<1>5. /\ log'.next_undo \in Entries(log') \cup {NULL}
      /\ log'.next_redo \in Entries(log') \cup {NULL}
  <2> DEFINE L == AppendEntry(log, n, r)
  <2>1. n \in Entries(log')
    BY <1>4
  <2>2. NextFound(L, log', n, type)
    BY <1>0, <1>1, AddRequestFinds
  <2> HIDE DEF L
  <2> QED BY <2>1, <2>2, FoundIsEntry DEF NextFound, RequestType, DO, UNDO, REDO
<1>6. o = (IF p = NULL THEN n ELSE log.original[p]) /\ r \in [type : RequestType]
  OBVIOUS
<1> HIDE DEF b, p, l, o, r
<1>7. /\ l \in b .. n /\ o \in b .. n
      /\ l \in Index /\ o \in Index
      /\ p \in Entries(log) \cup {NULL} /\ p \in Index \cup {NULL}
      /\ b \in Int /\ n \in Int
      /\ \A x \in b .. n : x \in Index
  <2>1. b \in Int /\ n \in Int /\ \A x \in b .. n : x \in Index
    <3>1. b \in Int /\ n \in Int /\ 0 <= b /\ n <= MaxIndex - 1
      BY <1>4, MaxIndexAssumption
    <3> QED BY <3>1, MaxIndexAssumption DEF Index
  <2>2. CASE p = NULL
    <3>1. l = n /\ o = n
      BY <2>2, <1>2, <1>6
    <3> QED BY <2>1, <2>2, <3>1, <1>4
  <2>3. CASE p # NULL
    <3>1. b = log.begin /\ o = log.original[p] /\ n = log.end
      BY <2>3, <1>2, <1>4, <1>6
    <3>2. p \in b .. n - 1 /\ o \in b .. n - 1 /\ l \in b .. p
      BY <2>3, <1>2, <3>1 DEF Entries
    <3> QED BY <2>1, <2>3, <1>2, <3>2
  <2> QED BY <2>2, <2>3
<1>8. TypeOK'
  <2> USE DEF Link
  <2>1. log'.begin \in 0 .. MaxIndex /\ log'.end \in log'.begin .. MaxIndex
    BY <1>3, <1>4, <1>7, MaxIndexAssumption
  <2>2. log'.request \in [Entries(log') -> [type : RequestType]]
    <3>1. \A x \in b .. n : x # n => log.request[x] \in [type : RequestType]
      BY <1>4 DEF IInv, TypeOK
    <3> QED BY <3>1, <1>3, <1>4, <1>6
  <2>3. \A x \in b .. n : x # n => /\ log.original[x] \in Index \cup {NULL}
                                   /\ log.next[x] \in Index \cup {NULL}
                                   /\ log.prev[x] \in Index \cup {NULL}
                                   /\ log.lower[x] \in Index \cup {NULL}
                                   /\ log.upper[x] \in Index \cup {NULL}
    BY <1>4 DEF IInv, TypeOK
  <2>4. log'.original \in [b .. n -> Index \cup {NULL}]
    BY <1>3, <1>7, <2>3
  <2>5. log'.next \in [b .. n -> Index \cup {NULL}]
    BY <1>3, <1>7, <2>3
  <2>6. log'.prev \in [b .. n -> Index \cup {NULL}]
    BY <1>3, <1>7, <2>3
  <2>7. log'.lower \in [b .. n -> Index \cup {NULL}]
    <3>1. \A x \in b .. n : ~(x >= l) => x # n
      BY <1>7
    <3> QED BY <1>3, <1>7, <2>3, <3>1
  <2>8. log'.upper \in [b .. n -> Index \cup {NULL}]
    <3>1. \A x \in b .. n : ~(x >= l) => x # n
      BY <1>7
    <3> QED BY <1>3, <1>7, <2>3, <3>1
  <2>9. \A c \in log'.cache : c.index \in Index /\ \E k \in CacheKeys : c.vector = <<c.index, k>>
    BY <1>3 DEF IInv, TypeOK
  <2>10. DOMAIN log' = DOMAIN NewLog(0)
    BY <1>3, NewLogFields
  <2> QED BY <1>4, <1>5, <2>1, <2>2, <2>4, <2>5, <2>6, <2>7, <2>8, <2>9, <2>10 DEF TypeOK, Index
<1>9. ASSUME NEW m \in b .. n, ~(m >= l)
      PROVE  /\ m \in Entries(log) /\ m # n
             /\ log.lower[m] \in b .. m /\ log.upper[m] \in m .. n
             /\ log.upper[m] < l
             /\ \A x \in log.lower[m] .. log.upper[m] :
                  /\ x \in b .. n /\ ~(x >= l)
                  /\ log.lower[x] = log.lower[m] /\ log.upper[x] = log.upper[m]
  <2>1. m \in Entries(log) /\ m # n /\ b = log.begin
    BY <1>4, <1>7, <1>9
  <2>2. log.lower[m] \in b .. m /\ log.upper[m] \in m .. log.end - 1 /\ log.upper[m] < l
    <3>1. log.lower[m] \in log.begin .. m /\ log.upper[m] \in m .. log.end - 1
      BY <2>1 DEF IInv, RelatedDisjoint
    <3>2. log.upper[m] < l
      BY <2>1, <1>2, <1>7, <1>9
    <3> QED BY <3>1, <3>2, <2>1
  <2>3. \A x \in log.lower[m] .. log.upper[m] :
          log.lower[x] = log.lower[m] /\ log.upper[x] = log.upper[m]
    BY <2>1 DEF IInv, RelatedDisjoint
  <2> QED BY <2>1, <2>2, <2>3, <1>0, <1>7
<1>10. RelatedDisjoint'
  <2> SUFFICES ASSUME NEW m \in b .. n
               PROVE  /\ log'.lower[m] \in b .. m
                      /\ log'.upper[m] \in m .. n
                      /\ \A x \in log'.lower[m] .. log'.upper[m] :
                           log'.lower[x] = log'.lower[m] /\ log'.upper[x] = log'.upper[m]
    <3>1. log'.begin = b /\ log'.end - 1 = n /\ Entries(log') = b .. n
      BY <1>3, <1>4, <1>7
    <3> QED BY <3>1 DEF RelatedDisjoint
  <2>1. CASE m >= l
    <3>1. log'.lower[m] = l /\ log'.upper[m] = n
      BY <2>1, <1>3
    <3>2. \A x \in l .. n : log'.lower[x] = l /\ log'.upper[x] = n
      BY <1>3, <1>7
    <3> QED BY <2>1, <3>1, <3>2, <1>7
  <2>2. CASE ~(m >= l)
    <3>1. log'.lower[m] = log.lower[m] /\ log'.upper[m] = log.upper[m]
      BY <2>2, <1>3
    <3>2. \A x \in log.lower[m] .. log.upper[m] :
            log'.lower[x] = log.lower[x] /\ log'.upper[x] = log.upper[x]
      BY <2>2, <1>3, <1>9
    <3> QED BY <2>2, <3>1, <3>2, <1>9
  <2> QED BY <2>1, <2>2
<1>11. LinksRelated'
  <2> SUFFICES ASSUME NEW m \in b .. n
               PROVE  LET related == log'.lower[m] .. log'.upper[m]
                      IN /\ log'.original[m] \in related
                         /\ log'.next[m] # NULL => log'.next[m] \in related
                         /\ log'.prev[m] # NULL => log'.prev[m] \in related
    BY <1>4 DEF LinksRelated
  <2> DEFINE related == log'.lower[m] .. log'.upper[m]
  <2>1. CASE m = n
    <3>1. /\ log'.lower[m] = l /\ log'.upper[m] = n
          /\ log'.original[m] = o /\ log'.next[m] = NULL /\ log'.prev[m] = p
      BY <2>1, <1>3, <1>7
    <3>2. o \in l .. n /\ (p # NULL => p \in l .. n)
      <4>1. CASE p = NULL
        BY <4>1, <1>2, <1>6, <1>7
      <4>2. CASE p # NULL
        <5>1. o >= l /\ p \in l .. n
          BY <4>2, <1>0, <1>2, <1>6, <1>7 DEF Entries
        <5> QED BY <4>2, <5>1, <1>7
      <4> QED BY <4>1, <4>2
    <3> QED BY <3>1, <3>2
  <2>2. CASE m # n
    <3>1. m \in Entries(log) /\ b = log.begin
      BY <2>2, <1>4
    <3>2. /\ log'.original[m] = log.original[m] /\ log'.prev[m] = log.prev[m]
          /\ log'.next[m] = IF m = p THEN n ELSE log.next[m]
      BY <2>2, <1>3
    <3>3. /\ log.original[m] \in log.lower[m] .. log.upper[m]
          /\ log.next[m] # NULL => log.next[m] \in log.lower[m] .. log.upper[m]
          /\ log.prev[m] # NULL => log.prev[m] \in log.lower[m] .. log.upper[m]
          /\ log.lower[m] \in b .. m /\ log.upper[m] \in m .. log.end - 1
      BY <3>1 DEF IInv, LinksRelated, RelatedDisjoint
    <3>4. \A x \in log.lower[m] .. log.upper[m] : x \in related
      <4>1. CASE m >= l
        <5>1. related = l .. n
          BY <4>1, <1>3
        <5>2. log.lower[m] >= l
          BY <4>1, <3>1, <1>2, <1>7
        <5>3. log.end - 1 <= n
          BY <3>1, <1>0, <1>1, <1>7 DEF CanAddRequest, IsEmpty, Entries
        <5>4. \A x \in log.lower[m] .. log.upper[m] : x \in Int /\ l <= x /\ x <= n
          BY <3>3, <5>2, <5>3, <1>0, <1>7
        <5>5. \A x \in log.lower[m] .. log.upper[m] : x \in l .. n
          BY <5>4, <1>7
        <5> HIDE DEF related
        <5> QED BY <5>1, <5>5
      <4>2. CASE ~(m >= l)
        BY <4>2, <1>3
      <4> QED BY <4>1, <4>2
    <3>5. m = p => n \in related
      <4>1. m = p => m >= l
        <5>1. m # NULL /\ m \in Int
          BY <3>1, <1>7 DEF NULL, IInv, TypeOK, Entries
        <5>2. m = p => l \in b .. m
          BY <5>1, <3>1, <1>2
        <5> QED BY <5>1, <5>2, <1>7
      <4> QED BY <4>1, <1>3, <1>7
    <3> QED BY <3>2, <3>3, <3>4, <3>5
  <2> QED BY <2>1, <2>2
<1> QED BY <1>8, <1>10, <1>11 DEF IInv

(* when whole related sets are removed,                                      *)
LEMMA RemovePreserves ==
  ASSUME IInv, NEW n, Remove(n)
  PROVE  IInv'
<1>0. log.begin \in 0 .. MaxIndex /\ log.end \in log.begin .. MaxIndex /\ DOMAIN log = Fields
  BY NewLogFields DEF IInv, TypeOK
<1>1. n \in log.begin .. log.end /\ (n # log.begin => log.upper[n - 1] = n - 1)
  BY DEF Remove, CanRemoveRequests
<1>2. Trimmed(log, log', n)
  BY <1>0, RemoveTrims DEF Remove
<1>3. /\ Entries(log') = n .. log.end - 1
      /\ \A x \in n .. log.end - 1 : x \in Entries(log)
      /\ n \in Int /\ log.begin \in Int /\ log.end \in Int
  BY <1>0, <1>1, <1>2, MaxIndexAssumption DEF Entries, Trimmed
<1>4. ASSUME NEW m \in n .. log.end - 1
      PROVE  /\ log.lower[m] \in n .. m /\ log.upper[m] \in m .. log.end - 1
             /\ \A x \in log.lower[m] .. log.upper[m] :
                  /\ x \in n .. log.end - 1
                  /\ log.lower[x] = log.lower[m] /\ log.upper[x] = log.upper[m]
  <2>1. /\ log.lower[m] \in log.begin .. m /\ log.upper[m] \in m .. log.end - 1
        /\ \A x \in log.lower[m] .. log.upper[m] :
             log.lower[x] = log.lower[m] /\ log.upper[x] = log.upper[m]
    BY <1>3 DEF IInv, RelatedDisjoint
  <2>2. ~(log.lower[m] < n)
    <3> SUFFICES ASSUME log.lower[m] < n PROVE FALSE
      OBVIOUS
    <3>1. n - 1 \in log.lower[m] .. log.upper[m] /\ n # log.begin
      BY <1>3, <2>1
    <3> QED BY <1>1, <1>3, <2>1, <3>1
  <2> QED BY <1>3, <2>1, <2>2
<1>5. TypeOK'
  <2>1. \A S, f : f \in [Entries(log) -> S] => Kept(log, n, f) \in [Entries(log') -> S]
    BY <1>3 DEF Kept
  <2> DEFINE T == [type : RequestType]
             S == Index \cup {NULL}
  <2>9. /\ log.request \in [Entries(log) -> T]
        /\ log.original \in [Entries(log) -> S] /\ log.next \in [Entries(log) -> S]
        /\ log.prev \in [Entries(log) -> S] /\ log.lower \in [Entries(log) -> S]
        /\ log.upper \in [Entries(log) -> S]
    BY DEF IInv, TypeOK, Link
  <2> HIDE DEF T, S
  <2>2. /\ log'.request \in [Entries(log') -> [type : RequestType]]
        /\ log'.original \in Link(log') /\ log'.next \in Link(log')
        /\ log'.prev \in Link(log')
        /\ log'.lower \in Link(log') /\ log'.upper \in Link(log')
    <3>1. /\ log'.request \in [Entries(log') -> T]
          /\ log'.original \in [Entries(log') -> S] /\ log'.next \in [Entries(log') -> S]
          /\ log'.prev \in [Entries(log') -> S] /\ log'.lower \in [Entries(log') -> S]
          /\ log'.upper \in [Entries(log') -> S]
      <4>1. \A f \in [Entries(log) -> T] : Kept(log, n, f) \in [Entries(log') -> T]
        BY <2>1
      <4>2. \A f \in [Entries(log) -> S] : Kept(log, n, f) \in [Entries(log') -> S]
        BY <2>1
      <4> QED BY <1>2, <2>9, <4>1, <4>2 DEF Trimmed
    <3> QED BY <3>1 DEF Link, T, S
  <2>3. \A x \in Entries(log) \cup {NULL} : Clear(n, x) \in Entries(log') \cup {NULL}
    <3>1. ASSUME NEW x \in Entries(log) PROVE Clear(n, x) \in Entries(log') \cup {NULL}
      <4>1. x \in Int /\ (x < n \/ x \in n .. log.end - 1)
        BY <1>3 DEF Entries
      <4> QED BY <4>1, <1>3 DEF Clear
    <3>2. Clear(n, NULL) = NULL
      BY DEF Clear
    <3> QED BY <3>1, <3>2
  <2>4. /\ log'.next_undo \in Entries(log') \cup {NULL}
        /\ log'.next_redo \in Entries(log') \cup {NULL}
    BY <1>2, <2>3 DEF IInv, TypeOK, Trimmed
  <2>5. \A c \in log'.cache : c.index \in Index /\ \E k \in CacheKeys : c.vector = <<c.index, k>>
    BY <1>2 DEF IInv, TypeOK, Trimmed
  <2>6. log'.begin \in 0 .. MaxIndex /\ log'.end \in log'.begin .. MaxIndex
    BY <1>0, <1>1, <1>2, MaxIndexAssumption DEF Trimmed
  <2>7. DOMAIN log' = DOMAIN NewLog(0)
    BY <1>2, NewLogFields DEF Trimmed
  <2> QED BY <2>2, <2>4, <2>5, <2>6, <2>7 DEF TypeOK, Index
<1>6. RelatedDisjoint'
  <2> SUFFICES ASSUME NEW m \in n .. log.end - 1
               PROVE  /\ log'.lower[m] \in n .. m
                      /\ log'.upper[m] \in m .. log.end - 1
                      /\ \A x \in log'.lower[m] .. log'.upper[m] :
                           log'.lower[x] = log'.lower[m] /\ log'.upper[x] = log'.upper[m]
    BY <1>2, <1>3 DEF RelatedDisjoint, Trimmed
  <2> QED BY <1>2, <1>4 DEF Trimmed, Kept
<1>7. LinksRelated'
  <2> SUFFICES ASSUME NEW m \in n .. log.end - 1
               PROVE  LET related == log'.lower[m] .. log'.upper[m]
                      IN /\ log'.original[m] \in related
                         /\ log'.next[m] # NULL => log'.next[m] \in related
                         /\ log'.prev[m] # NULL => log'.prev[m] \in related
    BY <1>3 DEF LinksRelated
  <2> QED BY <1>2, <1>3 DEF IInv, LinksRelated, Trimmed, Kept
<1> QED BY <1>5, <1>6, <1>7 DEF IInv

(* when an empty log is renumbered,                                          *)
LEMMA SetLogBeginPreserves ==
  ASSUME IInv, NEW n \in 0 .. MaxIndex, SetLogBegin(n)
  PROVE  IInv'
<1>0. /\ log.begin \in Int /\ log.begin = log.end /\ log.cache = {}
      /\ log.next_undo \in Entries(log) \cup {NULL}
      /\ log.next_redo \in Entries(log) \cup {NULL}
  BY DEF IInv, TypeOK, SetLogBegin, IsEmpty
<1>1. log.next_undo = NULL /\ log.next_redo = NULL
  BY <1>0 DEF Entries
<1>2. log' = NewLog(n)
  <2>1. log' = [NewLog(n) EXCEPT !.cache = {}, !.next_undo = NULL, !.next_redo = NULL]
    BY <1>0, <1>1 DEF SetLogBegin, SetBegin
  <2> QED BY <2>1 DEF NewLog
<1>3. Entries(log') = {} /\ Link(log') = [{} -> Index \cup {NULL}]
  BY <1>2, EmptyLog DEF Link
<1>4. TypeOK'
  BY <1>2, <1>3, EmptyLog DEF TypeOK
<1>5. RelatedDisjoint' /\ LinksRelated'
  BY <1>3 DEF RelatedDisjoint, LinksRelated
<1> QED BY <1>4, <1>5 DEF IInv

(* when a translation is cached,                                             *)
LEMMA CachePreserves ==
  ASSUME IInv, NEW n \in Index, NEW k \in CacheKeys, Cache(n, k)
  PROVE  IInv'
<1> DEFINE c == [index |-> n, vector |-> <<n, k>>]
<1>0. DOMAIN log = Fields
  BY NewLogFields DEF IInv, TypeOK
<1>1. /\ DOMAIN log' = DOMAIN log
      /\ log'.begin = log.begin /\ log'.end = log.end
      /\ log'.request = log.request /\ log'.original = log.original
      /\ log'.next = log.next /\ log'.prev = log.prev
      /\ log'.lower = log.lower /\ log'.upper = log.upper
      /\ log'.next_undo = log.next_undo /\ log'.next_redo = log.next_redo
      /\ log'.cache = log.cache \cup {c}
  BY <1>0 DEF Cache, AddCachedRequest, Fields
<1>2. Entries(log') = Entries(log) /\ Link(log') = Link(log)
  BY <1>1 DEF Entries, Link
<1>3. \A d \in log'.cache : d.index \in Index /\ \E x \in CacheKeys : d.vector = <<d.index, x>>
  BY <1>1 DEF IInv, TypeOK
<1>4. TypeOK'
  BY <1>1, <1>2, <1>3 DEF IInv, TypeOK, Index
<1>5. RelatedDisjoint' /\ LinksRelated'
  BY <1>1, <1>2 DEF IInv, RelatedDisjoint, LinksRelated
<1> QED BY <1>4, <1>5 DEF IInv

(* and so by every step.                                                     *)
LEMMA StepPreserves == IInv /\ [Next]_log => IInv'
<1> SUFFICES ASSUME IInv, [Next]_log PROVE IInv'
  OBVIOUS
<1>1. ASSUME NEW n \in 0 .. MaxIndex - 1, AddDo(n) PROVE IInv'
  BY <1>1, AddPreserves DEF AddDo, Index, RequestType
<1>2. ASSUME NEW n \in 0 .. MaxIndex - 1, AddUndo(n) PROVE IInv'
  BY <1>2, AddPreserves DEF AddUndo, Index, RequestType
<1>3. ASSUME NEW n \in 0 .. MaxIndex - 1, AddRedo(n) PROVE IInv'
  BY <1>3, AddPreserves DEF AddRedo, Index, RequestType
<1>4. ASSUME NEW n \in 0 .. MaxIndex, SetLogBegin(n) PROVE IInv'
  BY <1>4, SetLogBeginPreserves
<1>5. ASSUME NEW n \in 0 .. MaxIndex, Remove(n) PROVE IInv'
  BY <1>5, RemovePreserves
<1>6. ASSUME NEW n \in 0 .. MaxIndex - 1, NEW k \in CacheKeys, Cache(n, k) PROVE IInv'
  BY <1>6, CachePreserves DEF Index
<1>7. CASE UNCHANGED log
  BY <1>7 DEF IInv, TypeOK, RelatedDisjoint, LinksRelated, Link, Entries, Index
<1> QED BY <1>1, <1>2, <1>3, <1>4, <1>5, <1>6, <1>7 DEF Next

(* Hence it is an invariant of the specification.                            *)
LEMMA Invariance == Spec => []IInv
BY InitIInv, StepPreserves, PTL DEF Spec

(* The fields of a log always have their types: in particular next_undo,     *)
(* next_redo and all links are entries of the log or NULL.                   *)
THEOREM TypeCorrect == Spec => []TypeOK
BY Invariance, PTL DEF IInv

(* The sets of related requests of a log are disjoint intervals in the log,  *)
(* as the documentation of inf_adopted_request_log_upper_related promises.   *)
THEOREM RelatedSetsDisjoint == Spec => []RelatedDisjoint
BY Invariance, PTL DEF IInv

(* No entry refers to one outside its related set, so that what              *)
(* inf_adopted_request_log_remove_requests leaves refers to nothing removed. *)
THEOREM LinksStayRelated == Spec => []LinksRelated
BY Invariance, PTL DEF IInv

-----------------------------------------------------------------------------
(* What is cached belongs to an entry of the log or to the next one.         *)
CacheInLog == \A c \in log.cache : c.index \in log.begin .. log.end

(* This too is an invariant,                                                 *)
LEMMA CacheInLogInvariant == Spec => []CacheInLog
<1>1. Init => CacheInLog
  BY EmptyLog, MaxIndexAssumption DEF Init, CacheInLog
<1>2. IInv /\ CacheInLog /\ [Next]_log => CacheInLog'
  <2> SUFFICES ASSUME IInv, CacheInLog, [Next]_log PROVE CacheInLog'
    OBVIOUS
  <2>0. log.begin \in Int /\ log.end \in Int /\ log.begin <= log.end /\ DOMAIN log = Fields
    BY NewLogFields, MaxIndexAssumption DEF IInv, TypeOK
  <2>1. ASSUME NEW n \in Index, NEW type \in RequestType, Add(n, type) PROVE CacheInLog'
    <3> DEFINE r == [type |-> type]
    <3>1. r.type = type /\ log' = AddRequest(log, n, r) /\ CanAddRequest(log, n, r)
          /\ (n = log.end \/ log.cache = {})
      BY <2>1 DEF Add
    <3> HIDE DEF r
    <3>2. Grown(log, log', n, r, type)
      BY <2>0, <3>1, AddRequestGrows
    <3>3. log'.cache = log.cache /\ log'.end = n + 1
          /\ log'.begin = IF IsEmpty(log) THEN n ELSE log.begin
      BY <3>2 DEF Grown
    <3>4. CASE log.cache = {}
      BY <3>3, <3>4 DEF CacheInLog
    <3>5. CASE n = log.end
      BY <2>0, <3>3, <3>5 DEF CacheInLog, IsEmpty
    <3> QED BY <3>1, <3>4, <3>5
  <2>2. ASSUME NEW n \in 0 .. MaxIndex, SetLogBegin(n) PROVE CacheInLog'
    <3>1. log'.cache = {}
      BY <2>2 DEF SetLogBegin, SetBegin, NewLog
    <3> QED BY <3>1 DEF CacheInLog
  <2>3. ASSUME NEW n \in 0 .. MaxIndex, Remove(n) PROVE CacheInLog'
    <3>1. Trimmed(log, log', n)
      BY <2>0, <2>3, RemoveTrims DEF Remove
    <3>2. log'.begin = n /\ log'.end = log.end /\ log'.cache = {c \in log.cache : c.index >= n}
      BY <3>1 DEF Trimmed
    <3> QED BY <2>0, <3>2, MaxIndexAssumption DEF CacheInLog
  <2>4. ASSUME NEW n \in 0 .. MaxIndex - 1, NEW k \in CacheKeys, Cache(n, k) PROVE CacheInLog'
    <3>1. /\ log'.begin = log.begin /\ log'.end = log.end /\ n \in log.begin .. log.end
          /\ log'.cache = log.cache \cup {[index |-> n, vector |-> <<n, k>>]}
      BY <2>0, <2>4 DEF Cache, AddCachedRequest, Fields
    <3> QED BY <3>1 DEF CacheInLog
  <2>5. CASE UNCHANGED log
    BY <2>5 DEF CacheInLog
  <2>6. \A n \in 0 .. MaxIndex - 1 : n \in Index
    BY DEF Index
  <2> QED BY <2>1, <2>2, <2>3, <2>4, <2>5, <2>6 DEF Next, AddDo, AddUndo, AddRedo, RequestType
<1> QED BY <1>1, <1>2, Invariance, PTL DEF Spec

(* from which follows that the cache never holds a translation of a request  *)
(* that inf_adopted_request_log_remove_requests removed.                     *)
THEOREM CacheStaysFresh == Spec => []CacheFresh
<1>1. IInv /\ CacheInLog => CacheFresh
  BY MaxIndexAssumption DEF CacheInLog, CacheFresh, IInv, TypeOK
<1> QED BY <1>1, Invariance, CacheInLogInvariant, PTL

(* Nothing in a log refers to what remove_requests has removed.              *)
THEOREM LogStaysSound == Spec => []LogSound
BY RelatedSetsDisjoint, LinksStayRelated, CacheStaysFresh, PTL DEF LogSound


-----------------------------------------------------------------------------
(* Undo and redo.  The entries of a log L, seen apart from the related sets:  *)
TypeOf(L, n) == L.request[n].type

(* An undo refers to a do or a redo, a redo to an undo.                       *)
Fits(L, type, n) == IF type = UNDO THEN TypeOf(L, n) # UNDO ELSE TypeOf(L, n) = UNDO

(* What the next undo (redo) can refer to: what is not undone (redone) yet;   *)
(* nothing can be redone from before a DO.                                    *)
Choices(L, type) ==
  {n \in Entries(L) : /\ L.next[n] = NULL /\ Fits(L, type, n)
                      /\ type = REDO => \A d \in Entries(L) : d >= n => TypeOf(L, d) # DO}

WellFormed(L) ==
  /\ L.begin \in Nat /\ L.end \in Nat /\ L.begin <= L.end
  /\ \A n \in Entries(L) : /\ TypeOf(L, n) \in RequestType
                           /\ L.next[n] \in Int /\ L.prev[n] \in Int
                           /\ L.original[n] \in Entries(L)

(* AssociationsMatch, of any log                                              *)
Matched(L) ==
  \A n \in Entries(L) :
    LET p == L.prev[n]
    IN /\ TypeOf(L, n) = DO => p = NULL /\ L.original[n] = n
       /\ TypeOf(L, n) # DO => /\ p \in Entries(L) /\ p < n
                               /\ Fits(L, TypeOf(L, n), p)
                               /\ L.next[p] = n
                               /\ L.original[n] = L.original[p]
       /\ L.next[n] # NULL => L.next[n] \in Entries(L) /\ L.prev[L.next[n]] = n

(* Pairs of associated entries are nested like brackets: between the two      *)
(* whatever could be undone (redone) is, by entries that are there as well.   *)
Nested(L) ==
  \A n \in Entries(L) : TypeOf(L, n) # DO =>
    \A m \in Entries(L) : L.prev[n] <= m /\ m <= n =>
      /\ Fits(L, TypeOf(L, n), m) => L.next[m] # NULL
      /\ TypeOf(L, m) = TypeOf(L, n) => L.prev[m] >= L.prev[n]
      /\ TypeOf(L, n) = REDO => TypeOf(L, m) # DO

IsLast(c, S) == IF c = NULL THEN S = {} ELSE c \in S /\ \A m \in S : m <= c

(* next_undo and next_redo are the last choices.                              *)
NextIsLast(L) ==
  IsLast(L.next_undo, Choices(L, UNDO)) /\ IsLast(L.next_redo, Choices(L, REDO))

(* The later a choice to undo, the later its DO; for a choice to redo it is   *)
(* the other way round; and all that could be undone is older than what could *)
(* be redone.                                                                 *)
InOrderOf(L) ==
  /\ \A m, k \in Choices(L, UNDO) : m < k => L.original[m] < L.original[k]
  /\ \A m, k \in Choices(L, REDO) : m < k => L.original[k] < L.original[m]
  /\ \A m \in Choices(L, UNDO), k \in Choices(L, REDO) : L.original[m] < L.original[k]

OriginalsAreDo(L) == \A n \in Entries(L) : TypeOf(L, L.original[n]) = DO

(* The strengthening of IInv for undo and redo                                *)
UndoInv(L) ==
  /\ WellFormed(L) /\ Matched(L) /\ Nested(L) /\ NextIsLast(L)
  /\ InOrderOf(L) /\ OriginalsAreDo(L)

(* A set of indices that is not empty has a least element.                    *)
LEMMA LeastIndex ==
  ASSUME NEW a \in Int, NEW b \in Int, NEW T, T \subseteq a .. b, T # {}
  PROVE  \E x \in T : \A y \in T : x <= y
<1> DEFINE S == a .. b
           F == {T \cap (a .. x) : x \in T}
           R == StrictSubsetOrdering(S)
<1>1. IsFiniteSet(S)
  BY FS_Interval
<1>2. IsWellFoundedOn(R, SUBSET S)
  BY <1>1, FS_FiniteSubsetsOfFinite, FS_StrictSubsetOrderingWellFounded
<1>3. F \subseteq SUBSET S /\ F # {}
  OBVIOUS
<1>4. PICK X \in F : \A Y \in F : <<Y, X>> \notin R
  <2> HIDE DEF F, R, S
  <2> QED BY <1>2, <1>3, WFMin
<1>5. PICK x \in T : X = T \cap (a .. x)
  BY <1>4
<1>6. ASSUME NEW y \in T, ~(x <= y) PROVE FALSE
  <2> DEFINE Y == T \cap (a .. y)
  <2>1. x \in Int /\ y \in Int /\ a <= y /\ y < x
    BY <1>6
  <2>2. Y \subseteq X /\ x \in X /\ x \notin Y /\ Y \in F /\ X \in SUBSET S /\ Y \in SUBSET S
    BY <1>5, <2>1
  <2>3. <<Y, X>> \in R
    BY <2>2 DEF StrictSubsetOrdering
  <2> QED BY <1>4, <2>2, <2>3
<1> QED BY <1>6

(* What the walk of find_associated leaves behind is undone (redone), and     *)
(* what undid (redid) it was passed as well.                                  *)
Passed(L, type, e) ==
  \A m \in Entries(L) : m > e =>
    /\ Fits(L, type, m) => L.next[m] # NULL
    /\ TypeOf(L, m) = type => L.prev[m] > e
    /\ type = REDO => TypeOf(L, m) # DO

(* The walk itself: it starts at the last entry and is closed.                *)
LEMMA WalkIsClosed ==
  ASSUME NEW L, NEW type, L.end - 1 \in Entries(L), WalkClosed(L, type, Entries(L))
  PROVE  /\ L.end - 1 \in Walk(L, type, L.end - 1)
         /\ WalkClosed(L, type, Walk(L, type, L.end - 1))
         /\ Walk(L, type, L.end - 1) \subseteq Entries(L)
         /\ \A W \in SUBSET Entries(L) :
              L.end - 1 \in W /\ WalkClosed(L, type, W)
                => Walk(L, type, L.end - 1) \subseteq W
<1> DEFINE e == L.end - 1
           K == Walk(L, type, e)
<1> HIDE DEF e
<1>1. \A x : x \in K <=> /\ x \in Entries(L)
                         /\ \A W \in SUBSET Entries(L) : e \in W /\ WalkClosed(L, type, W) => x \in W
  BY DEF Walk, e
<1> HIDE DEF K
<1>2. e \in K /\ K \subseteq Entries(L)
  BY <1>1 DEF e
<1>3. WalkClosed(L, type, K)
  <2> SUFFICES ASSUME NEW x \in K, L.request[x].type = type, L.prev[x] > L.begin
               PROVE  L.prev[x] - 1 \in K
    BY DEF WalkClosed
  <2> DEFINE y == L.prev[x] - 1
  <2>1. \A W \in SUBSET Entries(L) : e \in W /\ WalkClosed(L, type, W) => y \in W
    BY <1>1 DEF WalkClosed
  <2>2. y \in Entries(L)
    BY <1>2, <2>1
  <2> QED BY <1>1, <2>1, <2>2
<1> QED BY <1>1, <1>2, <1>3 DEF e, K

(* What Matched says of an entry that refers to another, and of one that has  *)
(* been referred to.                                                          *)
LEMMA MatchedEntries ==
  ASSUME NEW L, WellFormed(L), Matched(L)
  PROVE  /\ \A x \in Entries(L) : x \in Nat /\ L.begin <= x /\ x < L.end
         /\ \A x \in Int : L.begin <= x /\ x < L.end => x \in Entries(L)
         /\ \A x \in Entries(L) : TypeOf(L, x) # DO =>
              L.prev[x] \in Entries(L) /\ L.prev[x] < x /\ Fits(L, TypeOf(L, x), L.prev[x])
         /\ \A x \in Entries(L), t \in {UNDO, REDO} :
              L.next[x] # NULL /\ Fits(L, t, x) =>
                /\ L.next[x] \in Entries(L) /\ L.prev[L.next[x]] = x /\ x < L.next[x]
                /\ TypeOf(L, L.next[x]) = t
<1>1. /\ \A x \in Entries(L) : x \in Nat /\ L.begin <= x /\ x < L.end
      /\ \A x \in Int : L.begin <= x /\ x < L.end => x \in Entries(L)
  BY DEF WellFormed, Entries
<1>2. \A x \in Entries(L) : TypeOf(L, x) # DO =>
         L.prev[x] \in Entries(L) /\ L.prev[x] < x /\ Fits(L, TypeOf(L, x), L.prev[x])
  BY DEF Matched
<1>3. ASSUME NEW x \in Entries(L), NEW t \in {UNDO, REDO}, L.next[x] # NULL, Fits(L, t, x)
      PROVE  /\ L.next[x] \in Entries(L) /\ L.prev[L.next[x]] = x /\ x < L.next[x]
             /\ TypeOf(L, L.next[x]) = t
  <2> DEFINE k == L.next[x]
  <2>1. k \in Entries(L) /\ L.prev[k] = x
    BY <1>3 DEF Matched
  <2>2. x # NULL
    BY <1>1 DEF NULL
  <2>3. TypeOf(L, k) # DO
    BY <2>1, <2>2 DEF Matched
  <2>4. x < k /\ Fits(L, TypeOf(L, k), x)
    BY <1>2, <2>1, <2>3
  <2>5. TypeOf(L, k) \in {UNDO, REDO}
    BY <2>1, <2>3 DEF WellFormed, RequestType
  <2>6. TypeOf(L, k) = t
    BY <1>3, <2>4, <2>5 DEF Fits, UNDO, REDO, DO
  <2> QED BY <2>1, <2>4, <2>6
<1> QED BY <1>1, <1>2, <1>3

(* Wherever the walk gets, it passed nothing that could be undone (redone).   *)
LEMMA WalkPasses ==
  ASSUME NEW L, WellFormed(L), Matched(L), Nested(L), NEW type \in {UNDO, REDO},
         L.end - 1 \in Entries(L)
  PROVE  /\ WalkClosed(L, type, Entries(L))
         /\ \A e \in Walk(L, type, L.end - 1) : Passed(L, type, e)
<1> DEFINE B == {e \in Entries(L) : Passed(L, type, e)}
<1>1. /\ \A x \in Entries(L) : x \in Nat /\ L.begin <= x /\ x < L.end
      /\ \A x \in Int : L.begin <= x /\ x < L.end => x \in Entries(L)
      /\ \A x \in Entries(L) : TypeOf(L, x) # DO => L.prev[x] \in Entries(L) /\ L.prev[x] < x
      /\ L.begin \in Nat /\ L.end \in Nat
  BY MatchedEntries DEF WellFormed
<1>2. WalkClosed(L, type, Entries(L))
  BY <1>1 DEF WalkClosed, TypeOf, UNDO, REDO, DO
<1>3. L.end - 1 \in B
  BY <1>1 DEF Passed
<1>4. WalkClosed(L, type, B)
  <2> SUFFICES ASSUME NEW x \in B, TypeOf(L, x) = type, L.prev[x] > L.begin
               PROVE  L.prev[x] - 1 \in B
    BY DEF WalkClosed, TypeOf
  <2> DEFINE y == L.prev[x] - 1
  <2>1. x \in Entries(L) /\ Passed(L, type, x) /\ TypeOf(L, x) # DO
    BY DEF UNDO, REDO, DO
  <2>2. L.prev[x] \in Entries(L) /\ L.prev[x] < x
    BY <1>1, <2>1
  <2>3. y \in Entries(L)
    BY <1>1, <2>2
  <2>4. ASSUME NEW m \in Entries(L), m > y
        PROVE  /\ Fits(L, type, m) => L.next[m] # NULL
               /\ TypeOf(L, m) = type => L.prev[m] > y
               /\ type = REDO => TypeOf(L, m) # DO
    <3>0. L.prev[m] \in Int
      BY DEF WellFormed
    <3>1. CASE m > x
      <4>1. y < x
        BY <1>1, <2>2
      <4> QED BY <1>1, <2>1, <2>2, <3>0, <3>1, <4>1 DEF Passed
    <3>2. CASE ~(m > x)
      <4>1. L.prev[x] <= m /\ m <= x
        BY <1>1, <2>1, <2>2, <2>4, <3>2
      <4>2. /\ Fits(L, type, m) => L.next[m] # NULL
            /\ TypeOf(L, m) = type => L.prev[m] >= L.prev[x]
            /\ type = REDO => TypeOf(L, m) # DO
        BY <2>1, <4>1 DEF Nested
      <4> QED BY <1>1, <2>2, <3>0, <4>2
    <3> QED BY <3>1, <3>2
  <2> QED BY <2>3, <2>4 DEF Passed
<1>5. B \in SUBSET Entries(L)
  OBVIOUS
<1> HIDE DEF B
<1>6. Walk(L, type, L.end - 1) \subseteq B
  BY <1>2, <1>3, <1>4, <1>5, WalkIsClosed
<1> QED BY <1>2, <1>6 DEF B

(* Where the walk stops is the last choice,                                   *)
LEMMA StopIsLast ==
  ASSUME NEW L, WellFormed(L), Matched(L), Nested(L), NEW type \in {UNDO, REDO},
         L.end - 1 \in Entries(L),
         NEW e \in Walk(L, type, L.end - 1),
         TypeOf(L, e) # type, type = REDO => TypeOf(L, e) # DO
  PROVE  e \in Choices(L, type) /\ \A m \in Choices(L, type) : m <= e
<1>1. e \in Entries(L) /\ Passed(L, type, e)
  BY WalkPasses, WalkIsClosed
<1>2. \A x \in Entries(L) : x \in Nat /\ L.begin <= x /\ x < L.end
  BY MatchedEntries
<1>3. Fits(L, type, e)
  <2>1. TypeOf(L, e) \in {DO, UNDO, REDO}
    BY <1>1 DEF WellFormed, RequestType
  <2> QED BY <2>1 DEF Fits, UNDO, REDO, DO
<1>4. L.next[e] = NULL
  <2> SUFFICES ASSUME L.next[e] # NULL PROVE FALSE
    OBVIOUS
  <2> DEFINE k == L.next[e]
  <2>1. /\ k \in Entries(L) /\ L.prev[k] = e /\ e < k
        /\ TypeOf(L, k) = type
    BY <1>1, <1>3, MatchedEntries
  <2>2. L.prev[k] > e
    BY <1>1, <1>2, <2>1 DEF Passed
  <2> QED BY <1>1, <1>2, <2>1, <2>2
<1>5. e \in Choices(L, type)
  <2>1. ASSUME type = REDO, NEW d \in Entries(L), d >= e PROVE TypeOf(L, d) # DO
    <3>2. CASE d = e
      BY <2>1, <3>2
    <3>3. CASE d # e
      <4>1. d > e
        BY <1>1, <1>2, <2>1, <3>3
      <4> QED BY <1>1, <2>1, <4>1 DEF Passed
    <3> QED BY <3>2, <3>3
  <2> QED BY <1>1, <1>3, <1>4, <2>1 DEF Choices
<1>6. ASSUME NEW m \in Choices(L, type) PROVE m <= e
  <2>1. m \in Entries(L) /\ L.next[m] = NULL /\ Fits(L, type, m)
    BY DEF Choices
  <2>2. ~(m > e)
    BY <1>1, <2>1 DEF Passed
  <2> QED BY <1>1, <1>2, <2>1, <2>2
<1> QED BY <1>5, <1>6

(* and the walk stops if there is a choice.                                   *)
LEMMA WalkStops ==
  ASSUME NEW L, WellFormed(L), Matched(L), Nested(L), NEW type \in {UNDO, REDO},
         L.end - 1 \in Entries(L), NEW u \in Choices(L, type)
  PROVE  \E e \in Walk(L, type, L.end - 1) :
            TypeOf(L, e) # type /\ (type = REDO => TypeOf(L, e) # DO)
<1> DEFINE K == Walk(L, type, L.end - 1)
<1> SUFFICES ASSUME \A e \in K : TypeOf(L, e) = type \/ (type = REDO /\ TypeOf(L, e) = DO)
             PROVE  FALSE
  OBVIOUS
<1>1. /\ L.end - 1 \in K /\ K \subseteq Entries(L)
      /\ WalkClosed(L, type, K)
      /\ \A e \in K : Passed(L, type, e)
  BY WalkPasses, WalkIsClosed
<1> HIDE DEF K
<1>2. /\ L.begin \in Int /\ L.end \in Int
      /\ \A x \in Entries(L) : x \in Nat /\ L.begin <= x /\ x < L.end
      /\ u \in Entries(L) /\ L.next[u] = NULL /\ Fits(L, type, u)
  BY MatchedEntries DEF WellFormed, Choices
<1>3. K \subseteq L.begin .. L.end - 1 /\ L.end - 1 \in Int /\ K # {}
  BY <1>1 DEF Entries, WellFormed
<1>4. PICK w \in K : \A y \in K : w <= y
  BY <1>2, <1>3, LeastIndex
<1>5. w \in Entries(L) /\ Passed(L, type, w) /\ u <= w
  <2>1. ~(u > w)
    BY <1>1, <1>2 DEF Passed
  <2> QED BY <1>1, <1>2, <2>1
<1>6. TypeOf(L, w) = type
  <2>1. type = REDO => TypeOf(L, w) # DO
    BY <1>2, <1>5 DEF Choices
  <2> QED BY <2>1
<1>7. /\ L.prev[w] \in Entries(L) /\ L.prev[w] < w /\ TypeOf(L, w) # DO
  BY <1>5, <1>6, MatchedEntries DEF UNDO, REDO, DO
<1>8. ~(L.prev[w] > L.begin)
  <2> SUFFICES ASSUME L.prev[w] > L.begin PROVE FALSE
    OBVIOUS
  <2>1. L.prev[w] - 1 \in K
    BY <1>1, <1>6 DEF WalkClosed, TypeOf
  <2>2. w <= L.prev[w] - 1
    BY <1>4, <2>1
  <2> QED BY <1>2, <1>5, <1>7, <2>2
<1>9. L.prev[w] <= u /\ u <= w
  BY <1>2, <1>5, <1>7, <1>8
<1>10. L.next[u] # NULL
  BY <1>2, <1>5, <1>6, <1>7, <1>9 DEF Nested
<1> QED BY <1>2, <1>10

(* Hence inf_adopted_request_log_find_associated finds the last choice.       *)
LEMMA FindsLast ==
  ASSUME NEW L, WellFormed(L), Matched(L), Nested(L), NEW type \in {UNDO, REDO},
         L.end - 1 \in Entries(L)
  PROVE  IsLast(FindAssociated(L, type), Choices(L, type))
<1> DEFINE stops == {e \in Walk(L, type, L.end - 1) :
                       TypeOf(L, e) # type /\ (type = REDO => TypeOf(L, e) # DO)}
<1>1. FindAssociated(L, type) = IF stops = {} THEN NULL ELSE CHOOSE e \in stops : TRUE
  BY DEF FindAssociated, TypeOf
<1>2. \A e \in stops : e \in Choices(L, type) /\ \A m \in Choices(L, type) : m <= e
  BY StopIsLast
<1>3. stops = {} => Choices(L, type) = {}
  BY WalkStops
<1> HIDE DEF stops
<1>4. \A m \in Choices(L, type) : m # NULL
  BY MatchedEntries DEF Choices, NULL
<1> QED BY <1>1, <1>2, <1>3, <1>4 DEF IsLast

(* Only the entries matter for the walk.                                      *)
LEMMA SameWalk ==
  ASSUME NEW L, NEW A, NEW type,
         A.begin = L.begin, A.end = L.end, A.request = L.request, A.prev = L.prev
  PROVE  FindAssociated(A, type) = FindAssociated(L, type)
BY DEF FindAssociated, Walk, WalkClosed, Entries

(* A is log L with a request of this type, number n, added, which refers to p *)
Added(L, A, n, type, p) ==
  /\ n \in Nat /\ A.begin \in Nat /\ A.begin <= n /\ A.end = n + 1
  /\ Entries(L) = A.begin .. n - 1
  /\ Entries(L) = {} \/ L.end = n
  /\ p = Associate(L, type) /\ (type # DO => p # NULL)
  /\ \A x \in Entries(L) : /\ TypeOf(A, x) = TypeOf(L, x)
                           /\ A.original[x] = L.original[x] /\ A.prev[x] = L.prev[x]
                           /\ A.next[x] = IF x = p THEN n ELSE L.next[x]
  /\ TypeOf(A, n) = type /\ A.prev[n] = p /\ A.next[n] = NULL
  /\ A.original[n] = IF p = NULL THEN n ELSE L.original[p]
  /\ A.next_undo = IF type = UNDO THEN FindAssociated(A, UNDO) ELSE n
  /\ A.next_redo = IF type = DO THEN NULL
                   ELSE IF type = UNDO THEN n ELSE FindAssociated(A, REDO)

(* That is what add_request does.                                             *)
LEMMA AddAdds ==
  ASSUME IInv, NEW n \in Index, NEW type \in RequestType, Add(n, type)
  PROVE  Added(log, log', n, type, Associate(log, type))
<1> DEFINE r == [type |-> type]
           L == AppendEntry(log, n, r)
<1>0. /\ log.begin \in Nat /\ log.end \in Nat /\ log.begin <= log.end
      /\ DOMAIN log = Fields /\ n \in Nat
  BY NewLogFields, MaxIndexAssumption DEF IInv, TypeOK, Index
<1>1. CanAddRequest(log, n, r) /\ log' = AddRequest(log, n, r) /\ r.type = type
  BY DEF Add
<1> HIDE DEF r
<1>2. Grown(log, log', n, r, type)
  BY <1>0, <1>1, AddRequestGrows
<1>3. NextFound(L, log', n, type)
  BY <1>0, <1>1, AddRequestFinds
<1>4. /\ L.begin = log'.begin /\ L.end = log'.end
      /\ L.request = log'.request /\ L.prev = log'.prev
  BY <1>0, <1>1 DEF AddRequest, AppendEntry, Fields
<1> HIDE DEF L
<1>5. \A t : FindAssociated(log', t) = FindAssociated(L, t)
  BY <1>4, SameWalk
<1>6. /\ log'.begin \in Nat /\ log'.begin <= n /\ log'.end = n + 1
      /\ Entries(log) = log'.begin .. n - 1
      /\ Entries(log) = {} \/ log.end = n
  <2>1. log'.end = n + 1 /\ log'.begin = IF IsEmpty(log) THEN n ELSE log.begin
    BY <1>2 DEF Grown
  <2>2. CASE IsEmpty(log)
    BY <1>0, <2>1, <2>2 DEF IsEmpty, Entries
  <2>3. CASE ~IsEmpty(log)
    <3>1. n = log.end
      BY <1>1, <2>3 DEF CanAddRequest
    <3> QED BY <1>0, <2>1, <2>3, <3>1 DEF IsEmpty, Entries
  <2> QED BY <2>2, <2>3
<1> DEFINE p == Associate(log, type)
           b == log'.begin
<1>7. type # DO => p # NULL
  BY <1>1 DEF CanAddRequest
<1>8. /\ log'.request = [x \in b .. n |-> IF x = n THEN r ELSE log.request[x]]
      /\ log'.original = [x \in b .. n |-> IF x = n THEN IF p = NULL THEN n ELSE log.original[p]
                                           ELSE log.original[x]]
      /\ log'.prev = [x \in b .. n |-> IF x = n THEN p ELSE log.prev[x]]
      /\ log'.next = [x \in b .. n |-> IF x = n THEN NULL ELSE IF x = p THEN n ELSE log.next[x]]
  BY <1>2 DEF Grown
<1> HIDE DEF p, b
<1>9. \A x \in Entries(log) : x \in b .. n /\ x # n
  BY <1>0, <1>6 DEF b
<1>10. n \in b .. n
  BY <1>0, <1>6 DEF b
<1>11. \A x \in Entries(log) : /\ TypeOf(log', x) = TypeOf(log, x)
                               /\ log'.original[x] = log.original[x] /\ log'.prev[x] = log.prev[x]
                               /\ log'.next[x] = IF x = p THEN n ELSE log.next[x]
  BY <1>8, <1>9 DEF TypeOf
<1>12. /\ TypeOf(log', n) = type /\ log'.prev[n] = p /\ log'.next[n] = NULL
       /\ log'.original[n] = IF p = NULL THEN n ELSE log.original[p]
  BY <1>1, <1>8, <1>10 DEF TypeOf
<1>13. /\ log'.next_undo = IF type = UNDO THEN FindAssociated(log', UNDO) ELSE n
       /\ log'.next_redo = IF type = DO THEN NULL
                           ELSE IF type = UNDO THEN n ELSE FindAssociated(log', REDO)
  BY <1>3, <1>5 DEF NextFound, RequestType, DO, UNDO, REDO
<1> QED BY <1>0, <1>6, <1>7, <1>11, <1>12, <1>13 DEF Added, p

(* What an added request refers to is the last choice.                        *)
LEMMA AddedFacts ==
  ASSUME NEW L, NEW A, NEW n, NEW type \in RequestType, NEW p,
         UndoInv(L), Added(L, A, n, type, p)
  PROVE  /\ n \in Nat /\ n \notin Entries(L) /\ Entries(A) = Entries(L) \cup {n}
         /\ \A x \in Entries(L) : x \in Nat /\ x < n /\ x # NULL
         /\ p # NULL => /\ type # DO /\ p \in Entries(L) /\ p \in Choices(L, type)
                        /\ \A m \in Choices(L, type) : m <= p
         /\ p = NULL => type = DO
<1>1. /\ n \in Nat /\ A.begin \in Nat /\ A.begin <= n /\ A.end = n + 1
      /\ Entries(L) = A.begin .. n - 1
      /\ Entries(L) = {} \/ L.end = n
      /\ p = Associate(L, type) /\ (type # DO => p # NULL)
  BY DEF Added
<1>2. Entries(A) = A.begin .. n
  BY <1>1 DEF Entries
<1>3. p # NULL => /\ type # DO /\ p \in Choices(L, type)
                  /\ \A m \in Choices(L, type) : m <= p
  BY <1>1 DEF Associate, UndoInv, NextIsLast, IsLast, RequestType, DO, UNDO, REDO
<1>4. p # NULL => p \in Entries(L)
  BY <1>3 DEF Choices
<1> QED BY <1>1, <1>2, <1>3, <1>4 DEF NULL

(* The entries still match,                                                   *)
LEMMA AddedMatched ==
  ASSUME NEW L, NEW A, NEW n, NEW type \in RequestType, NEW p,
         UndoInv(L), Added(L, A, n, type, p)
  PROVE  WellFormed(A) /\ Matched(A) /\ OriginalsAreDo(A)
<1>1. /\ n \in Nat /\ n \notin Entries(L) /\ Entries(A) = Entries(L) \cup {n}
      /\ \A x \in Entries(L) : x \in Nat /\ x < n /\ x # NULL
      /\ p # NULL => type # DO /\ p \in Entries(L) /\ p \in Choices(L, type)
      /\ p = NULL => type = DO
  BY AddedFacts
<1>2. /\ A.begin \in Nat /\ A.begin <= n /\ A.end = n + 1
      /\ \A x \in Entries(L) : /\ TypeOf(A, x) = TypeOf(L, x)
                               /\ A.original[x] = L.original[x] /\ A.prev[x] = L.prev[x]
                               /\ A.next[x] = IF x = p THEN n ELSE L.next[x]
      /\ TypeOf(A, n) = type /\ A.prev[n] = p /\ A.next[n] = NULL
      /\ A.original[n] = IF p = NULL THEN n ELSE L.original[p]
  BY DEF Added
<1>3. p # NULL => Fits(L, type, p) /\ L.next[p] = NULL
  BY <1>1 DEF Choices
<1>4. \A x \in Entries(L) : /\ TypeOf(L, x) \in RequestType
                            /\ L.next[x] \in Int /\ L.prev[x] \in Int
                            /\ L.original[x] \in Entries(L)
                            /\ TypeOf(L, L.original[x]) = DO
  BY DEF UndoInv, WellFormed, OriginalsAreDo
<1>5. WellFormed(A)
  <2>1. /\ TypeOf(A, n) \in RequestType /\ A.next[n] \in Int /\ A.prev[n] \in Int
        /\ A.original[n] \in Entries(A)
    BY <1>1, <1>2, <1>4 DEF NULL
  <2>2. ASSUME NEW x \in Entries(L)
        PROVE  /\ TypeOf(A, x) \in RequestType /\ A.next[x] \in Int /\ A.prev[x] \in Int
               /\ A.original[x] \in Entries(A)
    BY <1>1, <1>2, <1>4
  <2> QED BY <1>1, <1>2, <2>1, <2>2 DEF WellFormed
<1>6. OriginalsAreDo(A)
  <2>1. TypeOf(A, A.original[n]) = DO
    BY <1>1, <1>2, <1>4
  <2>2. \A x \in Entries(L) : TypeOf(A, A.original[x]) = DO
    BY <1>2, <1>4
  <2> QED BY <1>1, <2>1, <2>2 DEF OriginalsAreDo
<1>7. Matched(A)
  <2>1. /\ type = DO => p = NULL /\ A.original[n] = n
        /\ type # DO => /\ p \in Entries(A) /\ p < n
                        /\ Fits(A, type, p) /\ A.next[p] = n
                        /\ A.original[n] = A.original[p]
    BY <1>1, <1>2, <1>3 DEF Fits
  <2>2. ASSUME NEW x \in Entries(L)
        PROVE  LET q == A.prev[x]
               IN /\ TypeOf(A, x) = DO => q = NULL /\ A.original[x] = x
                  /\ TypeOf(A, x) # DO => /\ q \in Entries(A) /\ q < x
                                          /\ Fits(A, TypeOf(A, x), q)
                                          /\ A.next[q] = x
                                          /\ A.original[x] = A.original[q]
                  /\ A.next[x] # NULL => A.next[x] \in Entries(A) /\ A.prev[A.next[x]] = x
    <3> DEFINE q == A.prev[x]
    <3>1. TypeOf(A, x) = TypeOf(L, x) /\ q = L.prev[x] /\ A.original[x] = L.original[x]
      BY <1>2
    <3>2. TypeOf(L, x) = DO => q = NULL /\ L.original[x] = x
      BY <3>1 DEF UndoInv, Matched
    <3>3. TypeOf(L, x) # DO => /\ q \in Entries(L) /\ q < x
                               /\ Fits(L, TypeOf(L, x), q)
                               /\ L.next[q] = x /\ L.original[x] = L.original[q]
      BY <3>1 DEF UndoInv, Matched
    <3>4. L.next[x] # NULL => L.next[x] \in Entries(L) /\ L.prev[L.next[x]] = x
      BY DEF UndoInv, Matched
    <3>5. q = p /\ TypeOf(L, x) # DO => FALSE
      BY <1>1, <1>3, <3>3
    <3>6. TypeOf(A, x) # DO => /\ q \in Entries(A) /\ q < x
                               /\ Fits(A, TypeOf(A, x), q)
                               /\ A.next[q] = x
                               /\ A.original[x] = A.original[q]
      BY <1>1, <1>2, <3>1, <3>3, <3>5 DEF Fits
    <3>7. A.next[x] # NULL => A.next[x] \in Entries(A) /\ A.prev[A.next[x]] = x
      BY <1>1, <1>2, <3>4
    <3> QED BY <3>1, <3>2, <3>6, <3>7
  <2> QED BY <1>1, <1>2, <2>1, <2>2 DEF Matched
<1> QED BY <1>5, <1>6, <1>7

(* are nested,                                                                *)
LEMMA AddedNested ==
  ASSUME NEW L, NEW A, NEW n, NEW type \in RequestType, NEW p,
         UndoInv(L), Added(L, A, n, type, p)
  PROVE  Nested(A)
<1>1. /\ n \in Nat /\ n \notin Entries(L) /\ Entries(A) = Entries(L) \cup {n}
      /\ \A x \in Entries(L) : x \in Nat /\ x < n /\ x # NULL
      /\ p # NULL => /\ type # DO /\ p \in Entries(L) /\ p \in Choices(L, type)
                     /\ \A m \in Choices(L, type) : m <= p
      /\ p = NULL => type = DO
  BY AddedFacts
<1>2. /\ \A x \in Entries(L) : /\ TypeOf(A, x) = TypeOf(L, x) /\ A.prev[x] = L.prev[x]
                               /\ A.next[x] = IF x = p THEN n ELSE L.next[x]
      /\ TypeOf(A, n) = type /\ A.prev[n] = p /\ A.next[n] = NULL
  BY DEF Added
<1>3. \A x \in Entries(L) : TypeOf(L, x) # DO => L.prev[x] \in Entries(L) /\ L.prev[x] < x
  BY DEF UndoInv, Matched
<1>4. ASSUME NEW x \in Entries(L), TypeOf(A, x) # DO, NEW m \in Entries(A),
             A.prev[x] <= m, m <= x
      PROVE  /\ Fits(A, TypeOf(A, x), m) => A.next[m] # NULL
             /\ TypeOf(A, m) = TypeOf(A, x) => A.prev[m] >= A.prev[x]
             /\ TypeOf(A, x) = REDO => TypeOf(A, m) # DO
  <2>1. TypeOf(L, x) # DO /\ m \in Entries(L) /\ L.prev[x] <= m /\ m <= x
    BY <1>1, <1>2, <1>4
  <2>2. /\ Fits(L, TypeOf(L, x), m) => L.next[m] # NULL
        /\ TypeOf(L, m) = TypeOf(L, x) => L.prev[m] >= L.prev[x]
        /\ TypeOf(L, x) = REDO => TypeOf(L, m) # DO
    BY <2>1 DEF UndoInv, Nested
  <2> QED BY <1>1, <1>2, <2>1, <2>2 DEF Fits, NULL
<1>5. ASSUME type # DO, NEW m \in Entries(A), p <= m, m <= n
      PROVE  /\ Fits(A, type, m) => A.next[m] # NULL
             /\ TypeOf(A, m) = type => A.prev[m] >= p
             /\ type = REDO => TypeOf(A, m) # DO
  <2>1. /\ p \in Entries(L) /\ p \in Choices(L, type)
        /\ \A k \in Choices(L, type) : k <= p
        /\ p # NULL /\ type \in {UNDO, REDO} /\ Fits(L, type, p) /\ L.next[p] = NULL
        /\ type = REDO => \A d \in Entries(L) : d >= p => TypeOf(L, d) # DO
    BY <1>1, <1>5 DEF Choices, RequestType
  <2>2. CASE m = n
    <3>1. ~Fits(A, type, n)
      BY <1>2, <2>1 DEF Fits, UNDO, REDO
    <3> QED BY <1>1, <1>2, <1>5, <2>1, <2>2, <3>1
  <2>3. CASE m # n
    <3>1. m \in Entries(L) /\ m >= p
      BY <1>1, <1>5, <2>1, <2>3
    <3>2. type = REDO => TypeOf(A, m) # DO
      BY <1>2, <2>1, <3>1
    <3>3. Fits(L, type, m) /\ m # p => L.next[m] # NULL
      <4> SUFFICES ASSUME Fits(L, type, m), m # p, L.next[m] = NULL PROVE FALSE
        OBVIOUS
      <4>1. type = REDO => \A d \in Entries(L) : d >= m => TypeOf(L, d) # DO
        BY <1>1, <2>1, <3>1
      <4>2. m \in Choices(L, type)
        BY <1>1, <3>1, <4>1 DEF Choices
      <4> QED BY <1>1, <2>1, <3>1, <4>2
    <3>4. Fits(A, type, m) => A.next[m] # NULL
      BY <1>1, <1>2, <3>1, <3>3 DEF Fits, NULL
    <3>5. ASSUME TypeOf(L, m) = type PROVE L.prev[m] >= p
      <4> SUFFICES ASSUME ~(L.prev[m] >= p) PROVE FALSE
        OBVIOUS
      <4>1. L.prev[m] \in Entries(L) /\ L.prev[m] < m
        BY <1>3, <1>5, <3>1, <3>5
      <4>2. L.prev[m] <= p /\ p <= m
        BY <1>1, <2>1, <3>1, <4>1
      <4>3. L.next[p] # NULL
        BY <1>5, <2>1, <3>1, <3>5, <4>2 DEF UndoInv, Nested
      <4> QED BY <2>1, <4>3
    <3> QED BY <1>2, <3>1, <3>2, <3>4, <3>5
  <2> QED BY <2>2, <2>3
<1> QED BY <1>1, <1>2, <1>4, <1>5 DEF Nested

(* and the choices are those that the undo stack has.                         *)
LEMMA AddedChoices ==
  ASSUME NEW L, NEW A, NEW n, NEW type \in RequestType, NEW p,
         UndoInv(L), Added(L, A, n, type, p)
  PROVE  /\ Choices(A, UNDO) = IF type = UNDO THEN Choices(L, UNDO) \ {p}
                               ELSE Choices(L, UNDO) \cup {n}
         /\ Choices(A, REDO) = IF type = DO THEN {}
                               ELSE IF type = UNDO THEN Choices(L, REDO) \cup {n}
                               ELSE Choices(L, REDO) \ {p}
<1>1. /\ n \in Nat /\ n \notin Entries(L) /\ Entries(A) = Entries(L) \cup {n}
      /\ \A x \in Entries(L) : x \in Nat /\ x < n /\ x # NULL
      /\ p # NULL => /\ type # DO /\ p \in Entries(L) /\ p \in Choices(L, type)
      /\ p = NULL => type = DO
  BY AddedFacts
<1>2. /\ \A x \in Entries(L) : /\ TypeOf(A, x) = TypeOf(L, x)
                               /\ A.next[x] = IF x = p THEN n ELSE L.next[x]
      /\ TypeOf(A, n) = type /\ A.next[n] = NULL
  BY DEF Added
<1>3. \A x \in Entries(L), t \in {UNDO, REDO} : Fits(A, t, x) <=> Fits(L, t, x)
  BY <1>2 DEF Fits
<1>4. \A x \in Entries(L) : A.next[x] = NULL <=> L.next[x] = NULL /\ x # p
  <2>1. p # NULL => L.next[p] = NULL
    BY <1>1 DEF Choices
  <2> QED BY <1>1, <1>2, <2>1 DEF NULL
<1>5. \A x \in Entries(A) : x \in Choices(A, UNDO) <=>
         IF type = UNDO THEN x \in Choices(L, UNDO) \ {p} ELSE x \in Choices(L, UNDO) \cup {n}
  <2>1. Fits(A, UNDO, n) <=> type # UNDO
    BY <1>2 DEF Fits
  <2>2. n \in Choices(A, UNDO) <=> type # UNDO
    BY <1>1, <1>2, <2>1 DEF Choices, UNDO, REDO
  <2>3. \A x \in Entries(L) : x \in Choices(A, UNDO) <=> x \in Choices(L, UNDO) /\ x # p
    BY <1>1, <1>3, <1>4 DEF Choices, UNDO, REDO
  <2>4. type # UNDO => p \notin Choices(L, UNDO)
    <3>1. CASE p = NULL
      BY <1>1, <3>1 DEF Choices
    <3>2. CASE p # NULL
      BY <1>1, <3>2 DEF Choices, RequestType, Fits, UNDO, REDO, DO
    <3> QED BY <3>1, <3>2
  <2>5. n \notin Choices(L, UNDO)
    BY <1>1 DEF Choices
  <2> QED BY <1>1, <2>2, <2>3, <2>4, <2>5
<1>6. \A x \in Entries(A) : x \in Choices(A, REDO) <=>
         IF type = DO THEN FALSE
         ELSE IF type = UNDO THEN x \in Choices(L, REDO) \cup {n}
         ELSE x \in Choices(L, REDO) \ {p}
  <2>1. n \in Choices(A, REDO) <=> type = UNDO
    BY <1>1, <1>2 DEF Choices, Fits, UNDO, REDO, DO
  <2>2. \A x \in Entries(L) :
           (\A d \in Entries(A) : d >= x => TypeOf(A, d) # DO)
             <=> type # DO /\ \A d \in Entries(L) : d >= x => TypeOf(L, d) # DO
    BY <1>1, <1>2
  <2>3. \A x \in Entries(L) :
           x \in Choices(A, REDO) <=> x \in Choices(L, REDO) /\ x # p /\ type # DO
    BY <1>1, <1>3, <1>4, <2>2 DEF Choices, UNDO, REDO
  <2>4. type = UNDO => p \notin Choices(L, REDO)
    <3>1. p # NULL /\ type = UNDO => Fits(L, UNDO, p)
      BY <1>1 DEF Choices
    <3> QED BY <1>1, <3>1 DEF Choices, Fits, UNDO, REDO, DO
  <2>5. n \notin Choices(L, REDO)
    BY <1>1 DEF Choices
  <2> QED BY <1>1, <2>1, <2>3, <2>4, <2>5 DEF DO, UNDO
<1>7. /\ Choices(A, UNDO) \subseteq Entries(A) /\ Choices(A, REDO) \subseteq Entries(A)
      /\ Choices(L, UNDO) \subseteq Entries(A) /\ Choices(L, REDO) \subseteq Entries(A)
      /\ n \in Entries(A)
  BY <1>1 DEF Choices
<1> QED BY <1>5, <1>6, <1>7

(* So all of the invariant is kept when a request is added,                   *)
LEMMA AddedUndoInv ==
  ASSUME NEW L, NEW A, NEW n, NEW type \in RequestType, NEW p,
         UndoInv(L), Added(L, A, n, type, p)
  PROVE  UndoInv(A)
<1>1. /\ n \in Nat /\ n \notin Entries(L) /\ Entries(A) = Entries(L) \cup {n}
      /\ \A x \in Entries(L) : x \in Nat /\ x < n /\ x # NULL
      /\ p # NULL => /\ type # DO /\ p \in Entries(L) /\ p \in Choices(L, type)
                     /\ \A m \in Choices(L, type) : m <= p
      /\ p = NULL => type = DO
  BY AddedFacts
<1>2. /\ A.end = n + 1
      /\ \A x \in Entries(L) : A.original[x] = L.original[x]
      /\ A.original[n] = IF p = NULL THEN n ELSE L.original[p]
      /\ A.next_undo = IF type = UNDO THEN FindAssociated(A, UNDO) ELSE n
      /\ A.next_redo = IF type = DO THEN NULL
                       ELSE IF type = UNDO THEN n ELSE FindAssociated(A, REDO)
  BY DEF Added
<1>3. /\ Choices(A, UNDO) = IF type = UNDO THEN Choices(L, UNDO) \ {p}
                            ELSE Choices(L, UNDO) \cup {n}
      /\ Choices(A, REDO) = IF type = DO THEN {}
                            ELSE IF type = UNDO THEN Choices(L, REDO) \cup {n}
                            ELSE Choices(L, REDO) \ {p}
  BY AddedChoices
<1>4. /\ Choices(L, UNDO) \subseteq Entries(L) /\ Choices(L, REDO) \subseteq Entries(L)
      /\ \A x \in Entries(L) : L.original[x] \in Entries(L)
  BY DEF Choices, UndoInv, WellFormed
<1>5. WellFormed(A) /\ Matched(A) /\ OriginalsAreDo(A) /\ Nested(A)
  BY AddedMatched, AddedNested
<1>6. NextIsLast(A)
  <2>1. A.end - 1 = n /\ n \in Entries(A)
    BY <1>1, <1>2
  <2>2. \A t \in {UNDO, REDO} : IsLast(FindAssociated(A, t), Choices(A, t))
    BY <1>5, <2>1, FindsLast
  <2>3. type # UNDO => IsLast(n, Choices(A, UNDO))
    BY <1>1, <1>3, <1>4 DEF IsLast, NULL
  <2>4. type = UNDO => IsLast(n, Choices(A, REDO))
    BY <1>1, <1>3, <1>4 DEF IsLast, NULL, DO, UNDO
  <2>5. type = DO => IsLast(NULL, Choices(A, REDO))
    BY <1>3 DEF IsLast
  <2> QED BY <1>2, <2>2, <2>3, <2>4, <2>5 DEF NextIsLast, DO, UNDO, REDO
<1>7. InOrderOf(A)
  <2> DEFINE o(x) == L.original[x]
  <2>1. /\ \A m, k \in Choices(L, UNDO) : m < k => o(m) < o(k)
        /\ \A m, k \in Choices(L, REDO) : m < k => o(k) < o(m)
        /\ \A m \in Choices(L, UNDO), k \in Choices(L, REDO) : o(m) < o(k)
    BY DEF UndoInv, InOrderOf
  <2>2. \A x \in Entries(L) : o(x) \in Nat /\ o(x) < n /\ A.original[x] = o(x)
    BY <1>1, <1>2, <1>4
  <2> HIDE DEF o
  <2>3. CASE type = DO
    <3>1. A.original[n] = n
      BY <1>1, <1>2, <2>3
    <3>2. Choices(A, UNDO) = Choices(L, UNDO) \cup {n} /\ Choices(A, REDO) = {}
      BY <1>3, <2>3 DEF DO, UNDO
    <3> QED BY <1>1, <1>4, <2>1, <2>2, <3>1, <3>2 DEF InOrderOf
  <2>4. CASE type = UNDO
    <3>1. p \in Choices(L, UNDO) /\ p \in Nat /\ \A m \in Choices(L, UNDO) : m <= p
      BY <1>1, <2>4 DEF DO, UNDO
    <3>2. A.original[n] = o(p)
      BY <1>1, <1>2, <2>4 DEF DO, UNDO, o
    <3>3. Choices(A, UNDO) = Choices(L, UNDO) \ {p} /\ Choices(A, REDO) = Choices(L, REDO) \cup {n}
      BY <1>3, <2>4 DEF DO, UNDO
    <3>4. \A m \in Choices(L, UNDO) : m # p => m < p
      BY <1>1, <1>4, <3>1
    <3> QED BY <1>1, <1>4, <2>1, <2>2, <3>1, <3>2, <3>3, <3>4 DEF InOrderOf
  <2>5. CASE type = REDO
    <3>1. p \in Choices(L, REDO) /\ p \in Nat /\ \A m \in Choices(L, REDO) : m <= p
      BY <1>1, <2>5 DEF DO, REDO
    <3>2. A.original[n] = o(p)
      BY <1>1, <1>2, <2>5 DEF DO, REDO, o
    <3>3. Choices(A, UNDO) = Choices(L, UNDO) \cup {n} /\ Choices(A, REDO) = Choices(L, REDO) \ {p}
      BY <1>3, <2>5 DEF DO, UNDO, REDO
    <3>4. \A m \in Choices(L, REDO) : m # p => m < p
      BY <1>1, <1>4, <3>1
    <3> QED BY <1>1, <1>4, <2>1, <2>2, <3>1, <3>2, <3>3, <3>4 DEF InOrderOf
  <2> QED BY <2>3, <2>4, <2>5 DEF RequestType
<1> QED BY <1>5, <1>6, <1>7 DEF UndoInv

(* A is log L without the entries before n; what is left refers to nothing    *)
(* that is gone.                                                              *)
Shortened(L, A, n) ==
  /\ n \in Nat /\ A.begin = n /\ A.end = L.end /\ n <= L.end
  /\ Entries(A) = {x \in Entries(L) : x >= n}
  /\ \A x \in Entries(A) : /\ TypeOf(A, x) = TypeOf(L, x) /\ A.original[x] = L.original[x]
                           /\ A.next[x] = L.next[x] /\ A.prev[x] = L.prev[x]
                           /\ L.original[x] \in Entries(A)
                           /\ L.next[x] # NULL => L.next[x] \in Entries(A)
                           /\ L.prev[x] # NULL => L.prev[x] \in Entries(A)
  /\ A.next_undo = Clear(n, L.next_undo) /\ A.next_redo = Clear(n, L.next_redo)

(* That is what remove_requests does.                                         *)
LEMMA RemoveShortens ==
  ASSUME IInv, NEW n \in 0 .. MaxIndex, Remove(n)
  PROVE  Shortened(log, log', n)
<1>0. /\ log.begin \in Nat /\ log.end \in Nat /\ log.begin <= log.end
      /\ DOMAIN log = Fields /\ n \in Nat
  BY NewLogFields, MaxIndexAssumption DEF IInv, TypeOK
<1>1. n \in log.begin .. log.end
  BY DEF Remove, CanRemoveRequests
<1>2. Trimmed(log, log', n)
  BY <1>0, RemoveTrims DEF Remove
<1>3. /\ log'.begin = n /\ log'.end = log.end
      /\ log'.next_undo = Clear(n, log.next_undo) /\ log'.next_redo = Clear(n, log.next_redo)
  BY <1>2 DEF Trimmed
<1>4. /\ Entries(log') = n .. log.end - 1
      /\ Entries(log') = {x \in Entries(log) : x >= n}
  BY <1>0, <1>1, <1>3 DEF Entries
<1>5. \A x \in Entries(log') :
         /\ TypeOf(log', x) = TypeOf(log, x) /\ log'.original[x] = log.original[x]
         /\ log'.next[x] = log.next[x] /\ log'.prev[x] = log.prev[x]
  BY <1>2, <1>4 DEF Trimmed, Kept, TypeOf
<1>6. IInv'
  BY RemovePreserves
<1>7. \A x \in Entries(log') :
         /\ log'.lower[x] \in Int /\ log'.upper[x] \in Int
         /\ log'.lower[x] .. log'.upper[x] \subseteq Entries(log')
  <2>1. log'.begin \in Int /\ log'.end \in Int
    BY <1>0, <1>3
  <2> QED BY <1>6, <2>1 DEF IInv, RelatedDisjoint, Entries
<1>8. \A x \in Entries(log') :
         /\ log'.original[x] \in Entries(log')
         /\ log'.next[x] # NULL => log'.next[x] \in Entries(log')
         /\ log'.prev[x] # NULL => log'.prev[x] \in Entries(log')
  <2> SUFFICES ASSUME NEW x \in Entries(log')
               PROVE  /\ log'.original[x] \in Entries(log')
                      /\ log'.next[x] # NULL => log'.next[x] \in Entries(log')
                      /\ log'.prev[x] # NULL => log'.prev[x] \in Entries(log')
    OBVIOUS
  <2> DEFINE S == log'.lower[x] .. log'.upper[x]
  <2>1. /\ log'.original[x] \in S
        /\ log'.next[x] # NULL => log'.next[x] \in S
        /\ log'.prev[x] # NULL => log'.prev[x] \in S
    BY <1>6 DEF IInv, LinksRelated
  <2>2. S \subseteq Entries(log')
    BY <1>7
  <2> HIDE DEF S
  <2> QED BY <2>1, <2>2
<1> QED BY <1>0, <1>1, <1>3, <1>4, <1>5, <1>8 DEF Shortened

(* and when requests are removed,                                             *)
LEMMA ShortenedUndoInv ==
  ASSUME NEW L, NEW A, NEW n, UndoInv(L), Shortened(L, A, n)
  PROVE  /\ UndoInv(A)
         /\ \A t \in {UNDO, REDO} : Choices(A, t) = {m \in Choices(L, t) : m >= n}
<1>1. /\ n \in Nat /\ A.begin = n /\ A.end = L.end /\ n <= L.end
      /\ Entries(A) = {x \in Entries(L) : x >= n}
      /\ \A x \in Entries(A) : /\ TypeOf(A, x) = TypeOf(L, x) /\ A.original[x] = L.original[x]
                               /\ A.next[x] = L.next[x] /\ A.prev[x] = L.prev[x]
                               /\ L.original[x] \in Entries(A)
                               /\ L.next[x] # NULL => L.next[x] \in Entries(A)
                               /\ L.prev[x] # NULL => L.prev[x] \in Entries(A)
      /\ A.next_undo = Clear(n, L.next_undo) /\ A.next_redo = Clear(n, L.next_redo)
  BY DEF Shortened
<1>2. /\ \A x \in Entries(L) : x \in Nat /\ L.begin <= x /\ x < L.end
      /\ L.end \in Nat
  BY MatchedEntries DEF UndoInv, WellFormed
<1>3. WellFormed(A)
  BY <1>1, <1>2 DEF UndoInv, WellFormed
<1>4. Matched(A)
  <2> SUFFICES ASSUME NEW x \in Entries(A)
               PROVE  LET p == A.prev[x]
                      IN /\ TypeOf(A, x) = DO => p = NULL /\ A.original[x] = x
                         /\ TypeOf(A, x) # DO => /\ p \in Entries(A) /\ p < x
                                                 /\ Fits(A, TypeOf(A, x), p)
                                                 /\ A.next[p] = x
                                                 /\ A.original[x] = A.original[p]
                         /\ A.next[x] # NULL => A.next[x] \in Entries(A) /\ A.prev[A.next[x]] = x
    BY DEF Matched
  <2> DEFINE p == L.prev[x]
  <2>1. /\ TypeOf(L, x) = DO => p = NULL /\ L.original[x] = x
        /\ TypeOf(L, x) # DO => /\ p \in Entries(L) /\ p < x
                                /\ Fits(L, TypeOf(L, x), p)
                                /\ L.next[p] = x
                                /\ L.original[x] = L.original[p]
        /\ L.next[x] # NULL => L.next[x] \in Entries(L) /\ L.prev[L.next[x]] = x
    BY <1>1 DEF UndoInv, Matched
  <2>2. TypeOf(L, x) # DO => p # NULL
    BY <1>2, <2>1 DEF NULL
  <2>3. TypeOf(L, x) # DO => p \in Entries(A)
    BY <1>1, <2>2
  <2> QED BY <1>1, <2>1, <2>3 DEF Fits
<1>5. Nested(A)
  <2> SUFFICES ASSUME NEW x \in Entries(A), TypeOf(A, x) # DO,
                      NEW m \in Entries(A), A.prev[x] <= m, m <= x
               PROVE  /\ Fits(A, TypeOf(A, x), m) => A.next[m] # NULL
                      /\ TypeOf(A, m) = TypeOf(A, x) => A.prev[m] >= A.prev[x]
                      /\ TypeOf(A, x) = REDO => TypeOf(A, m) # DO
    BY DEF Nested
  <2>1. x \in Entries(L) /\ m \in Entries(L)
    BY <1>1
  <2>2. /\ Fits(L, TypeOf(L, x), m) => L.next[m] # NULL
        /\ TypeOf(L, m) = TypeOf(L, x) => L.prev[m] >= L.prev[x]
        /\ TypeOf(L, x) = REDO => TypeOf(L, m) # DO
    BY <1>1, <2>1 DEF UndoInv, Nested
  <2> QED BY <1>1, <2>2 DEF Fits
<1>6. ASSUME NEW t \in {UNDO, REDO}
      PROVE  Choices(A, t) = {m \in Choices(L, t) : m >= n}
  <2>1. ASSUME NEW m \in Entries(A)
        PROVE  m \in Choices(A, t) <=> m \in Choices(L, t)
    <3>1. m \in Entries(L) /\ m >= n /\ m \in Nat
      BY <1>1, <1>2
    <3>2. \A d \in Entries(L) : d >= m => d \in Entries(A) /\ TypeOf(A, d) = TypeOf(L, d)
      BY <1>1, <1>2, <3>1
    <3>3. \A d \in Entries(A) : d \in Entries(L)
      BY <1>1
    <3>4. Fits(A, t, m) <=> Fits(L, t, m)
      BY <1>1 DEF Fits
    <3>5. (\A d \in Entries(A) : d >= m => TypeOf(A, d) # DO)
            <=> (\A d \in Entries(L) : d >= m => TypeOf(L, d) # DO)
      BY <3>2, <3>3
    <3> QED BY <1>1, <3>1, <3>4, <3>5 DEF Choices
  <2>2. Choices(A, t) \subseteq Entries(A) /\ Choices(L, t) \subseteq Entries(L)
    BY DEF Choices
  <2> QED BY <1>1, <2>1, <2>2
<1>7. NextIsLast(A)
  <2>1. ASSUME NEW c, NEW t \in {UNDO, REDO}, IsLast(c, Choices(L, t))
        PROVE  IsLast(Clear(n, c), Choices(A, t))
    <3>1. Choices(L, t) \subseteq Nat /\ Choices(A, t) = {m \in Choices(L, t) : m >= n}
      BY <1>2, <1>6 DEF Choices
    <3>2. CASE c = NULL
      BY <1>1, <2>1, <3>1, <3>2 DEF IsLast, Clear, NULL
    <3>3. CASE c # NULL
      BY <1>1, <2>1, <3>1, <3>3 DEF IsLast, Clear, NULL
    <3> QED BY <3>2, <3>3
  <2> QED BY <1>1, <2>1 DEF UndoInv, NextIsLast
<1>8. InOrderOf(A)
  <2>1. \A t \in {UNDO, REDO} : \A m \in Choices(A, t) :
           m \in Choices(L, t) /\ A.original[m] = L.original[m]
    <3>1. \A t \in {UNDO, REDO} : \A m \in Choices(A, t) : m \in Entries(A)
      BY DEF Choices
    <3> QED BY <1>1, <1>6, <3>1
  <2> QED BY <2>1 DEF UndoInv, InOrderOf
<1>9. OriginalsAreDo(A)
  BY <1>1 DEF UndoInv, OriginalsAreDo
<1> QED BY <1>3, <1>4, <1>5, <1>6, <1>7, <1>8, <1>9 DEF UndoInv

(* An empty log satisfies it,                                                 *)
LEMMA EmptyUndoInv ==
  ASSUME NEW n \in Nat
  PROVE  UndoInv(NewLog(n)) /\ \A t : Choices(NewLog(n), t) = {}
<1>1. /\ NewLog(n).begin = n /\ NewLog(n).end = n /\ Entries(NewLog(n)) = {}
      /\ NewLog(n).next_undo = NULL /\ NewLog(n).next_redo = NULL
  <2>1. NewLog(n).next_undo = NULL /\ NewLog(n).next_redo = NULL
    BY DEF NewLog
  <2> QED BY <2>1, NewLogFields
<1>2. \A t : Choices(NewLog(n), t) = {}
  BY <1>1 DEF Choices
<1>3. WellFormed(NewLog(n)) /\ Matched(NewLog(n)) /\ Nested(NewLog(n)) /\ OriginalsAreDo(NewLog(n))
  BY <1>1 DEF WellFormed, Matched, Nested, OriginalsAreDo
<1>4. NextIsLast(NewLog(n)) /\ InOrderOf(NewLog(n))
  BY <1>1, <1>2 DEF NextIsLast, IsLast, InOrderOf
<1> QED BY <1>2, <1>3, <1>4 DEF UndoInv

(* and the cache does not matter.                                             *)
SameEntries(L, A) ==
  /\ A.begin = L.begin /\ A.end = L.end
  /\ A.request = L.request /\ A.original = L.original
  /\ A.next = L.next /\ A.prev = L.prev
  /\ A.lower = L.lower /\ A.upper = L.upper
  /\ A.next_undo = L.next_undo /\ A.next_redo = L.next_redo

LEMMA SameUndoInv ==
  ASSUME NEW L, NEW A, UndoInv(L), SameEntries(L, A)
  PROVE  UndoInv(A) /\ \A t : Choices(A, t) = Choices(L, t)
<1>1. Entries(A) = Entries(L) /\ \A x : TypeOf(A, x) = TypeOf(L, x)
  BY DEF SameEntries, Entries, TypeOf
<1>2. \A t, x : Fits(A, t, x) <=> Fits(L, t, x)
  BY <1>1 DEF Fits
<1>3. \A t : Choices(A, t) = Choices(L, t)
  BY <1>1, <1>2 DEF SameEntries, Choices
<1>4. WellFormed(A)
  BY <1>1 DEF UndoInv, WellFormed, SameEntries
<1>5. Matched(A)
  BY <1>1, <1>2 DEF UndoInv, Matched, SameEntries
<1>6. Nested(A)
  BY <1>1, <1>2 DEF UndoInv, Nested, SameEntries
<1>7. NextIsLast(A) /\ InOrderOf(A) /\ OriginalsAreDo(A)
  BY <1>1, <1>3 DEF UndoInv, NextIsLast, InOrderOf, OriginalsAreDo, SameEntries
<1> QED BY <1>3, <1>4, <1>5, <1>6, <1>7 DEF UndoInv

(* The steps: a request is added, an empty log is renumbered, requests are    *)
(* removed, or only the cache changes.                                        *)
LEMMA Steps ==
  ASSUME IInv, [Next]_log
  PROVE  \/ \E n \in Index, type \in RequestType :
              Add(n, type) /\ Added(log, log', n, type, Associate(log, type))
         \/ \E n \in 0 .. MaxIndex : Entries(log) = {} /\ log' = NewLog(n)
         \/ \E n \in 0 .. MaxIndex : Remove(n) /\ Shortened(log, log', n)
         \/ SameEntries(log, log')
<1>1. ASSUME NEW n \in Index, NEW type \in RequestType, Add(n, type)
      PROVE  Added(log, log', n, type, Associate(log, type))
  BY <1>1, AddAdds
<1>2. ASSUME NEW n \in 0 .. MaxIndex, SetLogBegin(n)
      PROVE  Entries(log) = {} /\ log' = NewLog(n)
  <2>1. /\ log.begin \in Int /\ log.begin = log.end /\ log.cache = {}
        /\ log.next_undo \in Entries(log) \cup {NULL}
        /\ log.next_redo \in Entries(log) \cup {NULL}
    BY <1>2 DEF IInv, TypeOK, SetLogBegin, IsEmpty
  <2>2. log.next_undo = NULL /\ log.next_redo = NULL /\ Entries(log) = {}
    BY <2>1 DEF Entries
  <2>3. log' = [NewLog(n) EXCEPT !.cache = {}, !.next_undo = NULL, !.next_redo = NULL]
    BY <1>2, <2>1, <2>2 DEF SetLogBegin, SetBegin
  <2> QED BY <2>2, <2>3 DEF NewLog
<1>3. ASSUME NEW n \in 0 .. MaxIndex, Remove(n) PROVE Shortened(log, log', n)
  BY <1>3, RemoveShortens
<1>4. ASSUME NEW n \in Index, NEW k \in CacheKeys, Cache(n, k) PROVE SameEntries(log, log')
  <2>1. DOMAIN log = Fields
    BY NewLogFields DEF IInv, TypeOK
  <2> QED BY <1>4, <2>1 DEF Cache, AddCachedRequest, Fields, SameEntries
<1>5. CASE UNCHANGED log
  BY <1>5 DEF SameEntries
<1>6. DO \in RequestType /\ UNDO \in RequestType /\ REDO \in RequestType
  BY DEF RequestType
<1> QED BY <1>1, <1>2, <1>3, <1>4, <1>5, <1>6 DEF Next, AddDo, AddUndo, AddRedo, Index

(* UndoInv is an invariant.                                                   *)
LEMMA UndoInvariance == Spec => []UndoInv(log)
<1>1. Init => UndoInv(log)
  BY EmptyUndoInv DEF Init
<1>2. IInv /\ UndoInv(log) /\ [Next]_log => UndoInv(log)'
  <2> SUFFICES ASSUME IInv, UndoInv(log), [Next]_log PROVE UndoInv(log')
    OBVIOUS
  <2>1. \A n \in 0 .. MaxIndex : n \in Nat
    BY MaxIndexAssumption
  <2> QED BY <2>1, Steps, AddedUndoInv, ShortenedUndoInv, EmptyUndoInv, SameUndoInv
<1> QED BY <1>1, <1>2, Invariance, PTL DEF Spec

(* What it says of next_undo and next_redo and of the undo stack: Done are    *)
(* the originals of what can be undone, Undone of what can be redone.         *)
LEMMA StacksOfChoices ==
  ASSUME IInv, UndoInv(log)
  PROVE  /\ Done = {log.original[n] : n \in Choices(log, UNDO)}
         /\ Undone = {log.original[n] : n \in Choices(log, REDO)}
<1>1. log.begin \in Int /\ log.end \in Int
  BY DEF IInv, TypeOK
<1>2. {m \in Open : log.request[m].type # UNDO} = Choices(log, UNDO)
  BY DEF Open, Choices, Fits, TypeOf, UNDO, REDO
<1>3. \A m \in Entries(log) : (\A d \in m .. log.end - 1 : log.request[d].type # DO)
                                <=> (\A d \in Entries(log) : d >= m => TypeOf(log, d) # DO)
  BY <1>1 DEF Entries, TypeOf
<1>4. {m \in Open : /\ log.request[m].type = UNDO
                    /\ \A d \in m .. log.end - 1 : log.request[d].type # DO} = Choices(log, REDO)
  BY <1>3 DEF Open, Choices, Fits, TypeOf, UNDO, REDO
<1> QED BY <1>2, <1>4 DEF Done, Undone

(* The top of the stack of done requests is the original of the last choice,  *)
LEMMA TopOfDone ==
  ASSUME NEW L, UndoInv(L), NEW p, p \in Choices(L, UNDO),
         \A m \in Choices(L, UNDO) : m <= p
  PROVE  Stack!Largest({L.original[n] : n \in Choices(L, UNDO)}) = L.original[p]
<1> DEFINE S == {L.original[n] : n \in Choices(L, UNDO)}
<1>1. \A m \in Choices(L, UNDO) : m \in Nat /\ L.original[m] \in Nat
  BY MatchedEntries DEF Choices, UndoInv, WellFormed
<1>2. \A m \in Choices(L, UNDO) : m # p => L.original[m] < L.original[p]
  BY <1>1 DEF UndoInv, InOrderOf
<1>3. L.original[p] \in S /\ S \subseteq Nat /\ \A x \in S : x <= L.original[p]
  BY <1>1, <1>2
<1> HIDE DEF S
<1>4. ASSUME NEW x \in S, \A y \in S : y <= x PROVE x = L.original[p]
  <2>1. L.original[p] \in Nat /\ x \in Nat /\ L.original[p] <= x /\ x <= L.original[p]
    BY <1>3, <1>4
  <2> QED BY <2>1
<1>5. Stack!Largest(S) = CHOOSE x \in S : \A y \in S : y <= x
  BY DEF Stack!Largest
<1> QED BY <1>3, <1>4, <1>5 DEF S

(* and so is the top of the stack of undone ones.                             *)
LEMMA TopOfUndone ==
  ASSUME NEW L, UndoInv(L), NEW p, p \in Choices(L, REDO),
         \A m \in Choices(L, REDO) : m <= p
  PROVE  Stack!Smallest({L.original[n] : n \in Choices(L, REDO)}) = L.original[p]
<1> DEFINE S == {L.original[n] : n \in Choices(L, REDO)}
<1>1. \A m \in Choices(L, REDO) : m \in Nat /\ L.original[m] \in Nat
  BY MatchedEntries DEF Choices, UndoInv, WellFormed
<1>2. \A m \in Choices(L, REDO) : m # p => L.original[p] < L.original[m]
  BY <1>1 DEF UndoInv, InOrderOf
<1>3. L.original[p] \in S /\ S \subseteq Nat /\ \A x \in S : L.original[p] <= x
  BY <1>1, <1>2
<1> HIDE DEF S
<1>4. ASSUME NEW x \in S, \A y \in S : x <= y PROVE x = L.original[p]
  <2>1. L.original[p] \in Nat /\ x \in Nat /\ L.original[p] <= x /\ x <= L.original[p]
    BY <1>3, <1>4
  <2> QED BY <2>1
<1>5. Stack!Smallest(S) = CHOOSE x \in S : \A y \in S : x <= y
  BY DEF Stack!Smallest
<1> QED BY <1>3, <1>4, <1>5 DEF S

(* In every reachable log the associations match, next_undo and next_redo are *)
(* not taken back yet, and they are the top of what the user did and undid:   *)
(* the walks of inf_adopted_request_log_find_associated are right.            *)
THEOREM UndoStaysSound == Spec => []UndoSound
<1>1. IInv /\ UndoInv(log) => UndoSound
  <2> SUFFICES ASSUME IInv, UndoInv(log) PROVE UndoSound
    OBVIOUS
  <2>1. /\ log.begin \in Nat /\ log.end \in Nat
        /\ \A x \in Entries(log) : x \in Nat /\ log.begin <= x /\ x < log.end
    BY MatchedEntries DEF UndoInv, WellFormed
  <2>2. AssociationsMatch
    <3> SUFFICES ASSUME NEW n \in Entries(log)
                 PROVE  LET type == log.request[n].type
                            p == log.prev[n]
                        IN /\ type = DO => p = NULL /\ log.original[n] = n
                           /\ type # DO => /\ p \in log.begin .. n - 1
                                           /\ (type = UNDO) = (log.request[p].type # UNDO)
                                           /\ log.next[p] = n
                                           /\ log.original[n] = log.original[p]
                           /\ log.next[n] # NULL => /\ log.next[n] \in Entries(log)
                                                    /\ log.prev[log.next[n]] = n
      BY DEF AssociationsMatch
    <3> DEFINE type == log.request[n].type
               p == log.prev[n]
    <3>1. /\ type = DO => p = NULL /\ log.original[n] = n
          /\ type # DO => /\ p \in Entries(log) /\ p < n
                          /\ Fits(log, type, p)
                          /\ log.next[p] = n
                          /\ log.original[n] = log.original[p]
          /\ log.next[n] # NULL => log.next[n] \in Entries(log) /\ log.prev[log.next[n]] = n
      BY DEF UndoInv, Matched, TypeOf
    <3>2. type # DO => p \in log.begin .. n - 1
      BY <2>1, <3>1
    <3>3. type # DO => (type = UNDO) = (log.request[p].type # UNDO)
      BY <3>1 DEF Fits, TypeOf
    <3> QED BY <3>1, <3>2, <3>3
  <2>3. /\ log.next_undo # NULL => log.next_undo \in Choices(log, UNDO)
        /\ log.next_redo # NULL => log.next_redo \in Choices(log, REDO)
    BY DEF UndoInv, NextIsLast, IsLast
  <2>4. NextIsOpen
    BY <2>3 DEF NextIsOpen, Choices, Fits, TypeOf, UNDO, REDO
  <2>5. NextIsTop
    <3>1. IF Done = {} THEN log.next_undo = NULL
          ELSE log.next_undo # NULL /\ log.original[log.next_undo] = Stack!Largest(Done)
      <4>1. CASE Choices(log, UNDO) = {}
        BY <2>3, <4>1, StacksOfChoices
      <4>2. CASE Choices(log, UNDO) # {}
        <5>1. /\ log.next_undo # NULL /\ log.next_undo \in Choices(log, UNDO)
              /\ \A m \in Choices(log, UNDO) : m <= log.next_undo
          BY <4>2 DEF UndoInv, NextIsLast, IsLast
        <5>2. Done # {}
          BY <4>2, StacksOfChoices
        <5> QED BY <5>1, <5>2, StacksOfChoices, TopOfDone
      <4> QED BY <4>1, <4>2
    <3>2. IF Undone = {} THEN log.next_redo = NULL
          ELSE log.next_redo # NULL /\ log.original[log.next_redo] = Stack!Smallest(Undone)
      <4>1. CASE Choices(log, REDO) = {}
        BY <2>3, <4>1, StacksOfChoices
      <4>2. CASE Choices(log, REDO) # {}
        <5>1. /\ log.next_redo # NULL /\ log.next_redo \in Choices(log, REDO)
              /\ \A m \in Choices(log, REDO) : m <= log.next_redo
          BY <4>2 DEF UndoInv, NextIsLast, IsLast
        <5>2. Undone # {}
          BY <4>2, StacksOfChoices
        <5> QED BY <5>1, <5>2, StacksOfChoices, TopOfUndone
      <4> QED BY <4>1, <4>2
    <3> QED BY <3>1, <3>2 DEF NextIsTop
  <2> QED BY <2>2, <2>4, <2>5 DEF UndoSound
<1> QED BY <1>1, Invariance, UndoInvariance, PTL

-----------------------------------------------------------------------------
(* The history.  What can be redone and all that follows it is one set of     *)
(* related requests, so it is removed only with everything else.              *)
LEMMA RedoRemovedLast ==
  ASSUME IInv, UndoInv(log), NEW n \in 0 .. MaxIndex, Remove(n),
         NEW m \in Choices(log, REDO), m < n
  PROVE  n = log.end
<1>1. /\ log.begin \in Nat /\ log.end \in Nat /\ n \in log.begin .. log.end
      /\ n # log.begin => log.upper[n - 1] = n - 1
      /\ \A x \in Entries(log) : x \in Nat /\ log.begin <= x /\ x < log.end
      /\ m \in Entries(log)
  BY MatchedEntries DEF UndoInv, WellFormed, Remove, CanRemoveRequests, Choices
<1> SUFFICES ASSUME n # log.end PROVE FALSE
  OBVIOUS
<1>2. n \in Entries(log) /\ n - 1 \in Entries(log)
  BY <1>1 DEF Entries
<1>3. log.original[n] \in Entries(log) /\ TypeOf(log, log.original[n]) = DO
  BY <1>2 DEF UndoInv, WellFormed, OriginalsAreDo
<1>4. log.original[n] < m
  BY <1>1, <1>3 DEF Choices, REDO
<1>5. log.lower[n] <= log.original[n] /\ log.lower[n] \in Nat /\ log.upper[n] \in Nat
      /\ n <= log.upper[n]
  BY <1>1, <1>2, <1>3 DEF IInv, LinksRelated, RelatedDisjoint
<1>6. n - 1 \in log.lower[n] .. log.upper[n]
  BY <1>1, <1>2, <1>3, <1>4, <1>5
<1>7. log.upper[n - 1] = log.upper[n]
  BY <1>2, <1>6 DEF IInv, RelatedDisjoint
<1> QED BY <1>1, <1>2, <1>5, <1>7

(* An added request is a step of the stack,                                   *)
Originals(L, type) == {L.original[n] : n \in Choices(L, type)}

LargestOf(S) == CHOOSE m \in S : \A x \in S : x <= m
SmallestOf(S) == CHOOSE m \in S : \A x \in S : m <= x

(* How the two stacks D, U become E, V when request n is added.               *)
Moved(D, U, E, V, n, type) ==
  /\ type = DO => E = D \cup {n} /\ V = {} /\ \A x \in D : x < n
  /\ type = UNDO => /\ D # {}
                    /\ E = D \ {LargestOf(D)} /\ V = U \cup {LargestOf(D)}
  /\ type = REDO => /\ U # {}
                    /\ E = D \cup {SmallestOf(U)} /\ V = U \ {SmallestOf(U)}

LEMMA OriginalsAdded ==
  ASSUME NEW L, NEW A, NEW n, NEW type \in RequestType, NEW p,
         UndoInv(L), Added(L, A, n, type, p)
  PROVE  Moved(Originals(L, UNDO), Originals(L, REDO),
               Originals(A, UNDO), Originals(A, REDO), n, type)
<1> DEFINE U == Choices(L, UNDO)
           R == Choices(L, REDO)
           o(x) == L.original[x]
<1>1. /\ n \in Nat /\ n \notin Entries(L)
      /\ \A x \in Entries(L) : x \in Nat /\ x < n
      /\ p # NULL => type # DO /\ p \in Choices(L, type) /\ \A m \in Choices(L, type) : m <= p
      /\ p = NULL => type = DO
  BY AddedFacts
<1>2. /\ \A x \in Entries(L) : A.original[x] = o(x)
      /\ A.original[n] = IF p = NULL THEN n ELSE o(p)
  BY DEF Added
<1>3. /\ Choices(A, UNDO) = IF type = UNDO THEN U \ {p} ELSE U \cup {n}
      /\ Choices(A, REDO) = IF type = DO THEN {} ELSE IF type = UNDO THEN R \cup {n} ELSE R \ {p}
  BY AddedChoices
<1>4. /\ U \subseteq Entries(L) /\ R \subseteq Entries(L)
      /\ \A x \in Entries(L) : o(x) \in Nat /\ o(x) < n
  BY <1>1 DEF Choices, UndoInv, WellFormed
<1>5. /\ \A m, k \in U : m < k => o(m) < o(k)
      /\ \A m, k \in R : m < k => o(k) < o(m)
  BY DEF UndoInv, InOrderOf
<1>6. /\ Originals(L, UNDO) = {o(x) : x \in U} /\ Originals(L, REDO) = {o(x) : x \in R}
      /\ Originals(A, UNDO) = {A.original[x] : x \in Choices(A, UNDO)}
      /\ Originals(A, REDO) = {A.original[x] : x \in Choices(A, REDO)}
  BY DEF Originals
<1>7. /\ p \in U /\ (\A m \in U : m <= p) => LargestOf(Originals(L, UNDO)) = o(p)
      /\ p \in R /\ (\A m \in R : m <= p) => SmallestOf(Originals(L, REDO)) = o(p)
  BY TopOfDone, TopOfUndone DEF Originals, LargestOf, SmallestOf, Stack!Largest, Stack!Smallest
<1> HIDE DEF U, R, o
<1>8. CASE type = DO
  <2>1. Choices(A, UNDO) = U \cup {n} /\ Choices(A, REDO) = {} /\ A.original[n] = n
    BY <1>1, <1>2, <1>3, <1>8 DEF DO, UNDO
  <2>2. Originals(A, REDO) = {} /\ \A x \in Originals(L, UNDO) : x < n
    BY <1>4, <1>6, <2>1
  <2>3. Originals(A, UNDO) = Originals(L, UNDO) \cup {n}
    BY <1>2, <1>4, <1>6, <2>1
  <2> QED BY <1>8, <2>2, <2>3 DEF DO, UNDO, REDO, Moved
<1>9. CASE type = UNDO
  <2>1. p \in U /\ (\A m \in U : m <= p) /\ p \in Nat
    BY <1>1, <1>4, <1>9 DEF U, DO, UNDO
  <2>2. Choices(A, UNDO) = U \ {p} /\ Choices(A, REDO) = R \cup {n} /\ A.original[n] = o(p)
    BY <1>1, <1>2, <1>3, <1>9 DEF DO, UNDO
  <2>3. \A m \in U : m # p => o(m) < o(p)
    <3> SUFFICES ASSUME NEW m \in U, m # p PROVE o(m) < o(p)
      OBVIOUS
    <3>1. m < p
      BY <1>1, <1>4, <2>1
    <3> QED BY <1>5, <2>1, <3>1
  <2>4. Originals(A, UNDO) = Originals(L, UNDO) \ {o(p)}
    <3>1. \A m \in U : m # p => o(m) # o(p)
      BY <1>4, <2>1, <2>3
    <3> QED BY <1>2, <1>4, <1>6, <2>1, <2>2, <3>1
  <2>5. Originals(A, REDO) = Originals(L, REDO) \cup {o(p)}
    BY <1>2, <1>4, <1>6, <2>2
  <2>6. Originals(L, UNDO) # {}
    BY <1>6, <2>1
  <2> QED BY <1>7, <1>9, <2>1, <2>4, <2>5, <2>6 DEF DO, UNDO, REDO, Moved
<1>10. CASE type = REDO
  <2>1. p \in R /\ (\A m \in R : m <= p) /\ p \in Nat
    BY <1>1, <1>4, <1>10 DEF R, DO, REDO
  <2>2. Choices(A, UNDO) = U \cup {n} /\ Choices(A, REDO) = R \ {p} /\ A.original[n] = o(p)
    BY <1>1, <1>2, <1>3, <1>10 DEF DO, UNDO, REDO
  <2>3. \A m \in R : m # p => o(p) < o(m)
    <3> SUFFICES ASSUME NEW m \in R, m # p PROVE o(p) < o(m)
      OBVIOUS
    <3>1. m < p
      BY <1>1, <1>4, <2>1
    <3> QED BY <1>5, <2>1, <3>1
  <2>4. Originals(A, REDO) = Originals(L, REDO) \ {o(p)}
    <3>1. \A m \in R : m # p => o(m) # o(p)
      BY <1>4, <2>1, <2>3
    <3> QED BY <1>2, <1>4, <1>6, <2>1, <2>2, <3>1
  <2>5. Originals(A, UNDO) = Originals(L, UNDO) \cup {o(p)}
    BY <1>2, <1>4, <1>6, <2>2
  <2>6. Originals(L, REDO) # {}
    BY <1>6, <2>1
  <2> QED BY <1>7, <1>10, <2>1, <2>4, <2>5, <2>6 DEF DO, UNDO, REDO, Moved
<1> QED BY <1>8, <1>9, <1>10 DEF RequestType

(* a removed request is forgotten by it,                                      *)
LEMMA OriginalsShortened ==
  ASSUME IInv, UndoInv(log), NEW n \in 0 .. MaxIndex, Remove(n), Shortened(log, log', n)
  PROVE  \/ Originals(log', UNDO) = {} /\ Originals(log', REDO) = {}
         \/ /\ Originals(log', REDO) = Originals(log, REDO)
            /\ \E S \in SUBSET Originals(log, UNDO) :
                 /\ \A x \in S, y \in Originals(log, UNDO) \ S : x < y
                 /\ Originals(log', UNDO) = Originals(log, UNDO) \ S
<1> DEFINE U == Choices(log, UNDO)
           R == Choices(log, REDO)
           o(x) == log.original[x]
<1>1. Choices(log', UNDO) = {m \in U : m >= n} /\ Choices(log', REDO) = {m \in R : m >= n}
  BY ShortenedUndoInv DEF REDO, UNDO
<1>2. /\ n \in Nat /\ log'.end = log.end /\ n <= log.end
      /\ Entries(log') = {x \in Entries(log) : x >= n}
      /\ \A x \in Entries(log') : log'.original[x] = o(x)
  BY DEF Shortened
<1>3. U \subseteq Entries(log) /\ R \subseteq Entries(log)
  BY DEF Choices
<1>4. /\ \A x \in Entries(log) : x \in Nat /\ x < log.end /\ o(x) \in Nat
      /\ log.end \in Nat
  <2>1. \A x \in Entries(log) : o(x) \in Entries(log)
    BY DEF UndoInv, WellFormed
  <2>2. \A x \in Entries(log) : x \in Nat /\ x < log.end
    BY MatchedEntries DEF UndoInv
  <2> QED BY <2>1, <2>2 DEF UndoInv, WellFormed
<1>5. \A m, k \in U : m < k => o(m) < o(k)
  BY DEF UndoInv, InOrderOf
<1>6. (\E m \in R : m < n) => n = log.end
  BY RedoRemovedLast
<1>7. /\ Originals(log, UNDO) = {o(x) : x \in U} /\ Originals(log, REDO) = {o(x) : x \in R}
      /\ Originals(log', UNDO) = {log'.original[x] : x \in Choices(log', UNDO)}
      /\ Originals(log', REDO) = {log'.original[x] : x \in Choices(log', REDO)}
  BY DEF Originals
<1> HIDE DEF U, R, o
<1>8. CASE \E m \in R : m < n
  <2>1. Choices(log', UNDO) = {} /\ Choices(log', REDO) = {}
    BY <1>1, <1>3, <1>4, <1>6, <1>8
  <2> QED BY <1>7, <2>1
<1>9. CASE ~\E m \in R : m < n
  <2>1. Choices(log', REDO) = R
    BY <1>1, <1>2, <1>3, <1>4, <1>9
  <2>2. Originals(log', REDO) = Originals(log, REDO)
    BY <1>2, <1>3, <1>4, <1>7, <1>9, <2>1
  <2> DEFINE S == {o(x) : x \in {m \in U : m < n}}
             T == {o(x) : x \in {m \in U : m >= n}}
  <2>3. Originals(log', UNDO) = T
    BY <1>1, <1>2, <1>3, <1>7
  <2>4. ASSUME NEW x \in S, NEW y \in T PROVE x < y
    <3>1. PICK m \in U : m < n /\ x = o(m)
      OBVIOUS
    <3>2. PICK k \in U : k >= n /\ y = o(k)
      OBVIOUS
    <3>3. m < k
      BY <1>2, <1>3, <1>4, <3>1, <3>2
    <3> QED BY <1>5, <3>1, <3>2, <3>3
  <2>5. S \subseteq Nat /\ T \subseteq Nat
    BY <1>3, <1>4
  <2>6. Originals(log, UNDO) = S \cup T
    BY <1>2, <1>3, <1>4, <1>7
  <2> HIDE DEF S, T
  <2>7. T = Originals(log, UNDO) \ S
    <3>1. ASSUME NEW x \in S, x \in T PROVE FALSE
      <4>1. x < x /\ x \in Nat
        BY <2>4, <2>5, <3>1
      <4> QED BY <4>1
    <3> QED BY <2>6, <3>1
  <2>8. S \in SUBSET Originals(log, UNDO) /\ \A x \in S, y \in Originals(log, UNDO) \ S : x < y
    BY <2>4, <2>6, <2>7
  <2> QED BY <2>2, <2>3, <2>7, <2>8
<1> QED BY <1>8, <1>9

(* and every other step leaves it alone.                                      *)
StacksAgree == Done = Originals(log, UNDO) /\ Undone = Originals(log, REDO)

LEMMA StackStep ==
  ASSUME IInv, UndoInv(log), StacksAgree, StacksAgree', [Next]_log
  PROVE  [Stack!StackNext]_<<Done, Undone>>
<1> DEFINE D == Originals(log, UNDO)
           U == Originals(log, REDO)
           E == Originals(log', UNDO)
           V == Originals(log', REDO)
<1>1. Done = D /\ Undone = U /\ Done' = E /\ Undone' = V
  BY DEF StacksAgree
<1>2. ASSUME NEW n \in Index, NEW type \in RequestType,
             Added(log, log', n, type, Associate(log, type))
      PROVE  Stack!StackNext
  <2> DEFINE p == Associate(log, type)
  <2>0. Added(log, log', n, type, p)
    BY <1>2
  <2> HIDE DEF p, D, U, E, V
  <2>1. /\ type = DO => /\ E = D \cup {n} /\ V = {}
                        /\ \A x \in D : x < n
        /\ type = UNDO => /\ D # {}
                          /\ E = D \ {Stack!Largest(D)} /\ V = U \cup {Stack!Largest(D)}
        /\ type = REDO => /\ U # {}
                          /\ E = D \cup {Stack!Smallest(U)} /\ V = U \ {Stack!Smallest(U)}
    <3>1. /\ Stack!Largest(D) = LargestOf(D)
          /\ Stack!Smallest(U) = SmallestOf(U)
      BY DEF Stack!Largest, Stack!Smallest, LargestOf, SmallestOf
    <3>2. Moved(D, U, E, V, n, type)
      BY <2>0, OriginalsAdded DEF D, U, E, V
    <3> QED BY <3>1, <3>2 DEF Moved
  <2>2. CASE type = DO
    <3>1. Stack!Do
      BY <1>1, <2>1, <2>2 DEF Stack!Do
    <3> QED BY <3>1 DEF Stack!StackNext
  <2>3. CASE type = UNDO
    <3>1. Stack!Undo
      BY <1>1, <2>1, <2>3 DEF Stack!Undo
    <3> QED BY <3>1 DEF Stack!StackNext
  <2>4. CASE type = REDO
    <3>1. Stack!Redo
      BY <1>1, <2>1, <2>4 DEF Stack!Redo
    <3> QED BY <3>1 DEF Stack!StackNext
  <2> QED BY <2>2, <2>3, <2>4 DEF RequestType
<1>3. ASSUME NEW n \in 0 .. MaxIndex, Entries(log) = {}, log' = NewLog(n)
      PROVE  Done' = Done /\ Undone' = Undone
  <2>1. n \in Nat
    BY MaxIndexAssumption
  <2>2. D = {} /\ U = {} /\ E = {} /\ V = {}
    <3>1. \A t : Choices(log, t) = {}
      BY <1>3 DEF Choices
    <3>2. \A t : Choices(log', t) = {}
      BY <1>3, <2>1, EmptyUndoInv
    <3> QED BY <3>1, <3>2 DEF Originals
  <2> QED BY <1>1, <2>2
<1>4. ASSUME NEW n \in 0 .. MaxIndex, Remove(n), Shortened(log, log', n)
      PROVE  Stack!StackNext
  <2>1. \/ E = {} /\ V = {}
        \/ /\ V = U
           /\ \E S \in SUBSET D : /\ \A x \in S, y \in D \ S : x < y
                                  /\ E = D \ S
    BY <1>4, OriginalsShortened
  <2> HIDE DEF D, U, E, V
  <2>2. Stack!Forget
    BY <1>1, <2>1 DEF Stack!Forget
  <2> QED BY <2>2 DEF Stack!StackNext
<1>5. ASSUME SameEntries(log, log') PROVE Done' = Done /\ Undone' = Undone
  <2>1. \A t : Choices(log', t) = Choices(log, t)
    BY <1>5, SameUndoInv
  <2>2. E = D /\ V = U
    BY <1>5, <2>1 DEF SameEntries, Originals
  <2> QED BY <1>1, <2>2
<1> QED BY <1>2, <1>3, <1>4, <1>5, Steps

(* The request log implements the undo stack: undo takes back the latest      *)
(* request that is not undone, redo brings back the one undone last.          *)
THEOREM UndoStackImplemented == Spec => ImplementsUndoStack
<1>1. IInv /\ UndoInv(log) => StacksAgree
  BY StacksOfChoices DEF StacksAgree, Originals
<1>2. IInv /\ UndoInv(log) /\ StacksAgree /\ StacksAgree' /\ [Next]_log
        => [Stack!StackNext]_<<Done, Undone>>
  BY StackStep
<1>3. Init => Stack!StackInit
  <2> SUFFICES ASSUME Init PROVE Stack!StackInit
    OBVIOUS
  <2>1. Entries(log) = {}
    BY EmptyLog, MaxIndexAssumption DEF Init
  <2> QED BY <2>1 DEF Stack!StackInit, Done, Undone, Open
<1> QED BY <1>1, <1>2, <1>3, Invariance, UndoInvariance, PTL
      DEF Spec, ImplementsUndoStack, Stack!StackSpec, Stack!stackVars

(* As long as an entry is kept, what it is and refers to does not change,     *)
(* what took it back stays, and its related set only grows.                   *)
StableIn(L, A, n) ==
  /\ A.request[n] = L.request[n] /\ A.original[n] = L.original[n] /\ A.prev[n] = L.prev[n]
  /\ L.next[n] # NULL => A.next[n] = L.next[n]
  /\ A.lower[n] <= L.lower[n] /\ A.upper[n] >= L.upper[n]

LEMMA AddStable ==
  ASSUME IInv, UndoInv(log), NEW n \in Index, NEW type \in RequestType, Add(n, type),
         NEW x \in Entries(log)
  PROVE  StableIn(log, log', x)
<1> DEFINE r == [type |-> type]
           p == Associate(log, type)
           l == NewLower(log, n, type)
           b == log'.begin
<1>1. /\ CanAddRequest(log, n, r) /\ log' = AddRequest(log, n, r) /\ r.type = type
      /\ DOMAIN log = Fields
  BY NewLogFields DEF Add, IInv, TypeOK
<1>2. Grown(log, log', n, r, type)
  <2> HIDE DEF r
  <2> QED BY <1>1, AddRequestGrows
<1>3. Added(log, log', n, type, p)
  BY AddAdds
<1>4. x \in b .. n /\ x \in Nat /\ x < n
  BY <1>3 DEF Added
<1>5. IF x < l THEN log.upper[x] < l ELSE log.lower[x] >= l
  BY <1>1, LowerOfNew
<1>6. /\ log.lower[x] \in Nat /\ log.upper[x] \in Nat
      /\ log.lower[x] <= x /\ x <= log.upper[x] /\ log.upper[x] < n
  <2>1. /\ log.lower[x] \in log.begin .. x /\ log.upper[x] \in x .. log.end - 1
        /\ log.begin \in Nat /\ log.end \in Nat /\ log.end = n
    BY <1>3, MaxIndexAssumption DEF IInv, RelatedDisjoint, TypeOK, Added
  <2> QED BY <1>4, <2>1
<1>7. l \in Int
  <2>1. /\ p = NULL => l = n
        /\ p # NULL => p \in Entries(log) /\ l \in log.begin .. p
    BY <1>1, LowerOfNew
  <2>2. log.begin \in Int /\ n \in Int
    BY <1>3 DEF Added, IInv, TypeOK
  <2> QED BY <2>1, <2>2
<1>8. p # NULL => log.next[p] = NULL
  BY <1>3, AddedFacts DEF Choices
<1>9. /\ log'.request = [y \in b .. n |-> IF y = n THEN r ELSE log.request[y]]
      /\ log'.original = [y \in b .. n |-> IF y = n THEN IF p = NULL THEN n ELSE log.original[p]
                                           ELSE log.original[y]]
      /\ log'.prev = [y \in b .. n |-> IF y = n THEN p ELSE log.prev[y]]
      /\ log'.next = [y \in b .. n |-> IF y = n THEN NULL ELSE IF y = p THEN n ELSE log.next[y]]
      /\ log'.lower = [y \in b .. n |-> IF y >= l THEN l ELSE log.lower[y]]
      /\ log'.upper = [y \in b .. n |-> IF y >= l THEN n ELSE log.upper[y]]
  BY <1>2 DEF Grown
<1> HIDE DEF r, p, l, b
<1>10. /\ log'.request[x] = log.request[x] /\ log'.original[x] = log.original[x]
       /\ log'.prev[x] = log.prev[x]
       /\ log'.next[x] = IF x = p THEN n ELSE log.next[x]
       /\ log'.lower[x] = IF x >= l THEN l ELSE log.lower[x]
       /\ log'.upper[x] = IF x >= l THEN n ELSE log.upper[x]
  BY <1>4, <1>9
<1>11. log'.lower[x] <= log.lower[x] /\ log'.upper[x] >= log.upper[x]
  <2> DEFINE lo == log.lower[x]
             up == log.upper[x]
  <2>1. lo \in Nat /\ up \in Nat /\ up < n /\ x \in Nat /\ n \in Nat
    BY <1>3, <1>4, <1>6 DEF Added
  <2>2. CASE x < l
    <3>1. log'.lower[x] = lo /\ log'.upper[x] = up
      BY <1>7, <1>10, <2>1, <2>2
    <3> QED BY <2>1, <3>1
  <2>3. CASE ~(x < l)
    <3>1. log'.lower[x] = l /\ log'.upper[x] = n /\ lo >= l
      BY <1>5, <1>7, <1>10, <2>1, <2>3
    <3> QED BY <1>7, <2>1, <3>1
  <2> QED BY <2>2, <2>3
<1>12. log.next[x] # NULL => log'.next[x] = log.next[x]
  BY <1>4, <1>8, <1>10 DEF NULL
<1> QED BY <1>10, <1>11, <1>12 DEF StableIn

(* inf_adopted_request_log_add_request and _remove_requests never change the   *)
(* history that a log holds.                                                  *)
THEOREM EntriesStayStable == Spec => EntriesStable
<1>1. ASSUME IInv, UndoInv(log), [Next]_log, NEW x \in Entries(log), x \in Entries(log')
      PROVE  StableIn(log, log', x)
  <2>0. log.lower[x] \in Int /\ log.upper[x] \in Int
    <3>1. log.begin \in Int /\ log.end \in Int /\ x \in Int
      BY <1>1 DEF IInv, TypeOK, Entries
    <3> QED BY <1>1, <3>1 DEF IInv, RelatedDisjoint
  <2>1. ASSUME NEW n \in Index, NEW type \in RequestType, Add(n, type)
        PROVE  StableIn(log, log', x)
    BY <1>1, <2>1, AddStable
  <2>2. ASSUME NEW n \in 0 .. MaxIndex, Remove(n)
        PROVE  StableIn(log, log', x)
    <3>1. DOMAIN log = Fields
      BY <1>1, NewLogFields DEF IInv, TypeOK
    <3>2. Trimmed(log, log', n)
      BY <2>2, <3>1, RemoveTrims DEF Remove
    <3>3. x \in n .. log.end - 1
      BY <1>1, <3>2 DEF Trimmed, Entries
    <3>4. /\ log'.request[x] = log.request[x] /\ log'.original[x] = log.original[x]
          /\ log'.next[x] = log.next[x] /\ log'.prev[x] = log.prev[x]
          /\ log'.lower[x] = log.lower[x] /\ log'.upper[x] = log.upper[x]
      BY <3>2, <3>3 DEF Trimmed, Kept
    <3> QED BY <2>0, <3>4 DEF StableIn
  <2>3. ASSUME SameEntries(log, log')
        PROVE  StableIn(log, log', x)
    BY <2>0, <2>3 DEF SameEntries, StableIn
  <2> QED BY <1>1, <2>1, <2>2, <2>3, Steps
<1>2. IInv /\ UndoInv(log) /\ [Next]_log =>
        [\A n \in Entries(log) \cap Entries(log)' :
           /\ log'.request[n] = log.request[n]
           /\ log'.original[n] = log.original[n]
           /\ log'.prev[n] = log.prev[n]
           /\ log.next[n] # NULL => log'.next[n] = log.next[n]
           /\ log'.lower[n] <= log.lower[n] /\ log'.upper[n] >= log.upper[n]]_log
  BY <1>1 DEF StableIn, Entries
<1> QED BY <1>2, Invariance, UndoInvariance, PTL DEF Spec, EntriesStable

(* Whatever is done, undone, redone and removed, the history of a user is     *)
(* kept.                                                                      *)
THEOREM HistoryStaysKept == Spec => HistoryKept
BY UndoStackImplemented, EntriesStayStable DEF HistoryKept

=============================================================================
