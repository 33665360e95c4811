--------------------------- MODULE ReadCheckSave ---------------------------
(***************************************************************************)
(* The shape of most handlers of the API: findOne reads a document outside *)
(* the transaction, or inside it without a lock, the handler tests its     *)
(* status and changes the copy, and save() writes the copy back.  save()   *)
(* is two statements: it loads the row again and then updates the columns  *)
(* in which the copy differs from what it loaded, so a copy that went      *)
(* stale undoes what others committed, a deletion included, and two saves  *)
(* can mix their columns: nothing compares or increments the version       *)
(* column.                                                                 *)
(*                                                                         *)
(* request is what each request under way read, is about to do and, once   *)
(* its save() has loaded the row, found there.  raced is kept for the      *)
(* properties only: the documents that changed while some other request    *)
(* held a copy of them.  inUse is a bound: a behaviour uses the documents  *)
(* of one set of Together, all of them if that is the set.                 *)
(***************************************************************************)
EXTENDS FiniteSets

CONSTANTS
  Requests,  \* the requests the API serves at the same time
  Documents, \* the rows that requests read and save
  Together,  \* bound: the sets of documents that one behaviour uses
  NoDocument \* what a request that is not under way holds

ASSUME DocumentsAssumption ==
  /\ IsFiniteSet(Requests)
  /\ IsFiniteSet(Documents)
  /\ NoDocument \notin Documents /\ Together \subseteq SUBSET Documents

VARIABLES request, raced, inUse

requestVars == <<request, raced, inUse>>

\* Those of the given documents that this behaviour uses.
Used(documents) == documents \cap inUse

Absent == [status |-> "absent"]  \* no row of that id yet

None == "none"  \* what a column that names no row holds

NotLoaded == <<>>

Idle == [op |-> "none", doc |-> NoDocument, copy |-> <<>>, loaded |-> NotLoaded]

\* Request r reads document d and passes the checks of operation op.
Take(r, op, d, copy) ==
  /\ request[r] = Idle
  /\ request' = [request EXCEPT ![r] = [op |-> op, doc |-> d, copy |-> copy, loaded |-> NotLoaded]]
  /\ UNCHANGED <<raced, inUse>>

Doing(r, op, d) == request[r].op = op /\ request[r].doc = d

\* What request r read.
Copy(r) == request[r].copy

\* What its save() found.
Loaded(r) == request[r].loaded

\* The first statement of save().
Load(r, row) ==
  /\ Loaded(r) = NotLoaded
  /\ request' = [request EXCEPT ![r].loaded = row]
  /\ UNCHANGED <<raced, inUse>>

\* What the transaction of request r does before its save() holds a row or a
\* series that a request with the same operation on the same document needs
\* before its own.
LoadLocked(r, row) ==
  /\ \A other \in Requests \ {r} :
       request[other].op = request[r].op /\ request[other].doc = request[r].doc =>
         request[other].loaded = NotLoaded
  /\ Load(r, row)

\* The next statement of request r is the second of save().
Saving(r, op, d) == Doing(r, op, d) /\ Loaded(r) # NotLoaded

\* What that statement makes of a row.
Updated(row, loaded, copy) ==
  [c \in DOMAIN row |-> IF copy[c] = loaded[c] THEN row[c] ELSE copy[c]]

Saved(r, row, copy) == Updated(row, Loaded(r), copy)

Overlapped(r) == \E other \in Requests \ {r} : request[other].doc = request[r].doc

\* The transaction of request r reads the document again.
Reread(r, op, copy) ==
  /\ request' = [request EXCEPT ![r] = [@ EXCEPT !.op = op, !.copy = copy]]
  /\ UNCHANGED <<raced, inUse>>

\* The transaction of request r commits.
Answer(r) ==
  /\ request' = [request EXCEPT ![r] = Idle]
  /\ raced' = IF Overlapped(r) THEN raced \cup {request[r].doc} ELSE raced
  /\ UNCHANGED inUse

\* The request is refused, a statement fails, or the server stops: the
\* transaction rolls back.
Rollback(r) ==
  /\ request[r] # Idle
  /\ request' = [request EXCEPT ![r] = Idle]
  /\ UNCHANGED <<raced, inUse>>

RequestInit ==
  /\ request = [r \in Requests |-> Idle]
  /\ raced = {}
  /\ inUse \in Together
=============================================================================
