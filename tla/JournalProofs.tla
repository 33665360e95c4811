--------------------------- MODULE JournalProofs ---------------------------
(***************************************************************************)
(* Proofs about Journal, for any months, any number of requests at a time  *)
(* and any number of entries.                                              *)
(*                                                                         *)
(* The numbers are gapless because the one posting that holds the series   *)
(* holds its current number; the marks of reversals match because an entry *)
(* only reverses an earlier one, and commits come in the order of numbers. *)
(***************************************************************************)
EXTENDS Journal, SequenceTheorems, TLAPS

\* Whoever holds the series holds its next number, and nobody else does.
SeriesIsHeld ==
  \A w \in Workers : In(w, "save") =>
    /\ worker[w].number = series
    /\ \A v \in Workers \ {w} : ~In(v, "save")

\* Entries, and the postings under way, reverse earlier entries only.
ReversesEarlier ==
  /\ \A n \in DOMAIN entries : entries[n].reverses < n /\ entries[n].reversedBy <= Len(entries)
  /\ \A w \in Workers : worker[w] \in Posting => worker[w].reverses <= Len(entries)

IInv == TypeOK /\ NumbersAreGapless /\ SeriesIsHeld /\ ReversesEarlier /\ ReversalsMatch

-----------------------------------------------------------------------------
(* Requests and their phases.                                              *)

\* The phases of a posting are those of no other request.
LEMMA PostingPhases ==
  ASSUME TypeOK, NEW w \in Workers,
         worker[w].phase \in {"period", "insert", "number", "save"}
  PROVE  worker[w] \in Posting
BY DEF TypeOK, Posting, Closing, Idle

-----------------------------------------------------------------------------
(* Steps that leave the tables alone.                                      *)

\* A request that begins, goes on, waits or ends disturbs nothing, as long as it
\* only takes the series when it is free.
LEMMA RequestStep ==
  ASSUME IInv, NEW w \in Workers, NEW state \in Posting \cup Closing \cup {Idle},
         SetWorker(w, state), UNCHANGED <<entries, series>>,
         period' \in [Months -> {"none", "open", "closed"}],
         state \in Posting => state.reverses <= Len(entries),
         state.phase = "save" => /\ state.number = series
                                 /\ \A v \in Workers : ~In(v, "save")
  PROVE  IInv'
<1>1. worker' = [worker EXCEPT ![w] = state]
  BY DEF SetWorker
<1>2. TypeOK'
  BY <1>1 DEF IInv, TypeOK
<1>3. NumbersAreGapless' /\ ReversalsMatch'
  BY DEF IInv, NumbersAreGapless, ReversalsMatch
<1>4. SeriesIsHeld'
  BY <1>1 DEF IInv, TypeOK, SeriesIsHeld, In
<1>5. ReversesEarlier'
  BY <1>1 DEF IInv, TypeOK, ReversesEarlier
<1> QED
  BY <1>2, <1>3, <1>4, <1>5 DEF IInv

\* A closing that starts, and a request that ends, are no postings.
LEMMA NotPosting ==
  ASSUME NEW m \in Months
  PROVE  /\ [phase |-> "close", month |-> m] \in Closing
         /\ [phase |-> "close", month |-> m] \notin Posting
         /\ [phase |-> "close", month |-> m].phase # "save"
         /\ Idle \notin Posting /\ Idle.phase # "save"
BY DEF Posting, Closing, Idle

\* A posting that begins with an entry of the past to reverse, or with none.
LEMMA BeginStep ==
  ASSUME IInv, NEW w \in Workers, NEW m \in Months, NEW n \in Nat, n <= Len(entries),
         Begin(w, m, n)
  PROVE  IInv'
<1> DEFINE state == [phase |-> "period", month |-> m, reverses |-> n,
                     inserted |-> FALSE, number |-> 0]
<1>1. state \in Posting /\ state.reverses = n /\ state.phase # "save"
  BY DEF Posting
<1>2. SetWorker(w, state) /\ UNCHANGED tables
  BY DEF Begin
<1>3. period' \in [Months -> {"none", "open", "closed"}] /\ UNCHANGED <<entries, series>>
  BY <1>2 DEF IInv, TypeOK, tables
<1> HIDE DEF state
<1> QED
  BY <1>1, <1>2, <1>3, RequestStep

-----------------------------------------------------------------------------
(* The commit of an entry.                                                 *)

\* A mark changes nothing else of an entry.
LEMMA MarkedEntry ==
  ASSUME NEW e \in Entry, NEW b \in Nat
  PROVE  /\ [e EXCEPT !.reversedBy = b] \in Entry
         /\ [e EXCEPT !.reversedBy = b].number = e.number
         /\ [e EXCEPT !.reversedBy = b].month = e.month
         /\ [e EXCEPT !.reversedBy = b].reverses = e.reverses
         /\ [e EXCEPT !.reversedBy = b].reversedBy = b
BY DEF Entry

\* The sequence of entries with the marks of a commit and its new entry.
LEMMA CommittedEntries ==
  ASSUME IInv, NEW w \in Workers, Commit(w)
  PROVE  /\ worker[w] \in Posting /\ worker[w].number = Len(entries) + 1
         /\ NewEntry(w) \in Entry
         /\ entries' \in Seq(Entry)
         /\ Len(entries') = Len(entries) + 1
         /\ entries'[Len(entries) + 1] = NewEntry(w)
         /\ \A n \in 1 .. Len(entries) :
              /\ entries'[n].number = entries[n].number
              /\ entries'[n].month = entries[n].month
              /\ entries'[n].reverses = entries[n].reverses
              /\ entries'[n].reversedBy =
                   IF n = worker[w].reverses THEN Len(entries) + 1 ELSE entries[n].reversedBy
<1>1. worker[w] \in Posting
  BY PostingPhases DEF IInv, Commit, In
<1>2. worker[w].number = Len(entries) + 1
  BY DEF IInv, SeriesIsHeld, NumbersAreGapless, Commit
<1>3. entries \in Seq(Entry) /\ DOMAIN entries = 1 .. Len(entries) /\ Len(entries) \in Nat
  BY LenProperties DEF IInv, TypeOK
<1>4. NewEntry(w) \in Entry
  BY <1>1, <1>2, <1>3 DEF NewEntry, Entry, Posting
<1>5. \A n \in 1 .. Len(entries) : entries[n] \in Entry
  BY <1>3, ElementOfSeq
<1>6. \A n \in 1 .. Len(entries) :
         /\ Marked(w)[n] \in Entry
         /\ Marked(w)[n].number = entries[n].number
         /\ Marked(w)[n].month = entries[n].month
         /\ Marked(w)[n].reverses = entries[n].reverses
         /\ Marked(w)[n].reversedBy =
              IF n = worker[w].reverses THEN Len(entries) + 1 ELSE entries[n].reversedBy
  <2> SUFFICES ASSUME NEW n \in 1 .. Len(entries)
               PROVE  /\ Marked(w)[n] \in Entry
                      /\ Marked(w)[n].number = entries[n].number
                      /\ Marked(w)[n].month = entries[n].month
                      /\ Marked(w)[n].reverses = entries[n].reverses
                      /\ Marked(w)[n].reversedBy =
                           IF n = worker[w].reverses THEN Len(entries) + 1
                           ELSE entries[n].reversedBy
    OBVIOUS
  <2>1. entries[n] \in Entry
    BY <1>5
  <2>2. Marked(w)[n] = IF n = worker[w].reverses
                       THEN [entries[n] EXCEPT !.reversedBy = Len(entries) + 1] ELSE entries[n]
    BY <1>2, <1>3 DEF Marked
  <2>3. CASE n = worker[w].reverses
    <3>1. Len(entries) + 1 \in Nat
      BY <1>3
    <3>2. Marked(w)[n] = [entries[n] EXCEPT !.reversedBy = Len(entries) + 1]
      BY <2>2, <2>3
    <3> DEFINE m == [entries[n] EXCEPT !.reversedBy = Len(entries) + 1]
    <3>3. /\ m \in Entry /\ m.number = entries[n].number /\ m.month = entries[n].month
          /\ m.reverses = entries[n].reverses /\ m.reversedBy = Len(entries) + 1
      BY <2>1, <3>1, MarkedEntry
    <3>4. Marked(w)[n] = m
      BY <3>2
    <3> HIDE DEF m
    <3> QED
      BY <2>3, <3>3, <3>4
  <2>4. CASE n # worker[w].reverses
    BY <2>1, <2>2, <2>4
  <2> QED
    BY <2>3, <2>4
<1>7. Marked(w) = [n \in 1 .. Len(entries) |-> Marked(w)[n]]
  BY <1>3 DEF Marked
<1>8. Marked(w) \in Seq(Entry) /\ Len(Marked(w)) = Len(entries)
  <2>1. Marked(w) \in [1 .. Len(entries) -> Entry]
    BY <1>6, <1>7
  <2> QED
    BY <1>3, <2>1, SeqDef, LenProperties
<1>9. entries' = Append(Marked(w), NewEntry(w))
  BY DEF Commit
<1>10. /\ entries' \in Seq(Entry)
       /\ Len(entries') = Len(entries) + 1
       /\ entries'[Len(entries) + 1] = NewEntry(w)
       /\ \A n \in 1 .. Len(entries) : entries'[n] = Marked(w)[n]
  BY <1>3, <1>4, <1>8, <1>9, AppendProperties
<1> QED
  BY <1>1, <1>2, <1>4, <1>6, <1>10

\* Commit keeps the invariant.
LEMMA CommitStep ==
  ASSUME IInv, NEW w \in Workers, Commit(w)
  PROVE  IInv'
<1> DEFINE k == Len(entries) + 1
<1>1. /\ worker[w] \in Posting /\ worker[w].number = k
      /\ NewEntry(w) \in Entry
      /\ entries' \in Seq(Entry)
      /\ Len(entries') = k
      /\ entries'[k] = NewEntry(w)
      /\ \A n \in 1 .. Len(entries) :
           /\ entries'[n].number = entries[n].number
           /\ entries'[n].month = entries[n].month
           /\ entries'[n].reverses = entries[n].reverses
           /\ entries'[n].reversedBy = IF n = worker[w].reverses THEN k ELSE entries[n].reversedBy
  BY CommittedEntries
<1>2. Len(entries) \in Nat /\ DOMAIN entries = 1 .. Len(entries) /\ entries \in Seq(Entry)
  BY LenProperties DEF IInv, TypeOK
<1>3. DOMAIN entries' = 1 .. k
  BY <1>1, LenProperties
<1>4. \A n \in 1 .. Len(entries) :
         /\ entries[n].reverses \in Nat /\ entries[n].reversedBy \in Nat
         /\ entries[n].reverses < n /\ entries[n].reversedBy <= Len(entries)
  <2>1. \A n \in 1 .. Len(entries) : entries[n] \in Entry
    BY <1>2, ElementOfSeq
  <2>2. \A n \in 1 .. Len(entries) : entries[n].reverses < n /\ entries[n].reversedBy <= Len(entries)
    BY <1>2 DEF IInv, ReversesEarlier
  <2> QED
    BY <2>1, <2>2 DEF Entry
<1>5. /\ worker[w].reverses \in Nat /\ worker[w].reverses <= Len(entries)
      /\ NewEntry(w).number = k /\ NewEntry(w).reversedBy = 0
      /\ NewEntry(w).reverses = worker[w].reverses
  BY <1>1 DEF IInv, ReversesEarlier, Posting, NewEntry
<1>6. /\ series' = k + 1
      /\ worker' = [worker EXCEPT ![w] = Idle]
      /\ period' \in [Months -> {"none", "open", "closed"}]
  BY <1>1 DEF Commit, SetWorker, IInv, TypeOK
<1>7. TypeOK'
  BY <1>1, <1>2, <1>6 DEF IInv, TypeOK
<1>8. NumbersAreGapless'
  BY <1>1, <1>2, <1>3, <1>5, <1>6 DEF IInv, NumbersAreGapless
<1>9. SeriesIsHeld'
  BY <1>6 DEF IInv, TypeOK, SeriesIsHeld, In, Idle, Commit
<1>10. ReversesEarlier'
  <2>1. ASSUME NEW n \in 1 .. k
        PROVE  entries'[n].reverses < n /\ entries'[n].reversedBy <= k
    <3>1. CASE n = k
      BY <1>1, <1>2, <1>5, <3>1
    <3>2. CASE n \in 1 .. Len(entries)
      BY <1>1, <1>2, <1>4, <3>2
    <3> QED
      BY <1>2, <3>1, <3>2
  <2>2. ASSUME NEW v \in Workers, worker'[v] \in Posting
        PROVE  worker'[v].reverses <= k
    <3>1. v # w /\ worker'[v] = worker[v]
      BY <1>6, <2>2 DEF IInv, TypeOK, Posting, Idle
    <3> QED
      BY <1>2, <2>2, <3>1 DEF IInv, ReversesEarlier, Posting
  <2> QED
    BY <1>1, <1>3, <2>1, <2>2 DEF ReversesEarlier
<1>11. ReversalsMatch'
  <2>1. ASSUME NEW n \in 1 .. k, NEW r \in 1 .. k, entries'[n].reverses = r
        PROVE  entries'[r].reversedBy >= n
    <3>1. CASE n = k
      BY <1>1, <1>2, <1>5, <2>1, <3>1
    <3>2. CASE n \in 1 .. Len(entries)
      <4>1. entries[n].reverses = r /\ r \in 1 .. Len(entries)
        BY <1>1, <1>2, <1>4, <2>1, <3>2
      <4>2. entries[r].reversedBy >= n
        BY <1>2, <3>2, <4>1 DEF IInv, ReversalsMatch
      <4> QED
        BY <1>1, <1>2, <3>2, <4>1, <4>2
    <3> QED
      BY <1>2, <3>1, <3>2
  <2>2. ASSUME NEW n \in 1 .. k, NEW r \in 1 .. k, entries'[n].reversedBy = r
        PROVE  entries'[r].reverses = n
    <3>1. n \in 1 .. Len(entries)
      BY <1>1, <1>2, <1>5, <2>2
    <3>2. CASE n = worker[w].reverses
      BY <1>1, <1>2, <1>5, <2>2, <3>1, <3>2
    <3>3. CASE n # worker[w].reverses
      <4>1. entries[n].reversedBy = r /\ r \in 1 .. Len(entries)
        BY <1>1, <1>2, <1>4, <2>2, <3>1, <3>3
      <4>2. entries[r].reverses = n
        BY <1>2, <3>1, <4>1 DEF IInv, ReversalsMatch
      <4> QED
        BY <1>1, <4>1, <4>2
    <3> QED
      BY <3>2, <3>3
  <2> QED
    BY <1>3, <2>1, <2>2 DEF ReversalsMatch
<1> QED
  BY <1>7, <1>8, <1>9, <1>10, <1>11 DEF IInv

-----------------------------------------------------------------------------
(* The theorems.                                                           *)

\* Every step of the ledger keeps the invariant.
LEMMA IInvIsInductive == IInv /\ [Next]_vars => IInv'
<1> SUFFICES ASSUME IInv, [Next]_vars PROVE IInv'
  OBVIOUS
<1>t. TypeOK /\ Len(entries) \in Nat /\ DOMAIN entries = 1 .. Len(entries)
  BY LenProperties DEF IInv, TypeOK
<1>e. UNCHANGED tables => /\ UNCHANGED <<entries, series>>
                          /\ period' \in [Months -> {"none", "open", "closed"}]
  BY <1>t DEF tables, TypeOK
<1>r. ASSUME NEW w \in Workers, Rollback(w) PROVE IInv'
  <2>1. SetWorker(w, Idle) /\ UNCHANGED tables
    BY <1>r DEF Rollback
  <2>2. Idle \notin Posting /\ Idle.phase # "save"
    BY DEF Posting, Idle
  <2> QED
    BY <1>e, <2>1, <2>2, RequestStep
<1>1. ASSUME NEW w \in Workers, NEW m \in Months, Post(w, m) PROVE IInv'
  BY <1>1, <1>t, BeginStep DEF Post
<1>2. ASSUME NEW w \in Workers, NEW m \in Months, NEW n \in DOMAIN entries,
             ReadToReverse(w, n, m) PROVE IInv'
  <2>1. n \in Nat /\ n <= Len(entries)
    BY <1>t
  <2> QED
    BY <1>2, <2>1, BeginStep DEF ReadToReverse
<1>3. ASSUME NEW w \in Workers, FindPeriod(w) PROVE IInv'
  <2>1. worker[w] \in Posting
    BY <1>3, <1>t, PostingPhases DEF FindPeriod, In
  <2>2. worker[w].reverses <= Len(entries)
    BY <2>1 DEF IInv, ReversesEarlier
  <2>3. PICK p \in {"insert", "number"} : SetWorker(w, [worker[w] EXCEPT !.phase = p])
    BY <1>3 DEF FindPeriod
  <2>4. /\ [worker[w] EXCEPT !.phase = p] \in Posting
        /\ [worker[w] EXCEPT !.phase = p].reverses = worker[w].reverses
        /\ [worker[w] EXCEPT !.phase = p].phase # "save"
    BY <2>1 DEF Posting
  <2>5. UNCHANGED tables
    BY <1>3 DEF FindPeriod
  <2> QED
    BY <1>e, <2>2, <2>3, <2>4, <2>5, RequestStep
<1>4. ASSUME NEW w \in Workers, InsertPeriod(w) PROVE IInv'
  <2> DEFINE state == [worker[w] EXCEPT !.phase = "number", !.inserted = TRUE]
  <2>1. worker[w] \in Posting
    BY <1>4, <1>t, PostingPhases DEF InsertPeriod, In
  <2>2. state \in Posting /\ state.reverses = worker[w].reverses /\ state.phase # "save"
    BY <2>1 DEF Posting
  <2>3. state.reverses <= Len(entries)
    BY <2>1, <2>2 DEF IInv, ReversesEarlier
  <2>4. SetWorker(w, state) /\ UNCHANGED tables
    BY <1>4 DEF InsertPeriod
  <2> HIDE DEF state
  <2> QED
    BY <1>e, <2>2, <2>3, <2>4, RequestStep
<1>5. ASSUME NEW w \in Workers, LockSeries(w) PROVE IInv'
  <2> DEFINE state == [worker[w] EXCEPT !.phase = "save", !.number = series]
  <2>1. worker[w] \in Posting
    BY <1>5, <1>t, PostingPhases DEF LockSeries, In
  <2>2. /\ state \in Posting /\ state.reverses = worker[w].reverses
        /\ state.number = series
    BY <1>t, <2>1 DEF Posting, TypeOK
  <2>3. state.reverses <= Len(entries)
    BY <2>1, <2>2 DEF IInv, ReversesEarlier
  <2>4. /\ SetWorker(w, state) /\ UNCHANGED tables
        /\ \A v \in Workers : ~In(v, "save")
    BY <1>5 DEF LockSeries
  <2> HIDE DEF state
  <2> QED
    BY <1>e, <2>2, <2>3, <2>4, RequestStep
<1>6. ASSUME NEW w \in Workers, NEW m \in Months, ReadToClose(w, m) PROVE IInv'
  <2> DEFINE state == [phase |-> "close", month |-> m]
  <2>1. SetWorker(w, state) /\ UNCHANGED tables
    BY <1>6 DEF ReadToClose
  <2>2. state \in Closing /\ state \notin Posting /\ state.phase # "save"
    BY NotPosting
  <2> HIDE DEF state
  <2> QED
    BY <1>e, <2>1, <2>2, RequestStep
<1>7. ASSUME NEW w \in Workers, Close(w) PROVE IInv'
  <2>1. period' \in [Months -> {"none", "open", "closed"}]
    BY <1>7, <1>t DEF Close, TypeOK
  <2>2. SetWorker(w, Idle) /\ UNCHANGED <<entries, series>>
    BY <1>7 DEF Close
  <2>3. Idle \notin Posting /\ Idle.phase # "save"
    BY DEF Posting, Idle
  <2> QED
    BY <2>1, <2>2, <2>3, RequestStep
<1>8. CASE UNCHANGED vars
  BY <1>8 DEF vars, IInv, TypeOK, NumbersAreGapless, SeriesIsHeld, In, ReversesEarlier,
              ReversalsMatch
<1>9. CASE Next
  <2>1. PICK w \in Workers :
          \/ \E m \in Months : Post(w, m)
          \/ \E m \in Months, n \in DOMAIN entries : ReadToReverse(w, n, m)
          \/ FindPeriod(w) \/ Refuse(w) \/ InsertPeriod(w) \/ RefuseDuplicate(w)
          \/ LockSeries(w) \/ Commit(w) \/ Fail(w)
          \/ \E m \in Months : ReadToClose(w, m)
          \/ Close(w)
    BY <1>9 DEF Next
  <2>2. Refuse(w) \/ RefuseDuplicate(w) \/ Fail(w) => Rollback(w)
    BY DEF Refuse, RefuseDuplicate, Fail
  <2> QED
    BY <1>r, <1>1, <1>2, <1>3, <1>4, <1>5, <1>6, <1>7, <2>1, <2>2, CommitStep
<1> QED
  BY <1>8, <1>9

\* The ledger starts empty and without postings.
LEMMA IInvAtInit == Init => IInv
<1> SUFFICES ASSUME Init PROVE IInv
  OBVIOUS
<1>1. entries \in Seq(Entry) /\ Len(entries) = 0 /\ DOMAIN entries = {}
  BY EmptySeq DEF Init
<1>2. TypeOK
  BY <1>1 DEF Init, TypeOK
<1>3. NumbersAreGapless /\ ReversalsMatch
  BY <1>1 DEF Init, NumbersAreGapless, ReversalsMatch
<1>4. SeriesIsHeld
  BY DEF Init, SeriesIsHeld, In, Idle
<1>5. ReversesEarlier
  BY <1>1 DEF Init, ReversesEarlier, Idle, Posting
<1> QED
  BY <1>2, <1>3, <1>4, <1>5 DEF IInv

\* The invariant holds in every reachable state.
LEMMA IInvHolds == Spec => []IInv
<1>1. Init => IInv
  BY IInvAtInit
<1>2. IInv /\ [Next]_vars => IInv'
  BY IInvIsInductive
<1> QED
  BY <1>1, <1>2, PTL DEF Spec

\* The tables and the requests keep their types (postJournalEntry, close).
THEOREM JournalTypeOK == Spec => []TypeOK
<1>1. IInv => TypeOK
  BY DEF IInv
<1> QED
  BY <1>1, IInvHolds, PTL

\* No interleaving of postings, reversals and failures repeats a number or
\* leaves one out (nextDocumentNumber).
THEOREM NumbersNeverSkip == Spec => []NumbersAreGapless
<1>1. IInv => NumbersAreGapless
  BY DEF IInv
<1> QED
  BY <1>1, IInvHolds, PTL

\* Overlapping reversals of an entry never leave a reversal whose entry is not
\* marked, or a mark that names another entry's reversal (reverse).
THEOREM ReversalsAlwaysMatch == Spec => []ReversalsMatch
<1>1. IInv => ReversalsMatch
  BY DEF IInv
<1> QED
  BY <1>1, IInvHolds, PTL

-----------------------------------------------------------------------------
(* Closed periods.  A period inserted by a posting stays missing for all   *)
(* others until it commits, so no commit can open a period again that was  *)
(* closed.                                                                 *)

Inserting(w) == worker[w].phase \in {"number", "save"} /\ worker[w].inserted

PeriodIsHeld ==
  \A w \in Workers :
    /\ Inserting(w) =>
         /\ period[worker[w].month] = "none"
         /\ \A v \in Workers \ {w} : Inserting(v) => worker[v].month # worker[w].month
    /\ worker[w].phase \in {"period", "insert"} => ~worker[w].inserted
    /\ In(w, "close") => period[worker[w].month] # "none"

\* A request that leaves the periods alone and inserts one only if it is missing.
LEMMA HeldStep ==
  ASSUME TypeOK, PeriodIsHeld, NEW w \in Workers, NEW state, SetWorker(w, state),
         UNCHANGED period,
         state.phase \in {"number", "save"} /\ state.inserted =>
           /\ period[state.month] = "none"
           /\ \A v \in Workers \ {w} : Inserting(v) => worker[v].month # state.month,
         state.phase \in {"period", "insert"} => ~state.inserted,
         state.phase = "close" => period[state.month] # "none"
  PROVE  PeriodIsHeld'
<1>1. \A v \in Workers : worker'[v] = IF v = w THEN state ELSE worker[v]
  BY DEF SetWorker, TypeOK
<1>2. ASSUME NEW v \in Workers
      PROVE  /\ Inserting(v)' =>
                  /\ period'[worker'[v].month] = "none"
                  /\ \A u \in Workers \ {v} : Inserting(u)' => worker'[u].month # worker'[v].month
             /\ worker'[v].phase \in {"period", "insert"} => ~worker'[v].inserted
             /\ In(v, "close")' => period'[worker'[v].month] # "none"
  BY <1>1 DEF PeriodIsHeld, Inserting, In
<1> QED
  BY <1>2 DEF PeriodIsHeld

\* What the steps of a posting do to the request.
LEMMA PostingSteps ==
  ASSUME TypeOK, NEW w \in Workers
  PROVE  /\ FindPeriod(w) => \E p \in {"insert", "number"} :
              /\ p = IF period[worker[w].month] = "open" THEN "number" ELSE "insert"
              /\ worker' = [worker EXCEPT ![w] = [worker[w] EXCEPT !.phase = p]]
              /\ [worker[w] EXCEPT !.phase = p].phase = p
              /\ [worker[w] EXCEPT !.phase = p].month = worker[w].month
              /\ [worker[w] EXCEPT !.phase = p].inserted = worker[w].inserted
         /\ InsertPeriod(w) => LET s == [worker[w] EXCEPT !.phase = "number", !.inserted = TRUE]
                               IN /\ worker' = [worker EXCEPT ![w] = s]
                                  /\ s.phase = "number" /\ s.month = worker[w].month
         /\ LockSeries(w) => LET s == [worker[w] EXCEPT !.phase = "save", !.number = series]
                             IN /\ worker' = [worker EXCEPT ![w] = s]
                                /\ s.phase = "save" /\ s.month = worker[w].month
                                /\ s.inserted = worker[w].inserted
<1>1. FindPeriod(w) \/ InsertPeriod(w) \/ LockSeries(w) => worker[w] \in Posting
  BY PostingPhases DEF FindPeriod, InsertPeriod, LockSeries, In
<1>2. FindPeriod(w) => \E p \in {"insert", "number"} :
        /\ p = IF period[worker[w].month] = "open" THEN "number" ELSE "insert"
        /\ worker' = [worker EXCEPT ![w] = [worker[w] EXCEPT !.phase = p]]
  BY DEF FindPeriod, SetWorker
<1>3. InsertPeriod(w) => worker' = [worker EXCEPT ![w] =
                                     [worker[w] EXCEPT !.phase = "number", !.inserted = TRUE]]
  BY DEF InsertPeriod, SetWorker
<1>4. LockSeries(w) => worker' = [worker EXCEPT ![w] =
                                   [worker[w] EXCEPT !.phase = "save", !.number = series]]
  BY DEF LockSeries, SetWorker
<1> QED
  BY <1>1, <1>2, <1>3, <1>4 DEF Posting

\* Every step keeps inserted periods missing for the others.
LEMMA PeriodIsHeldStep == TypeOK /\ PeriodIsHeld /\ [Next]_vars => PeriodIsHeld'
<1> SUFFICES ASSUME TypeOK, PeriodIsHeld, [Next]_vars PROVE PeriodIsHeld'
  OBVIOUS
<1>r. ASSUME NEW w \in Workers, Rollback(w) PROVE PeriodIsHeld'
  BY <1>r, HeldStep DEF Rollback, Idle, tables
<1>1. ASSUME NEW w \in Workers, NEW m \in Months, NEW n, Begin(w, m, n) PROVE PeriodIsHeld'
  BY <1>1, HeldStep DEF Begin, tables
<1>2. ASSUME NEW w \in Workers, FindPeriod(w) PROVE PeriodIsHeld'
  <2>1. PICK p \in {"insert", "number"} :
          /\ worker' = [worker EXCEPT ![w] = [worker[w] EXCEPT !.phase = p]]
          /\ [worker[w] EXCEPT !.phase = p].phase = p
          /\ [worker[w] EXCEPT !.phase = p].inserted = worker[w].inserted
    BY <1>2, PostingSteps
  <2>2. ~worker[w].inserted
    BY <1>2 DEF FindPeriod, PeriodIsHeld, In
  <2> DEFINE s == [worker[w] EXCEPT !.phase = p]
  <2>3. SetWorker(w, s) /\ ~s.inserted /\ s.phase # "close" /\ UNCHANGED period
    BY <1>2, <2>1, <2>2 DEF SetWorker, FindPeriod, tables
  <2> HIDE DEF s
  <2> QED
    BY <2>3, HeldStep
<1>3. ASSUME NEW w \in Workers, InsertPeriod(w) PROVE PeriodIsHeld'
  <2> DEFINE s == [worker[w] EXCEPT !.phase = "number", !.inserted = TRUE]
  <2>1. SetWorker(w, s) /\ s.phase = "number" /\ s.month = worker[w].month /\ UNCHANGED period
    BY <1>3, PostingSteps DEF SetWorker, InsertPeriod, tables
  <2>2. /\ period[s.month] = "none"
        /\ \A v \in Workers \ {w} : Inserting(v) => worker[v].month # s.month
    BY <1>3, <2>1 DEF InsertPeriod, InsertedElsewhere, Inserting, In
  <2> HIDE DEF s
  <2> QED
    BY <2>1, <2>2, HeldStep
<1>4. ASSUME NEW w \in Workers, LockSeries(w) PROVE PeriodIsHeld'
  <2> DEFINE s == [worker[w] EXCEPT !.phase = "save", !.number = series]
  <2>1. /\ SetWorker(w, s) /\ UNCHANGED period
        /\ s.phase = "save" /\ s.month = worker[w].month /\ s.inserted = worker[w].inserted
    BY <1>4, PostingSteps DEF SetWorker, LockSeries, tables
  <2>2. In(w, "number")
    BY <1>4 DEF LockSeries
  <2> HIDE DEF s
  <2>3. s.inserted => /\ period[s.month] = "none"
                      /\ \A v \in Workers \ {w} : Inserting(v) => worker[v].month # s.month
    BY <2>1, <2>2 DEF PeriodIsHeld, Inserting, In
  <2> QED
    BY <2>1, <2>3, HeldStep
<1>5. ASSUME NEW w \in Workers, Commit(w) PROVE PeriodIsHeld'
  <2>1. /\ worker[w] \in Posting /\ worker[w].phase = "save"
        /\ \A v \in Workers : worker'[v] = IF v = w THEN Idle ELSE worker[v]
        /\ \A m \in Months : period'[m] = IF m = worker[w].month /\ worker[w].inserted
                                          THEN "open" ELSE period[m]
    BY <1>5, PostingPhases DEF Commit, SetWorker, In, TypeOK
  <2>2. \A v \in Workers : worker[v] # Idle => worker[v].month \in Months
    BY DEF TypeOK, Posting, Closing
  <2>3. \A v \in Workers : worker'[v].phase # "idle" => v # w /\ worker'[v].month \in Months
    BY <2>1, <2>2 DEF Idle
  <2> QED
    BY <2>1, <2>3 DEF PeriodIsHeld, Inserting, In, Idle
<1>6. ASSUME NEW w \in Workers, NEW m \in Months, ReadToClose(w, m) PROVE PeriodIsHeld'
  BY <1>6, HeldStep DEF ReadToClose, tables
<1>7. ASSUME NEW w \in Workers, Close(w) PROVE PeriodIsHeld'
  <2>1. /\ worker[w].phase = "close" /\ period[worker[w].month] # "none"
        /\ \A v \in Workers : worker'[v] = IF v = w THEN Idle ELSE worker[v]
        /\ \A m \in Months : period'[m] = IF m = worker[w].month THEN "closed" ELSE period[m]
    BY <1>7 DEF Close, SetWorker, In, TypeOK, PeriodIsHeld
  <2>2. \A v \in Workers : worker[v] # Idle => worker[v].month \in Months
    BY DEF TypeOK, Posting, Closing
  <2>3. \A v \in Workers : worker'[v].phase # "idle" => v # w /\ worker'[v].month \in Months
    BY <2>1, <2>2 DEF Idle
  <2> QED
    BY <2>1, <2>3 DEF PeriodIsHeld, Inserting, In, Idle
<1>8. CASE UNCHANGED vars
  BY <1>8 DEF vars, PeriodIsHeld, Inserting, In
<1>9. CASE Next
  <2>1. PICK w \in Workers :
          \/ \E m \in Months : \E n : Begin(w, m, n)
          \/ Rollback(w) \/ FindPeriod(w) \/ InsertPeriod(w) \/ LockSeries(w) \/ Commit(w)
          \/ \E m \in Months : ReadToClose(w, m)
          \/ Close(w)
    BY <1>9 DEF Next, Post, ReadToReverse, Refuse, RefuseDuplicate, Fail
  <2> QED
    BY <1>r, <1>1, <1>2, <1>3, <1>4, <1>5, <1>6, <1>7, <2>1
<1> QED
  BY <1>8, <1>9

\* What ClosedMonthsDrain says of one closed month.
Drains(m) ==
  /\ period'[m] = "closed"
  /\ Admitted(m)' \subseteq Admitted(m)
  /\ EntriesOf(m)' # EntriesOf(m) => Admitted(m)' # Admitted(m)

\* A step that adds no entry to a closed month admits nobody to it.
LEMMA NobodyAdmitted ==
  ASSUME TypeOK, NEW w \in Workers, NEW state, NEW m \in Months, SetWorker(w, state),
         period'[m] = "closed", UNCHANGED entries,
         state.phase \in {"insert", "number", "save"} /\ state.month = m => w \in Admitted(m)
  PROVE  Drains(m)
<1>1. \A v \in Workers : worker'[v] = IF v = w THEN state ELSE worker[v]
  BY DEF SetWorker, TypeOK
<1> QED
  BY <1>1 DEF Drains, Admitted, EntriesOf

\* A commit into a closed month is of a posting that was admitted, and leaves.
LEMMA CommitDrains ==
  ASSUME IInv, PeriodIsHeld, NEW w \in Workers, NEW m \in Months, Commit(w), period[m] = "closed"
  PROVE  Drains(m)
<1>1. /\ worker[w].phase = "save"
      /\ \A v \in Workers : worker'[v] = IF v = w THEN Idle ELSE worker[v]
      /\ period' = [period EXCEPT ![worker[w].month] = IF worker[w].inserted THEN "open" ELSE @]
  BY DEF Commit, SetWorker, In, IInv, TypeOK
<1>2. worker[w].inserted => worker[w].month # m
  BY <1>1 DEF PeriodIsHeld, Inserting
<1>3. period'[m] = "closed"
  BY <1>1, <1>2 DEF IInv, TypeOK
<1>4. Admitted(m)' \subseteq Admitted(m)
  BY <1>1 DEF Admitted, Idle
<1>5. CASE worker[w].month = m
  BY <1>1, <1>3, <1>4, <1>5 DEF Drains, Admitted, Idle
<1>6. CASE worker[w].month # m
  <2>1. /\ entries \in Seq(Entry) /\ entries' \in Seq(Entry)
        /\ Len(entries) \in Nat /\ Len(entries') = Len(entries) + 1
        /\ DOMAIN entries = 1 .. Len(entries) /\ DOMAIN entries' = 1 .. Len(entries) + 1
    BY CommittedEntries, LenProperties DEF IInv, TypeOK
  <2>2. /\ \A n \in 1 .. Len(entries) : entries'[n].month = entries[n].month
        /\ entries'[Len(entries) + 1].month # m
    <3>1. /\ \A n \in 1 .. Len(entries) : entries'[n].month = entries[n].month
          /\ entries'[Len(entries) + 1] = NewEntry(w)
      BY CommittedEntries
    <3>2. NewEntry(w).month = worker[w].month
      BY DEF NewEntry
    <3> QED
      BY <1>6, <3>1, <3>2
  <2>3. EntriesOf(m)' = EntriesOf(m)
    BY <2>1, <2>2 DEF EntriesOf
  <2> QED
    BY <1>3, <1>4, <2>3 DEF Drains
<1> QED
  BY <1>5, <1>6

\* Once a period is closed no posting is admitted to it any more, and every entry
\* it still gains is of a posting that had found it open (resolvePeriod).
THEOREM ClosedPeriodsOnlyDrain == Spec => ClosedMonthsDrain
<1>1. ASSUME IInv, PeriodIsHeld, [Next]_vars, NEW m \in Months, period[m] = "closed"
      PROVE  Drains(m)
  <2>t. TypeOK
    BY <1>1 DEF IInv
  <2>r. ASSUME NEW w \in Workers, Rollback(w) PROVE Drains(m)
    BY <1>1, <2>t, <2>r, NobodyAdmitted DEF Rollback, Idle, tables
  <2>1. ASSUME NEW w \in Workers, NEW k \in Months, NEW n, Begin(w, k, n) PROVE Drains(m)
    BY <1>1, <2>t, <2>1, NobodyAdmitted DEF Begin, tables
  <2>2. ASSUME NEW w \in Workers, FindPeriod(w) PROVE Drains(m)
    <3>1. PICK p \in {"insert", "number"} :
            /\ worker' = [worker EXCEPT ![w] = [worker[w] EXCEPT !.phase = p]]
            /\ [worker[w] EXCEPT !.phase = p].month = worker[w].month
      BY <2>2, <2>t, PostingSteps
    <3> DEFINE s == [worker[w] EXCEPT !.phase = p]
    <3>2. SetWorker(w, s) /\ s.month # m /\ UNCHANGED <<period, entries>>
      BY <1>1, <2>2, <3>1 DEF SetWorker, FindPeriod, tables
    <3> HIDE DEF s
    <3> QED
      BY <1>1, <2>t, <3>2, NobodyAdmitted
  <2>3. ASSUME NEW w \in Workers, InsertPeriod(w) PROVE Drains(m)
    <3> DEFINE s == [worker[w] EXCEPT !.phase = "number", !.inserted = TRUE]
    <3>1. SetWorker(w, s) /\ s.month # m /\ UNCHANGED <<period, entries>>
      BY <1>1, <2>3, <2>t, PostingSteps DEF SetWorker, InsertPeriod, tables
    <3> HIDE DEF s
    <3> QED
      BY <1>1, <2>t, <3>1, NobodyAdmitted
  <2>4. ASSUME NEW w \in Workers, LockSeries(w) PROVE Drains(m)
    <3> DEFINE s == [worker[w] EXCEPT !.phase = "save", !.number = series]
    <3>1. SetWorker(w, s) /\ s.month = worker[w].month /\ UNCHANGED <<period, entries>>
      BY <2>4, <2>t, PostingSteps DEF SetWorker, LockSeries, tables
    <3>2. worker[w].month = m => w \in Admitted(m)
      BY <2>4 DEF LockSeries, Admitted, In
    <3> HIDE DEF s
    <3> QED
      BY <1>1, <2>t, <3>1, <3>2, NobodyAdmitted
  <2>5. ASSUME NEW w \in Workers, NEW k \in Months, ReadToClose(w, k) PROVE Drains(m)
    BY <1>1, <2>t, <2>5, NobodyAdmitted DEF ReadToClose, tables
  <2>6. ASSUME NEW w \in Workers, Close(w) PROVE Drains(m)
    <3>1. period'[m] = "closed"
      BY <1>1, <2>t, <2>6 DEF Close, TypeOK
    <3>2. SetWorker(w, Idle) /\ UNCHANGED entries
      BY <2>6 DEF Close
    <3>3. Idle.phase \notin {"insert", "number", "save"}
      BY DEF Idle
    <3> QED
      BY <2>t, <3>1, <3>2, <3>3, NobodyAdmitted
  <2>c. ASSUME NEW w \in Workers, Commit(w) PROVE Drains(m)
    BY <1>1, <2>c, CommitDrains
  <2>7. CASE UNCHANGED vars
    BY <1>1, <2>7 DEF vars, Drains, Admitted, EntriesOf
  <2>8. CASE Next
    <3>1. PICK w \in Workers :
            \/ \E k \in Months : \E n : Begin(w, k, n)
            \/ Rollback(w) \/ FindPeriod(w) \/ InsertPeriod(w) \/ LockSeries(w) \/ Commit(w)
            \/ \E k \in Months : ReadToClose(w, k)
            \/ Close(w)
      BY <2>8 DEF Next, Post, ReadToReverse, Refuse, RefuseDuplicate, Fail
    <3> QED
      BY <1>1, <2>r, <2>1, <2>2, <2>3, <2>4, <2>5, <2>6, <2>c, <3>1
  <2> QED
    BY <1>1, <2>7, <2>8
<1>2. Init => PeriodIsHeld
  BY DEF Init, PeriodIsHeld, Inserting, In, Idle
<1>3. IInv => TypeOK
  BY DEF IInv
<1>4. IInv /\ PeriodIsHeld /\ [Next]_vars =>
        [\A m \in Months : period[m] = "closed" => Drains(m)]_vars
  BY <1>1
<1> QED
  BY <1>2, <1>3, <1>4, IInvHolds, PeriodIsHeldStep, PTL DEF Spec, ClosedMonthsDrain, Drains
=============================================================================
