-------------------------- MODULE MemoryLifecycleProofs --------------------------
(***************************************************************************)
(* Theorems about MemoryLifecycle for every number of sessions, runs,       *)
(* texts, rows and versions, and every limit of episodes.                   *)
(*                                                                         *)
(* RowOK is what every single row keeps.  What the steps do to a row is     *)
(* one of five changes, each a lemma: it retires, is purged, gets a new     *)
(* version, gets a candidate record, or expires.  RowStep collects what     *)
(* they have in common, and the theorems about steps follow from it.  The   *)
(* theorems about episodes rest on what maintenance leaves, for which the   *)
(* lemmas about the largest and the smallest of a finite set are needed.    *)
(***************************************************************************)
EXTENDS MemoryLifecycle, FiniteSetTheorems, TLAPS

(***************************************************************************)
(* The invariant                                                            *)
(***************************************************************************)
\* Until it is purged a row has an open revision of its version, and its text.
Whole(m) ==
  /\ Len(m.revs) = m.version
  /\ \A k \in DOMAIN m.revs : m.revs[k].open <=> k = m.version
  /\ m.revs[m.version].content = m.content

PurgedRow(m) ==
  /\ m.status = "retired" /\ m.key.type # "fact"
  /\ m.content = Purged /\ m.revs = <<>>
  /\ m.key.of # "input" => m.payloads = 0

RowOK(m) ==
  /\ ~m.cleaned => Whole(m)
  /\ m.cleaned => PurgedRow(m)
  /\ m.source = "agent_runtime" =>
       m.expires = "never" /\ m.key.type = "episodic" /\ m.scope = "task"

RowsOK(rows) == rows \in Seq(Row) /\ \A i \in DOMAIN rows : RowOK(rows[i])

\* A row to purge is retired and no fact.  Of its candidate records the purge has seen as
\* many as it had, and all that there are unless they are user input; or another purge
\* was faster.
MayPurge(m, seen) ==
  /\ m.status = "retired" /\ m.key.type # "fact"
  /\ ~m.cleaned => /\ seen <= m.payloads
                   /\ m.key.of # "input" => seen = m.payloads

\* A session that ends a run names it, and one that ends without an answer retires working
\* memories.
PlanOK(s) ==
  /\ \A i \in local[s].clean : i \in DOMAIN mem /\ MayPurge(mem[i], local[s].seen[i])
  /\ local[s].op \in {"run_end", "completion"} => local[s].run \in Runs
  /\ local[s].op = "run_end" =>
       \A i \in local[s].retire : i \in DOMAIN mem /\ mem[i].key.type = "working"

MemInv ==
  /\ RowsOK(mem) /\ Len(mem) <= MaxMemories
  /\ run \in [Runs -> {"running", "over"}]
  /\ local \in [Sessions -> Local]
  /\ \A s \in Sessions : PlanOK(s)

(***************************************************************************)
(* One row                                                                  *)
(***************************************************************************)
SameText(m, n) ==
  n.content = m.content /\ n.version = m.version /\ n.source = m.source

\* Candidate records are added to facts and to user input only.
KeepsRecords(m, n) ==
  /\ m.payloads <= n.payloads
  /\ m.key.type # "fact" /\ m.key.of # "input" => n.payloads = m.payloads

\* What any step does to a row that is there.
RowStep(m, n) ==
  /\ n.key = m.key /\ n.scope = m.scope
  /\ m.cleaned => n = m
  /\ m.status = "retired" => n.cleaned \/ KeepsRecords(m, n)
  /\ m.status = "retired" =>
       /\ n.status = "retired" /\ n.version = m.version
       /\ n.content \in {m.content, Purged}
  /\ IsEpisode(n) => IsEpisode(m) /\ n.content = m.content

LEMMA RowFields ==
  ASSUME NEW m \in Row
  PROVE  /\ m.key \in Key /\ m.source \in {"user", "agent_runtime", "tool", "user_input"}
         /\ m.scope \in {"contract", "task", "run"} /\ m.run \in Runs \cup {None}
         /\ m.content \in Contents \cup {Purged} /\ m.status \in {"active", "retired"}
         /\ m.expires \in {"never", "later", "passed"} /\ m.cleaned \in BOOLEAN
         /\ m.version \in 1..MaxVersion /\ m.revs \in Seq(Revision)
         /\ m.payloads \in Nat
BY DEF Row

LEMMA RowUnchanged ==
  ASSUME NEW m \in Row
  PROVE  RowStep(m, m)
BY RowFields DEF RowStep, KeepsRecords

LEMMA RetireRow ==
  ASSUME NEW m \in Row, RowOK(m), NEW n, n = [m EXCEPT !.status = "retired"]
  PROVE  /\ n \in Row /\ RowOK(n) /\ RowStep(m, n) /\ SameText(m, n)
         /\ n.payloads = m.payloads /\ n.cleaned = m.cleaned
<1>1. n \in Row
  BY DEF Row
<1>2. /\ n.key = m.key /\ n.source = m.source /\ n.scope = m.scope /\ n.content = m.content
      /\ n.status = "retired" /\ n.expires = m.expires /\ n.cleaned = m.cleaned
      /\ n.version = m.version /\ n.revs = m.revs /\ n.payloads = m.payloads
  BY DEF Row
<1>3. RowOK(n)
  BY <1>2 DEF RowOK, Whole, PurgedRow
<1>4. m.cleaned => n = m
  BY DEF RowOK, PurgedRow, Row
<1>5. RowStep(m, n) /\ SameText(m, n)
  BY <1>2, <1>4, RowFields DEF RowStep, KeepsRecords, SameText, IsEpisode
<1> QED BY <1>1, <1>2, <1>3, <1>5

LEMMA ExpireRow ==
  ASSUME NEW m \in Row, RowOK(m), m.expires = "later", m.status = "active",
         NEW n, n = [m EXCEPT !.expires = "passed"]
  PROVE  n \in Row /\ RowOK(n) /\ RowStep(m, n) /\ SameText(m, n) /\ n.status = m.status
<1>1. n \in Row
  BY DEF Row
<1>2. /\ n.key = m.key /\ n.source = m.source /\ n.scope = m.scope /\ n.content = m.content
      /\ n.status = m.status /\ n.cleaned = m.cleaned
      /\ n.version = m.version /\ n.revs = m.revs /\ n.payloads = m.payloads
  BY DEF Row
<1>3. m.source # "agent_runtime"
  BY DEF RowOK
<1>4. RowOK(n)
  BY <1>2, <1>3 DEF RowOK, Whole, PurgedRow
<1>5. RowStep(m, n) /\ SameText(m, n)
  BY <1>2 DEF RowOK, PurgedRow, RowStep, SameText, IsEpisode
<1> QED BY <1>1, <1>2, <1>4, <1>5

LEMMA PayloadRow ==
  ASSUME NEW m \in Row, RowOK(m), NEW text \in Contents, m.content = text,
         m.key.type = "fact" \/ m.key.of = "input",
         NEW n, n = [m EXCEPT !.payloads = @ + 1]
  PROVE  n \in Row /\ RowOK(n) /\ RowStep(m, n) /\ SameText(m, n) /\ n.status = m.status
<1>1. n \in Row
  BY DEF Row
<1>2. /\ n.key = m.key /\ n.source = m.source /\ n.scope = m.scope /\ n.content = m.content
      /\ n.status = m.status /\ n.expires = m.expires /\ n.cleaned = m.cleaned
      /\ n.version = m.version /\ n.revs = m.revs /\ n.payloads = m.payloads + 1
  BY DEF Row
<1>3. ~m.cleaned
  BY ConstantsAssumption DEF RowOK, PurgedRow, Row
<1>4. RowOK(n)
  BY <1>2, <1>3 DEF RowOK, Whole
<1>5. RowStep(m, n) /\ SameText(m, n)
  BY <1>2, <1>3, RowFields DEF RowStep, KeepsRecords, SameText, IsEpisode
<1> QED BY <1>1, <1>2, <1>4, <1>5

LEMMA PurgeRow ==
  ASSUME NEW m \in Row, RowOK(m), NEW seen \in Nat, ~m.cleaned, MayPurge(m, seen)
  PROVE  LET n == PurgeOne(m, seen)
         IN  n \in Row /\ RowOK(n) /\ RowStep(m, n) /\ n.status = "retired"
<1> DEFINE n == PurgeOne(m, seen)
<1>1. m.payloads \in Nat /\ m.payloads - seen \in Nat
  BY RowFields DEF MayPurge
<1>2. n = [m EXCEPT !.content = Purged, !.revs = <<>>, !.cleaned = TRUE,
                    !.payloads = m.payloads - seen]
  BY DEF PurgeOne
<1>3. n \in Row
  <2>1. <<>> \in Seq(Revision)
    OBVIOUS
  <2> HIDE DEF n
  <2> QED BY <1>1, <1>2, <2>1 DEF Row
<1>4. /\ n.key = m.key /\ n.source = m.source /\ n.scope = m.scope /\ n.content = Purged
      /\ n.status = m.status /\ n.expires = m.expires /\ n.cleaned = TRUE
      /\ n.version = m.version /\ n.revs = <<>> /\ n.payloads = m.payloads - seen
  BY <1>2 DEF Row
<1>5. n.key.of # "input" => n.payloads = 0
  BY <1>1, <1>4 DEF MayPurge
<1>6. RowOK(n)
  BY <1>4, <1>5 DEF RowOK, PurgedRow, MayPurge
<1>7. RowStep(m, n)
  BY <1>4 DEF RowStep, IsEpisode, MayPurge
<1> QED BY <1>3, <1>4, <1>6, <1>7 DEF MayPurge

LEMMA ActiveRow ==
  ASSUME NEW m \in Row, RowOK(m), m.status = "active"
  PROVE  ~m.cleaned /\ Whole(m) /\ m.content \in Contents
<1>1. ~m.cleaned /\ Whole(m)
  BY DEF RowOK, PurgedRow, Row
<1>2. m.revs \in Seq(Revision) /\ m.version \in 1..Len(m.revs)
  BY <1>1 DEF Row, Whole
<1>3. m.revs[m.version] \in Revision
  BY <1>2
<1> QED BY <1>1, <1>3 DEF Whole, Revision

LEMMA SupersedeRow ==
  ASSUME NEW m \in Row, RowOK(m), NEW text \in Contents, m.version < MaxVersion,
         m.status = "active", m.scope = "task"
  PROVE  LET n == Supersede(m, text)
         IN  /\ n \in Row /\ RowOK(n) /\ RowStep(m, n)
             /\ n.content = text /\ n.source = "tool" /\ n.version = m.version + 1
             /\ n.status = "active"
<1> DEFINE n == Supersede(m, text)
           closed == [m.revs EXCEPT ![m.version].open = FALSE]
           opened == [content |-> text, open |-> TRUE]
<1>1. ~m.cleaned /\ Whole(m)
  BY ActiveRow
<1>2. m.revs \in Seq(Revision) /\ m.version \in 1..Len(m.revs) /\ Len(m.revs) = m.version
  BY <1>1 DEF Row, Whole
<1>3. opened \in Revision /\ opened.open = TRUE /\ opened.content = text
  BY DEF Revision
<1>4. /\ closed \in Seq(Revision) /\ Len(closed) = m.version
      /\ DOMAIN closed = 1..m.version
      /\ \A k \in 1..m.version : k # m.version => closed[k] = m.revs[k]
      /\ closed[m.version].open = FALSE
  <2>1. m.revs[m.version] \in Revision
    BY <1>2
  <2>2. [m.revs[m.version] EXCEPT !.open = FALSE] \in Revision
    BY <2>1 DEF Revision
  <2>3. [m.revs[m.version] EXCEPT !.open = FALSE].open = FALSE
    BY <2>1 DEF Revision
  <2> QED BY <1>2, <2>2, <2>3
<1>5. n = [m EXCEPT !.version = m.version + 1, !.content = text, !.source = "tool",
                    !.payloads = m.payloads + 1, !.revs = Append(closed, opened)]
  BY DEF Supersede
<1> HIDE DEF closed, opened
<1>6. /\ Append(closed, opened) \in Seq(Revision)
      /\ Len(Append(closed, opened)) = m.version + 1
      /\ \A k \in 1..m.version : Append(closed, opened)[k] = closed[k]
      /\ Append(closed, opened)[m.version + 1] = opened
  BY <1>2, <1>3, <1>4
<1>7. m.version + 1 \in 1..MaxVersion /\ m.payloads + 1 \in Nat
  BY ConstantsAssumption DEF Row
<1> HIDE DEF n
<1>8. n \in Row
  BY <1>5, <1>6, <1>7 DEF Row
<1>9. /\ n.key = m.key /\ n.scope = m.scope /\ n.status = m.status /\ n.cleaned = m.cleaned
      /\ n.content = text /\ n.source = "tool" /\ n.version = m.version + 1
      /\ n.revs = Append(closed, opened)
  BY <1>5 DEF Row
<1>10. Whole(n)
  <2>1. Len(n.revs) = n.version /\ n.revs[n.version].content = n.content
    BY <1>3, <1>6, <1>9
  <2>2. ASSUME NEW k \in 1..m.version + 1 PROVE n.revs[k].open <=> k = n.version
    <3>1. CASE k = m.version + 1
      BY <3>1, <1>3, <1>6, <1>9
    <3>2. CASE k = m.version
      BY <3>2, <1>2, <1>4, <1>6, <1>9
    <3>3. CASE k # m.version + 1 /\ k # m.version
      <4>1. k \in 1..m.version /\ k \in DOMAIN m.revs
        BY <1>2, <3>3
      <4>2. ~m.revs[k].open
        BY <1>1, <3>3, <4>1 DEF Whole
      <4> QED BY <1>2, <1>4, <1>6, <1>9, <3>3, <4>1, <4>2
    <3> QED BY <3>1, <3>2, <3>3
  <2>3. DOMAIN n.revs = 1..m.version + 1
    BY <1>6, <1>9
  <2> QED BY <2>1, <2>2, <2>3 DEF Whole
<1>11. RowOK(n)
  BY <1>1, <1>9, <1>10 DEF RowOK
<1>12. RowStep(m, n)
  BY <1>1, <1>9 DEF RowStep, IsEpisode
<1> QED BY <1>8, <1>9, <1>11, <1>12 DEF n

\* A new row, of which the run's outcome alone is an episode of the runtime.
LEMMA NewRowOK ==
  ASSUME NEW key \in Key, NEW source \in {"user", "agent_runtime", "tool", "user_input"},
         NEW scope \in {"contract", "task", "run"}, NEW r \in Runs \cup {None},
         NEW text \in Contents, NEW expires \in {"never", "later"},
         NEW payloads \in Nat,
         source = "agent_runtime" =>
           expires = "never" /\ key.type = "episodic" /\ scope = "task"
  PROVE  LET n == NewRow(key, source, scope, r, text, expires, payloads)
         IN  /\ n \in Row /\ RowOK(n) /\ n.key = key /\ n.source = source
             /\ n.content = text /\ n.status = "active"
<1> DEFINE n == NewRow(key, source, scope, r, text, expires, payloads)
           first == [content |-> text, open |-> TRUE]
<1>1. first \in Revision /\ first.open /\ first.content = text
  BY DEF Revision
<1> HIDE DEF first
<1>2. /\ <<first>> \in Seq(Revision) /\ Len(<<first>>) = 1 /\ <<first>>[1] = first
      /\ DOMAIN <<first>> = {1}
  BY <1>1
<1>3. /\ n.key = key /\ n.source = source /\ n.scope = scope /\ n.content = text
      /\ n.status = "active" /\ n.expires = expires /\ n.cleaned = FALSE /\ n.version = 1
      /\ n.revs = <<first>> /\ n.payloads = payloads /\ n.run = r
  BY DEF NewRow, first
<1>4. n = [key |-> key, source |-> source, scope |-> scope, run |-> r, content |-> text,
           status |-> "active", expires |-> expires,
           cleaned |-> FALSE, version |-> 1, revs |-> <<first>>, payloads |-> payloads]
  BY DEF NewRow, first
<1> HIDE DEF n
<1>5. 1 \in 1..MaxVersion
  BY ConstantsAssumption
<1>6. n \in Row
  BY <1>2, <1>4, <1>5 DEF Row
<1>7. Whole(n)
  BY <1>1, <1>2, <1>3 DEF Whole
<1>8. RowOK(n)
  BY <1>3, <1>7 DEF RowOK
<1> QED BY <1>3, <1>6, <1>8 DEF n

(***************************************************************************)
(* The rows together                                                        *)
(***************************************************************************)
\* No row goes, and each does as it may.
Evolves(rows, new) ==
  /\ Len(rows) <= Len(new)
  /\ \A i \in DOMAIN rows : RowStep(rows[i], new[i])

NoEpisodeAdded(rows, new) ==
  \A i \in DOMAIN new : i \notin DOMAIN rows => ~IsEpisode(new[i])

LEMMA RowAt ==
  ASSUME NEW rows, RowsOK(rows), NEW i \in DOMAIN rows
  PROVE  /\ rows[i] \in Row /\ RowOK(rows[i])
         /\ Len(rows) \in Nat /\ DOMAIN rows = 1..Len(rows) /\ i \in Nat \ {0}
BY DEF RowsOK

\* rows is changed row by row.
LEMMA EachRow ==
  ASSUME NEW rows, RowsOK(rows), NEW new, DOMAIN new = DOMAIN rows,
         new = [i \in DOMAIN rows |-> new[i]],
         \A i \in DOMAIN rows : new[i] \in Row /\ RowOK(new[i]) /\ RowStep(rows[i], new[i])
  PROVE  /\ RowsOK(new) /\ Len(new) = Len(rows)
         /\ Evolves(rows, new) /\ NoEpisodeAdded(rows, new)
<1>1. Len(rows) \in Nat /\ DOMAIN rows = 1..Len(rows)
  BY DEF RowsOK
<1>2. new \in [1..Len(rows) -> Row]
  BY <1>1
<1>3. new \in Seq(Row) /\ Len(new) = Len(rows)
  BY <1>1, <1>2
<1>4. RowsOK(new)
  BY <1>3 DEF RowsOK
<1>5. Evolves(rows, new) /\ NoEpisodeAdded(rows, new)
  BY <1>1, <1>3 DEF Evolves, NoEpisodeAdded
<1> QED BY <1>3, <1>4, <1>5

LEMMA OneMoreRow ==
  ASSUME NEW rows, RowsOK(rows), NEW n \in Row, RowOK(n), NEW new, new = Append(rows, n)
  PROVE  /\ RowsOK(new) /\ Len(new) = Len(rows) + 1 /\ DOMAIN new = 1..Len(rows) + 1
         /\ \A i \in DOMAIN rows : i \in DOMAIN new /\ new[i] = rows[i]
         /\ new[Len(rows) + 1] = n
         /\ Evolves(rows, new)
         /\ ~IsEpisode(n) => NoEpisodeAdded(rows, new)
<1>1. rows \in Seq(Row) /\ Len(rows) \in Nat /\ DOMAIN rows = 1..Len(rows)
  BY DEF RowsOK
<1>2. /\ new \in Seq(Row) /\ Len(new) = Len(rows) + 1 /\ DOMAIN new = 1..Len(rows) + 1
      /\ \A i \in 1..Len(rows) : new[i] = rows[i]
      /\ new[Len(rows) + 1] = n
  BY <1>1
<1>3. RowsOK(new)
  <2> SUFFICES ASSUME NEW i \in 1..Len(rows) + 1 PROVE RowOK(new[i])
    BY <1>2 DEF RowsOK
  <2>1. CASE i = Len(rows) + 1
    BY <1>2, <2>1
  <2>2. CASE i # Len(rows) + 1
    BY <1>1, <1>2, <2>2 DEF RowsOK
  <2> QED BY <2>1, <2>2
<1>4. Evolves(rows, new)
  <2>1. \A i \in DOMAIN rows : RowStep(rows[i], rows[i])
    BY RowAt, RowUnchanged
  <2> QED BY <1>1, <1>2, <2>1 DEF Evolves
<1>5. ~IsEpisode(n) => NoEpisodeAdded(rows, new)
  <2> SUFFICES ASSUME ~IsEpisode(n), NEW i \in DOMAIN new, i \notin DOMAIN rows
               PROVE  ~IsEpisode(new[i])
    BY DEF NoEpisodeAdded
  <2>1. i = Len(rows) + 1
    BY <1>1, <1>2
  <2> QED BY <1>2, <2>1
<1> QED BY <1>1, <1>2, <1>3, <1>4, <1>5

LEMMA NoRowChanges ==
  ASSUME NEW rows, RowsOK(rows)
  PROVE  Evolves(rows, rows) /\ NoEpisodeAdded(rows, rows)
<1>1. \A i \in DOMAIN rows : RowStep(rows[i], rows[i])
  BY RowAt, RowUnchanged
<1> QED BY <1>1 DEF RowsOK, Evolves, NoEpisodeAdded

LEMMA EvolvesOn ==
  ASSUME NEW a, NEW b, NEW c, RowsOK(a), RowsOK(b), RowsOK(c), Evolves(a, b), Evolves(b, c)
  PROVE  Evolves(a, c)
<1>1. /\ Len(a) \in Nat /\ Len(b) \in Nat /\ Len(c) \in Nat
      /\ DOMAIN a = 1..Len(a) /\ DOMAIN b = 1..Len(b) /\ DOMAIN c = 1..Len(c)
      /\ Len(a) <= Len(b) /\ Len(b) <= Len(c)
  BY DEF RowsOK, Evolves
<1>2. ASSUME NEW i \in DOMAIN a PROVE RowStep(a[i], c[i])
  <2>1. i \in DOMAIN b
    BY <1>1
  <2>2. RowStep(a[i], b[i]) /\ RowStep(b[i], c[i])
    BY <2>1 DEF Evolves
  <2>3. a[i] \in Row /\ b[i] \in Row /\ c[i] \in Row
    BY <1>1, <2>1 DEF RowsOK
  <2> QED BY <2>2, <2>3, RowFields DEF RowStep, KeepsRecords
<1> QED BY <1>1, <1>2 DEF Evolves

LEMMA RetireRows ==
  ASSUME NEW rows, RowsOK(rows), NEW ids, NEW new, new = Retire(rows, ids)
  PROVE  /\ RowsOK(new) /\ Len(new) = Len(rows) /\ DOMAIN new = DOMAIN rows
         /\ Evolves(rows, new) /\ NoEpisodeAdded(rows, new)
         /\ \A i \in DOMAIN rows :
              /\ SameText(rows[i], new[i]) /\ new[i].key = rows[i].key
              /\ new[i].payloads = rows[i].payloads /\ new[i].cleaned = rows[i].cleaned
              /\ i \notin ids => new[i] = rows[i]
              /\ i \in ids => new[i].status = "retired"
<1>1. /\ DOMAIN new = DOMAIN rows /\ new = [i \in DOMAIN rows |-> new[i]]
      /\ \A i \in DOMAIN rows :
           new[i] = IF i \in ids THEN [rows[i] EXCEPT !.status = "retired"] ELSE rows[i]
  BY DEF Retire
<1>2. ASSUME NEW i \in DOMAIN rows
      PROVE  /\ new[i] \in Row /\ RowOK(new[i]) /\ RowStep(rows[i], new[i])
             /\ SameText(rows[i], new[i])
             /\ new[i].payloads = rows[i].payloads /\ new[i].cleaned = rows[i].cleaned
             /\ i \notin ids => new[i] = rows[i]
             /\ i \in ids => new[i].status = "retired"
  <2>1. rows[i] \in Row /\ RowOK(rows[i])
    BY RowAt
  <2>2. CASE i \in ids
    <3>1. new[i] = [rows[i] EXCEPT !.status = "retired"]
      BY <1>1, <2>2
    <3>2. new[i].status = "retired"
      BY <2>1, <3>1 DEF Row
    <3> QED BY <2>1, <2>2, <3>1, <3>2, RetireRow
  <2>3. CASE i \notin ids
    BY <1>1, <2>1, <2>3, RowUnchanged DEF SameText
  <2> QED BY <2>2, <2>3
<1>3. RowsOK(new) /\ Len(new) = Len(rows) /\ Evolves(rows, new) /\ NoEpisodeAdded(rows, new)
  BY <1>1, <1>2, EachRow
<1> QED BY <1>1, <1>2, <1>3 DEF RowStep

\* A candidate adds a row, or adds its record to the row of its key, or rewrites that row.
Rewrites(m, n, key, source, text) ==
  /\ source = "tool" /\ m.key = key /\ key.type = "fact"
  /\ n.content = text /\ n.source = "tool" /\ n.version = m.version + 1

LEMMA StoreRows ==
  ASSUME NEW rows, RowsOK(rows), NEW key \in Key, key.type = "fact" \/ key.of = "input",
         NEW source \in {"tool", "user_input"},
         NEW text \in Contents,
         source = "tool" => \A i \in Stored(rows, key) : rows[i].version < MaxVersion,
         NEW new, new = Store(rows, key, source, text)
  PROVE  /\ RowsOK(new) /\ Evolves(rows, new) /\ NoEpisodeAdded(rows, new)
         /\ Len(new) = Len(rows) \/ (Len(new) = Len(rows) + 1 /\ Stored(rows, key) = {})
         /\ \A i \in DOMAIN rows :
              /\ new[i].status = rows[i].status
              /\ SameText(rows[i], new[i]) \/ Rewrites(rows[i], new[i], key, source, text)
         /\ \A i \in DOMAIN new : i \notin DOMAIN rows => new[i].source = source
<1>1. CASE Stored(rows, key) = {} /\ IsDuplicate(rows, key.type, text)
  <2>1. new = rows
    BY <1>1 DEF Store
  <2> QED BY <2>1, NoRowChanges DEF SameText
<1>2. CASE Stored(rows, key) = {} /\ ~IsDuplicate(rows, key.type, text)
  <2> DEFINE n == NewRow(key, source, "task", None, text, "never", 1)
  <2>1. new = Append(rows, n)
    BY <1>2 DEF Store
  <2>2. n \in Row /\ RowOK(n) /\ n.source = source
    BY NewRowOK
  <2>3. ~IsEpisode(n)
    BY <2>2 DEF IsEpisode
  <2> HIDE DEF n
  <2>4. /\ RowsOK(new) /\ Len(new) = Len(rows) + 1 /\ DOMAIN new = 1..Len(rows) + 1
        /\ \A i \in DOMAIN rows : i \in DOMAIN new /\ new[i] = rows[i]
        /\ new[Len(rows) + 1] = n
        /\ Evolves(rows, new) /\ NoEpisodeAdded(rows, new)
    <3>1. /\ RowsOK(new) /\ Len(new) = Len(rows) + 1 /\ DOMAIN new = 1..Len(rows) + 1
          /\ \A i \in DOMAIN rows : i \in DOMAIN new /\ new[i] = rows[i]
          /\ new[Len(rows) + 1] = n
          /\ Evolves(rows, new)
          /\ ~IsEpisode(n) => NoEpisodeAdded(rows, new)
      BY <2>1, <2>2, OneMoreRow, Zenon
    <3> QED BY <2>3, <3>1
  <2>5. \A i \in DOMAIN rows : SameText(rows[i], new[i])
    BY <2>4 DEF SameText
  <2>6. ASSUME NEW i \in DOMAIN new, i \notin DOMAIN rows PROVE i = Len(rows) + 1
    BY <2>4, <2>6 DEF RowsOK
  <2> QED BY <1>2, <2>2, <2>4, <2>5, <2>6
<1>3. CASE Stored(rows, key) # {}
  <2>0. new = [i \in DOMAIN rows |->
             CASE rows[i].key = key /\ rows[i].content = text ->
                    [rows[i] EXCEPT !.payloads = @ + 1]
               [] /\ rows[i].key = key /\ rows[i].content # text
                  /\ CanAutoSupersede(rows[i], key, source) ->
                    Supersede(rows[i], text)
               [] OTHER -> rows[i]]
    BY <1>3, Zenon DEF Store
  <2>1. /\ DOMAIN new = DOMAIN rows /\ new = [i \in DOMAIN rows |-> new[i]]
        /\ \A i \in DOMAIN rows : new[i] =
             CASE rows[i].key = key /\ rows[i].content = text ->
                    [rows[i] EXCEPT !.payloads = @ + 1]
               [] /\ rows[i].key = key /\ rows[i].content # text
                  /\ CanAutoSupersede(rows[i], key, source) ->
                    Supersede(rows[i], text)
               [] OTHER -> rows[i]
    BY <2>0, Zenon
  <2>2. ASSUME NEW i \in DOMAIN rows
        PROVE  /\ new[i] \in Row /\ RowOK(new[i]) /\ RowStep(rows[i], new[i])
               /\ new[i].status = rows[i].status
               /\ SameText(rows[i], new[i]) \/ Rewrites(rows[i], new[i], key, source, text)
    <3>1. rows[i] \in Row /\ RowOK(rows[i])
      BY RowAt
    <3>2. CASE rows[i].key = key /\ rows[i].content = text
      <4>1. new[i] = [rows[i] EXCEPT !.payloads = @ + 1]
        BY <2>1, <3>2
      <4> QED BY <3>1, <3>2, <4>1, PayloadRow
    <3>3. CASE /\ rows[i].key = key /\ rows[i].content # text
               /\ CanAutoSupersede(rows[i], key, source)
      <4>1. new[i] = Supersede(rows[i], text)
        BY <2>1, <3>3
      <4>2. /\ rows[i].status = "active" /\ key.type = "fact" /\ source = "tool"
            /\ rows[i].scope = "task" /\ rows[i].version < MaxVersion
        BY <3>3 DEF CanAutoSupersede, Stored
      <4>3. /\ new[i] \in Row /\ RowOK(new[i]) /\ RowStep(rows[i], new[i])
            /\ new[i].content = text /\ new[i].source = "tool"
            /\ new[i].version = rows[i].version + 1 /\ new[i].status = "active"
        BY <3>1, <4>1, <4>2, SupersedeRow
      <4> QED BY <3>3, <4>2, <4>3 DEF Rewrites
    <3>4. CASE /\ ~(rows[i].key = key /\ rows[i].content = text)
               /\ ~(/\ rows[i].key = key /\ rows[i].content # text
                    /\ CanAutoSupersede(rows[i], key, source))
      <4>1. new[i] = rows[i]
        BY <2>1, <3>4
      <4> QED BY <3>1, <4>1, RowUnchanged DEF SameText
    <3> QED BY <3>2, <3>3, <3>4
  <2>3. /\ RowsOK(new) /\ Len(new) = Len(rows)
        /\ Evolves(rows, new) /\ NoEpisodeAdded(rows, new)
    BY <2>1, <2>2, EachRow
  <2> QED BY <2>1, <2>2, <2>3
<1> QED BY <1>1, <1>2, <1>3

(***************************************************************************)
(* The steps                                                                *)
(***************************************************************************)
\* A step that ends no run with an answer: no episode is added, no active row gets
\* another text, and a run that ends takes only working memories along.
Quiet ==
  /\ Evolves(mem, mem') /\ NoEpisodeAdded(mem, mem')
  /\ \A i \in DOMAIN mem : mem[i].status = "active" => SameText(mem[i], mem'[i])
  /\ run' # run =>
       /\ DOMAIN mem' = DOMAIN mem
       /\ \A i \in DOMAIN mem : mem[i].status = "active" /\ mem'[i].status = "retired" =>
            mem[i].key.type = "working"

LEMMA LocalFields ==
  ASSUME NEW l \in Local
  PROVE  /\ l.op \in Ops /\ l.run \in Runs \cup {None}
         /\ l.retire \in SUBSET (1..MaxMemories) /\ l.clean \in SUBSET (1..MaxMemories)
         /\ l.seen \in [1..MaxMemories -> Nat]
         /\ l.outcome \in Contents \cup {None} /\ l.promote \in Contents \cup {None}
BY DEF Local

LEMMA IdleLocal ==
  /\ Idle \in Local /\ Idle.op = "idle" /\ Idle.clean = {} /\ Idle.retire = {}
  /\ \A ids \in SUBSET (1..MaxMemories) :
       [Idle EXCEPT !.op = "retire", !.retire = ids] \in Local
  /\ \A ids, old \in SUBSET (1..MaxMemories), seen \in [1..MaxMemories -> Nat] :
       [Idle EXCEPT !.op = "maintenance", !.retire = ids, !.clean = old, !.seen = seen] \in Local
  /\ \A ids \in SUBSET (1..MaxMemories), r \in Runs :
       [Idle EXCEPT !.op = "run_end", !.run = r, !.retire = ids] \in Local
  /\ \A r \in Runs, a, f \in Contents \cup {None} :
       [Idle EXCEPT !.op = "completion", !.run = r, !.promote = f, !.outcome = a] \in Local
<1> DEFINE zero == [i \in 1..MaxMemories |-> 0]
<1>1. Idle = [op |-> "idle", run |-> None, retire |-> {}, clean |-> {}, seen |-> zero,
              outcome |-> None, promote |-> None]
  BY DEF Idle
<1>2. zero \in [1..MaxMemories -> Nat]
  OBVIOUS
<1> HIDE DEF zero
<1> QED BY <1>1, <1>2 DEF Local, Ops

LEMMA MemRows ==
  ASSUME MemInv
  PROVE  /\ RowsOK(mem) /\ Len(mem) \in Nat /\ Len(mem) <= MaxMemories
         /\ DOMAIN mem = 1..Len(mem) /\ DOMAIN mem \subseteq 1..MaxMemories
BY ConstantsAssumption DEF MemInv, RowsOK

\* A plan that is kept, or given up, stays right when the rows evolve.
LEMMA PlanKept ==
  ASSUME MemInv, RowsOK(mem'), Evolves(mem, mem'), NEW s \in Sessions,
         local'[s] = local[s] \/ local'[s] = Idle
  PROVE  PlanOK(s)'
<1>1. CASE local'[s] = Idle
  BY <1>1, IdleLocal DEF PlanOK
<1>2. CASE local'[s] = local[s]
  <2>1. PlanOK(s) /\ RowsOK(mem)
    BY DEF MemInv
  <2>2. ASSUME NEW i \in DOMAIN mem
        PROVE  /\ i \in DOMAIN mem' /\ RowStep(mem[i], mem'[i])
               /\ mem'[i].key = mem[i].key
               /\ mem[i] \in Row /\ mem'[i] \in Row
    BY <2>1 DEF RowsOK, Evolves, RowStep
  <2>3. ASSUME NEW i \in local'[s].clean
        PROVE  i \in DOMAIN mem' /\ MayPurge(mem'[i], local'[s].seen[i])
    <3>1. i \in DOMAIN mem /\ MayPurge(mem[i], local[s].seen[i])
      BY <1>2, <2>1 DEF PlanOK
    <3>2. local[s].seen[i] \in Nat /\ mem[i].payloads \in Nat /\ mem'[i].payloads \in Nat
      BY <1>2, <2>2, <3>1, LocalFields, RowFields DEF MemInv
    <3> QED BY <1>2, <2>2, <3>1, <3>2 DEF MayPurge, RowStep, KeepsRecords
  <2>4. local'[s].op \in {"run_end", "completion"} => local'[s].run \in Runs
    BY <1>2, <2>1 DEF PlanOK
  <2>5. local'[s].op = "run_end" =>
          \A i \in local'[s].retire : i \in DOMAIN mem' /\ mem'[i].key.type = "working"
    BY <1>2, <2>1, <2>2 DEF PlanOK
  <2> QED BY <2>3, <2>4, <2>5 DEF PlanOK
<1> QED BY <1>1, <1>2

\* A request that reads and commits at once.
LEMMA RowsOnly ==
  ASSUME MemInv, RowsOK(mem'), Len(mem') <= MaxMemories, Evolves(mem, mem'),
         UNCHANGED <<run, local>>
  PROVE  MemInv'
<1>1. \A s \in Sessions : PlanOK(s)'
  BY PlanKept
<1> QED BY <1>1 DEF MemInv

\* A session plans something.
LEMMA Loads ==
  ASSUME MemInv, NEW s \in Sessions, NEW l \in Local,
         local' = [local EXCEPT ![s] = l], UNCHANGED <<mem, run>>,
         \A i \in l.clean : i \in DOMAIN mem /\ MayPurge(mem[i], l.seen[i]),
         l.op \in {"run_end", "completion"} => l.run \in Runs,
         l.op = "run_end" =>
           \A i \in l.retire : i \in DOMAIN mem /\ mem[i].key.type = "working"
  PROVE  MemInv' /\ Quiet
<1>1. local' \in [Sessions -> Local] /\ local'[s] = l
  BY DEF MemInv
<1>2. RowsOK(mem) /\ Evolves(mem, mem') /\ NoEpisodeAdded(mem, mem')
  BY NoRowChanges DEF MemInv
<1>3. ASSUME NEW t \in Sessions PROVE PlanOK(t)'
  <2>1. CASE t = s
    BY <1>1, <2>1 DEF PlanOK
  <2>2. CASE t # s
    <3>1. local'[t] = local[t]
      BY <2>2 DEF MemInv
    <3> QED BY <1>2, <3>1, PlanKept
  <2> QED BY <2>1, <2>2
<1>4. MemInv'
  BY <1>1, <1>3 DEF MemInv, RowsOK
<1>5. Quiet
  BY <1>2 DEF Quiet, SameText
<1> QED BY <1>4, <1>5

\* A session commits, or gives up, and is idle again.
LEMMA Leaves ==
  ASSUME MemInv, NEW s \in Sessions, RowsOK(mem'), Len(mem') <= MaxMemories,
         Evolves(mem, mem'), local' = [local EXCEPT ![s] = Idle],
         run' \in [Runs -> {"running", "over"}]
  PROVE  MemInv'
<1>1. local' \in [Sessions -> Local]
  BY IdleLocal DEF MemInv
<1>2. ASSUME NEW t \in Sessions PROVE PlanOK(t)'
  <2>1. local'[t] = local[t] \/ local'[t] = Idle
    BY DEF MemInv
  <2> QED BY <2>1, PlanKept
<1> QED BY <1>1, <1>2 DEF MemInv

LEMMA InitMemInv == Init => MemInv
<1> SUFFICES ASSUME Init PROVE MemInv
  OBVIOUS
<1>1. mem \in Seq(Row) /\ Len(mem) = 0 /\ DOMAIN mem = {}
  BY DEF Init
<1>2. RowsOK(mem) /\ Len(mem) <= MaxMemories
  BY <1>1, ConstantsAssumption DEF RowsOK
<1>3. run \in [Runs -> {"running", "over"}] /\ local \in [Sessions -> Local]
  BY IdleLocal DEF Init
<1>4. \A s \in Sessions : PlanOK(s)
  BY IdleLocal DEF Init, PlanOK
<1> QED BY <1>2, <1>3, <1>4 DEF MemInv

\* A step that only adds a row that is no episode.
LEMMA AddsRow ==
  ASSUME MemInv, NEW n \in Row, RowOK(n), ~IsEpisode(n), mem' = Append(mem, n),
         Len(mem) < MaxMemories, UNCHANGED <<run, local>>
  PROVE  MemInv' /\ Quiet
<1>1. RowsOK(mem)
  BY MemRows
<1>2. RowsOK(mem')
  BY <1>1, OneMoreRow, Zenon
<1>3. /\ Len(mem') = Len(mem) + 1
      /\ \A i \in DOMAIN mem : i \in DOMAIN mem' /\ mem'[i] = mem[i]
  BY <1>1 DEF RowsOK
<1>4. NoEpisodeAdded(mem, mem')
  BY <1>1, OneMoreRow, Zenon
<1>5. Evolves(mem, mem')
  <2>1. \A i \in DOMAIN mem : RowStep(mem[i], mem[i])
    BY <1>1, RowAt, RowUnchanged
  <2> QED BY <1>1, <1>2, <1>3, <2>1 DEF Evolves, RowsOK
<1>6. Len(mem') <= MaxMemories
  BY <1>3, MemRows, ConstantsAssumption
<1>7. MemInv'
  BY <1>2, <1>5, <1>6, RowsOnly
<1>8. Quiet
  BY <1>3, <1>4, <1>5 DEF Quiet, SameText
<1> QED BY <1>7, <1>8

LEMMA CreateMemoryStep ==
  ASSUME MemInv, NEW key \in UserKeys, NEW scope \in {"contract", "task", "run"},
         NEW r \in Runs \cup {None}, NEW text \in Contents, CreateMemory(key, scope, r, text)
  PROVE  MemInv' /\ Quiet
<1> DEFINE n == NewRow(key, "user", scope, r, text, "later", 0)
<1>1. mem' = Append(mem, n) /\ Len(mem) < MaxMemories /\ UNCHANGED <<run, local>>
  BY DEF CreateMemory, MayCreate
<1>2. key \in Key
  BY DEF UserKeys, DemandKey, Key
<1>3. n \in Row /\ RowOK(n) /\ n.source = "user"
  BY <1>2, NewRowOK
<1>4. ~IsEpisode(n)
  BY <1>3 DEF IsEpisode
<1> HIDE DEF n
<1> QED BY <1>1, <1>3, <1>4, AddsRow

LEMMA ExpireStep ==
  ASSUME MemInv, NEW i \in DOMAIN mem, Expire(i)
  PROVE  MemInv' /\ Quiet
<1>1. RowsOK(mem) /\ Len(mem) <= MaxMemories
  BY DEF MemInv
<1>2. /\ DOMAIN mem' = DOMAIN mem /\ mem' = [j \in DOMAIN mem |-> mem'[j]]
      /\ \A j \in DOMAIN mem : j # i => mem'[j] = mem[j]
      /\ mem'[i] = [mem[i] EXCEPT !.expires = "passed"] /\ mem[i].expires = "later"
      /\ mem[i].status = "active" /\ UNCHANGED <<run, local>>
  BY <1>1 DEF Expire, RowsOK
<1>3. ASSUME NEW j \in DOMAIN mem
      PROVE  /\ mem'[j] \in Row /\ RowOK(mem'[j]) /\ RowStep(mem[j], mem'[j])
             /\ SameText(mem[j], mem'[j])
  <2>1. mem[j] \in Row /\ RowOK(mem[j])
    BY <1>1, RowAt
  <2>2. CASE j = i
    BY <1>2, <2>1, <2>2, ExpireRow
  <2>3. CASE j # i
    BY <1>2, <2>1, <2>3, RowUnchanged DEF SameText
  <2> QED BY <2>2, <2>3
<1>4. /\ RowsOK(mem') /\ Len(mem') = Len(mem)
      /\ Evolves(mem, mem') /\ NoEpisodeAdded(mem, mem')
  BY <1>1, <1>2, <1>3, EachRow
<1>5. MemInv'
  BY <1>1, <1>2, <1>4, RowsOnly
<1>6. Quiet
  BY <1>2, <1>3, <1>4 DEF Quiet
<1> QED BY <1>5, <1>6

LEMMA LoadRetireStep ==
  ASSUME MemInv, NEW s \in Sessions, NEW ids \in SUBSET DOMAIN mem, LoadRetirement(s, ids)
  PROVE  MemInv' /\ Quiet
<1> DEFINE l == [Idle EXCEPT !.op = "retire", !.retire = ids]
<1>1. l \in Local /\ l.op = "retire" /\ l.clean = {}
  BY MemRows, IdleLocal DEF Idle
<1> QED BY <1>1, Loads DEF LoadRetirement

LEMMA CommitRetirementStep ==
  ASSUME MemInv, NEW s \in Sessions, CommitRetirement(s)
  PROVE  MemInv' /\ Quiet
<1>1. mem' = Retire(mem, local[s].retire) /\ local' = [local EXCEPT ![s] = Idle] /\ run' = run
  BY DEF CommitRetirement
<1>2. /\ RowsOK(mem') /\ Len(mem') = Len(mem) /\ Evolves(mem, mem') /\ NoEpisodeAdded(mem, mem')
      /\ \A i \in DOMAIN mem : SameText(mem[i], mem'[i])
  BY <1>1, MemRows, RetireRows
<1>3. MemInv'
  BY <1>1, <1>2, Leaves DEF MemInv
<1>4. Quiet
  BY <1>1, <1>2 DEF Quiet
<1> QED BY <1>3, <1>4

LEMMA PurgeRows ==
  ASSUME NEW rows, RowsOK(rows), NEW ids, NEW seen,
         \A i \in ids :
           /\ i \in DOMAIN rows /\ seen[i] \in Nat
           /\ ~rows[i].cleaned /\ MayPurge(rows[i], seen[i]),
         NEW new, new = Purge(rows, ids, seen)
  PROVE  /\ RowsOK(new) /\ Len(new) = Len(rows) /\ Evolves(rows, new) /\ NoEpisodeAdded(rows, new)
         /\ \A i \in DOMAIN rows : i \notin ids => new[i] = rows[i]
<1>1. /\ DOMAIN new = DOMAIN rows /\ new = [i \in DOMAIN rows |-> new[i]]
      /\ \A i \in DOMAIN rows : 
           new[i] = IF i \in ids THEN PurgeOne(rows[i], seen[i]) ELSE rows[i]
  BY DEF Purge
<1>2. ASSUME NEW i \in DOMAIN rows
      PROVE  new[i] \in Row /\ RowOK(new[i]) /\ RowStep(rows[i], new[i])
  <2>1. rows[i] \in Row /\ RowOK(rows[i])
    BY RowAt
  <2>2. CASE i \in ids
    BY <1>1, <2>1, <2>2, PurgeRow
  <2>3. CASE i \notin ids
    BY <1>1, <2>1, <2>3, RowUnchanged
  <2> QED BY <2>2, <2>3
<1> QED BY <1>1, <1>2, EachRow

LEMMA LoadMaintenanceStep ==
  ASSUME MemInv, NEW s \in Sessions, NEW old \in SUBSET Purgeable(mem),
         NEW limit \in 1..EpisodeLimit, LoadMaintenance(s, old, limit)
  PROVE  MemInv' /\ Quiet
<1> DEFINE plan == Retirable(mem, limit)
           seen == [i \in 1..MaxMemories |-> IF i \in old THEN mem[i].payloads ELSE 0]
           l == [Idle EXCEPT !.op = "maintenance", !.retire = plan, !.clean = old,
                             !.seen = seen]
<1>1. plan \subseteq DOMAIN mem
  BY DEF Retirable, Expired, Episodes, Overflow, Kept
<1>2. ASSUME NEW i \in old
      PROVE  i \in DOMAIN mem /\ i \in 1..MaxMemories /\ MayPurge(mem[i], seen[i])
  <2>1. /\ i \in DOMAIN mem /\ i \in 1..MaxMemories
        /\ mem[i].status = "retired" /\ mem[i].key.type # "fact"
    BY MemRows DEF Purgeable
  <2>2. mem[i].payloads \in Nat /\ seen[i] = mem[i].payloads
    BY <2>1, MemRows, RowAt, RowFields
  <2> QED BY <2>1, <2>2 DEF MayPurge
<1>3. local' = [local EXCEPT ![s] = l] /\ UNCHANGED <<mem, run>>
  BY DEF LoadMaintenance
<1>4. plan \in SUBSET (1..MaxMemories) /\ old \in SUBSET (1..MaxMemories)
  BY <1>1, <1>2, MemRows
<1>5. seen \in [1..MaxMemories -> Nat]
  <2>1. \A i \in old : mem[i].payloads \in Nat
    BY <1>2, MemRows, RowAt, RowFields
  <2> QED BY <2>1
<1> HIDE DEF plan, seen
<1>6. l \in Local
  BY <1>4, <1>5, IdleLocal
<1>7. l.op = "maintenance" /\ l.clean = old /\ l.seen = seen
  BY DEF Idle
<1> HIDE DEF l
<1> QED BY <1>2, <1>3, <1>6, <1>7, Loads

LEMMA CommitMaintenanceStep ==
  ASSUME MemInv, NEW s \in Sessions, CommitMaintenance(s)
  PROVE  MemInv' /\ Quiet
<1>1. local' = [local EXCEPT ![s] = Idle] /\ run' = run
  BY DEF CommitMaintenance
<1>2. CASE mem' = mem
  <2>1. RowsOK(mem) /\ Evolves(mem, mem') /\ NoEpisodeAdded(mem, mem') /\ Len(mem) <= MaxMemories
    BY <1>2, MemRows, NoRowChanges
  <2>2. MemInv'
    BY <1>1, <1>2, <2>1, Leaves DEF MemInv
  <2>3. Quiet
    BY <1>1, <1>2, <2>1 DEF Quiet, SameText
  <2> QED BY <2>2, <2>3
<1>3. CASE /\ \A i \in local[s].clean : ~mem[i].cleaned
           /\ mem' = Purge(Retire(mem, local[s].retire), local[s].clean, local[s].seen)
  <2> DEFINE rows == Retire(mem, local[s].retire)
  <2>1. /\ RowsOK(rows) /\ Len(rows) = Len(mem) /\ DOMAIN rows = DOMAIN mem
        /\ Evolves(mem, rows) /\ NoEpisodeAdded(mem, rows)
        /\ \A i \in DOMAIN mem :
             /\ SameText(mem[i], rows[i]) /\ rows[i].key = mem[i].key
             /\ rows[i].payloads = mem[i].payloads /\ rows[i].cleaned = mem[i].cleaned
    BY MemRows, RetireRows
  <2>2. \A i \in DOMAIN mem : mem[i].status = "retired" => rows[i].status = "retired"
    BY <2>1 DEF Evolves, RowStep
  <2>3. ASSUME NEW i \in local[s].clean
        PROVE  /\ i \in DOMAIN mem /\ mem[i].status = "retired" /\ i \in DOMAIN rows
               /\ local[s].seen[i] \in Nat /\ ~rows[i].cleaned
               /\ MayPurge(rows[i], local[s].seen[i])
    <3>1. i \in DOMAIN mem /\ MayPurge(mem[i], local[s].seen[i]) /\ i \in 1..MaxMemories
      BY LocalFields DEF MemInv, PlanOK
    <3>2. local[s].seen[i] \in Nat
      BY <3>1, LocalFields DEF MemInv
    <3> HIDE DEF rows
    <3> QED BY <1>3, <2>1, <2>2, <3>1, <3>2 DEF MayPurge
  <2> HIDE DEF rows
  <2>4. /\ RowsOK(mem') /\ Len(mem') = Len(rows)
        /\ Evolves(rows, mem') /\ NoEpisodeAdded(rows, mem')
        /\ \A i \in DOMAIN rows : i \notin local[s].clean => mem'[i] = rows[i]
    BY <1>3, <2>1, <2>2, <2>3, PurgeRows DEF rows
  <2>5. Evolves(mem, mem')
    BY <2>1, <2>4, MemRows, EvolvesOn
  <2>6. NoEpisodeAdded(mem, mem')
    BY <2>1, <2>4 DEF NoEpisodeAdded, RowsOK
  <2>7. \A i \in DOMAIN mem : mem[i].status = "active" => SameText(mem[i], mem'[i])
    BY <2>1, <2>3, <2>4
  <2>8. MemInv'
    BY <1>1, <2>1, <2>4, <2>5, Leaves, MemRows DEF MemInv
  <2> QED BY <1>1, <2>5, <2>6, <2>7, <2>8 DEF Quiet
<1> QED BY <1>2, <1>3 DEF CommitMaintenance

LEMMA EvaluateUserInputStep ==
  ASSUME MemInv, NEW type \in {"fact", "episodic"}, NEW text \in Contents,
         NEW judgement \in Judgement, EvaluateUserInput(type, text, judgement)
  PROVE  MemInv' /\ Quiet
<1> DEFINE key == [type |-> type, of |-> "input"]
<1>1. /\ mem' = Store(mem, key, "user_input", text) /\ UNCHANGED <<run, local>>
      /\ Len(mem) < MaxMemories \/ Stored(mem, key) # {}
  BY DEF EvaluateUserInput, MayCreate
<1>2. key \in Key /\ key.of = "input"
  BY DEF Key
<1> HIDE DEF key
<1>3. /\ RowsOK(mem') /\ Evolves(mem, mem') /\ NoEpisodeAdded(mem, mem')
      /\ Len(mem') = Len(mem) \/ (Len(mem') = Len(mem) + 1 /\ Stored(mem, key) = {})
      /\ \A i \in DOMAIN mem :
           SameText(mem[i], mem'[i]) \/ Rewrites(mem[i], mem'[i], key, "user_input", text)
  BY <1>1, <1>2, MemRows, StoreRows
<1>4. Len(mem') <= MaxMemories
  BY <1>1, <1>3, MemRows, ConstantsAssumption
<1>5. MemInv'
  BY <1>1, <1>3, <1>4, RowsOnly
<1>6. Quiet
  BY <1>1, <1>3 DEF Quiet, Rewrites
<1> QED BY <1>5, <1>6

LEMMA CaptureWorkingStep ==
  ASSUME MemInv, NEW r \in Runs, NEW text \in Contents, CaptureWorking(r, text)
  PROVE  MemInv' /\ Quiet
<1> DEFINE n == NewRow(WorkingKey(r), "tool", "run", r, text, "never", 1)
<1>1. mem' = Append(mem, n) /\ Len(mem) < MaxMemories /\ UNCHANGED <<run, local>>
  BY DEF CaptureWorking
<1>2. WorkingKey(r) \in Key
  BY DEF WorkingKey, Key
<1>3. n \in Row /\ RowOK(n) /\ n.source = "tool"
  BY <1>2, NewRowOK
<1>4. ~IsEpisode(n)
  BY <1>3 DEF IsEpisode
<1> HIDE DEF n
<1> QED BY <1>1, <1>3, <1>4, AddsRow

LEMMA LoadRunEndStep ==
  ASSUME MemInv, NEW s \in Sessions, NEW r \in Runs, LoadRunEnd(s, r)
  PROVE  MemInv' /\ Quiet
<1> DEFINE ids == {i \in ActiveWorking(mem) : mem[i].run = r}
           l == [Idle EXCEPT !.op = "run_end", !.run = r, !.retire = ids]
<1>1. local' = [local EXCEPT ![s] = l] /\ UNCHANGED <<mem, run>>
  BY DEF LoadRunEnd
<1>2. \A i \in ids : i \in DOMAIN mem /\ mem[i].key.type = "working"
  BY DEF ActiveWorking
<1>3. ids \in SUBSET (1..MaxMemories)
  BY <1>2, MemRows
<1> HIDE DEF ids
<1>4. l \in Local
  BY <1>3, IdleLocal
<1>5. l.op = "run_end" /\ l.clean = {} /\ l.run = r /\ l.retire = ids
  BY DEF Idle
<1> HIDE DEF l
<1> QED BY <1>1, <1>2, <1>4, <1>5, Loads

LEMMA CommitRunEndStep ==
  ASSUME MemInv, NEW s \in Sessions, CommitRunEnd(s)
  PROVE  MemInv' /\ Quiet
<1>1. /\ mem' = Retire(mem, local[s].retire) /\ local' = [local EXCEPT ![s] = Idle]
      /\ run' = [run EXCEPT ![local[s].run] = "over"] /\ local[s].op = "run_end"
  BY DEF CommitRunEnd
<1>2. /\ RowsOK(mem') /\ Len(mem') = Len(mem) /\ DOMAIN mem' = DOMAIN mem
      /\ Evolves(mem, mem') /\ NoEpisodeAdded(mem, mem')
      /\ \A i \in DOMAIN mem :
           SameText(mem[i], mem'[i]) /\ (i \notin local[s].retire => mem'[i] = mem[i])
  BY <1>1, MemRows, RetireRows
<1>3. \A i \in local[s].retire : mem[i].key.type = "working"
  BY <1>1 DEF MemInv, PlanOK
<1>4. run' \in [Runs -> {"running", "over"}]
  BY <1>1 DEF MemInv
<1>5. MemInv'
  BY <1>1, <1>2, <1>4, MemRows, Leaves
<1>6. Quiet
  BY <1>2, <1>3 DEF Quiet
<1> QED BY <1>5, <1>6

LEMMA LoadCompletionStep ==
  ASSUME MemInv, NEW s \in Sessions, NEW r \in Runs, NEW answer \in Contents,
         NEW sound \in BOOLEAN, NEW matches \in BOOLEAN,
         LoadCompletion(s, r, answer, sound, matches)
  PROVE  MemInv' /\ Quiet
<1> DEFINE outcome == IF sound /\ ~IsDuplicate(mem, "episodic", answer) THEN answer ELSE None
<1>1. PICK fact \in IF matches /\ Promoted(r) # {} THEN Promoted(r) ELSE {None} :
        local' = [local EXCEPT ![s] =
          [Idle EXCEPT !.op = "completion", !.run = r, !.promote = fact, !.outcome = outcome]]
  BY DEF LoadCompletion
<1>2. Promoted(r) \subseteq Contents
  <2> SUFFICES ASSUME NEW i \in Stored(mem, WorkingKey(r)), mem[i].status = "active"
               PROVE  mem[i].content \in Contents
    BY DEF Promoted
  <2>1. mem[i] \in Row /\ RowOK(mem[i])
    BY MemRows, RowAt DEF Stored
  <2> QED BY <2>1, ActiveRow
<1>3. fact \in Contents \cup {None} /\ outcome \in Contents \cup {None}
  BY <1>1, <1>2
<1> HIDE DEF outcome
<1> DEFINE l == [Idle EXCEPT !.op = "completion", !.run = r, !.promote = fact,
                             !.outcome = outcome]
<1>4. local' = [local EXCEPT ![s] = l] /\ UNCHANGED <<mem, run>>
  BY <1>1 DEF LoadCompletion
<1>5. l \in Local
  BY <1>3, IdleLocal
<1>6. l.op = "completion" /\ l.clean = {} /\ l.run = r
  BY DEF Idle
<1> HIDE DEF l
<1> QED BY <1>4, <1>5, <1>6, Loads

LEMMA AbandonStep ==
  ASSUME MemInv, NEW s \in Sessions, Abandon(s)
  PROVE  MemInv' /\ Quiet
<1>1. local' = [local EXCEPT ![s] = Idle] /\ UNCHANGED <<mem, run>>
  BY DEF Abandon
<1>2. RowsOK(mem) /\ Evolves(mem, mem') /\ NoEpisodeAdded(mem, mem') /\ Len(mem) <= MaxMemories
  BY <1>1, MemRows, NoRowChanges
<1>3. MemInv'
  BY <1>1, <1>2, Leaves DEF MemInv
<1> QED BY <1>1, <1>2, <1>3 DEF Quiet, SameText

(***************************************************************************)
(* A run that ends with an answer                                           *)
(***************************************************************************)
\* What the two candidates and the retirement of working memories make of the rows: no
\* text changes but the fact's, and no row of the runtime retires.
BeforeMaintenance(rows, new, fact) ==
  /\ RowsOK(new) /\ Evolves(rows, new)
  /\ \A i \in DOMAIN rows :
       SameText(rows[i], new[i]) \/ Rewrites(rows[i], new[i], DemandKey, "tool", fact)
  /\ \A i \in DOMAIN new : new[i].source = "agent_runtime" =>
       new[i].status = IF i \in DOMAIN rows THEN rows[i].status ELSE "active"

LEMMA NewEpisodeOK ==
  ASSUME NEW key \in Key, key.type = "episodic", NEW text \in Contents
  PROVE  LET n == NewRow(key, "agent_runtime", "task", None, text, "never", 1)
         IN  n \in Row /\ RowOK(n) /\ n.status = "active" /\ n.key = key
<1> DEFINE n == NewRow(key, "agent_runtime", "task", None, text, "never", 1)
<1>1. PICK source \in {"user", "agent_runtime", "tool", "user_input"} :
        source = "agent_runtime"
  OBVIOUS
<1>2. PICK scope \in {"contract", "task", "run"} : scope = "task"
  OBVIOUS
<1>3. PICK expires \in {"never", "later"} : expires = "never"
  OBVIOUS
<1>4. PICK payloads \in Nat : payloads = 1
  OBVIOUS
<1>5. PICK r \in Runs \cup {None} : r = None
  OBVIOUS
<1>6. n = NewRow(key, source, scope, r, text, expires, payloads)
  BY <1>1, <1>2, <1>3, <1>4, <1>5
<1> HIDE DEF n
<1>7. n \in Row /\ RowOK(n) /\ n.status = "active" /\ n.key = key
  BY <1>1, <1>2, <1>3, <1>6, NewRowOK
<1> QED BY <1>7 DEF n

LEMMA OutcomeRows ==
  ASSUME NEW rows, RowsOK(rows), NEW r \in Runs, NEW outcome \in Contents \cup {None},
         NEW new, new = WithOutcome(rows, r, outcome)
  PROVE  /\ RowsOK(new) /\ Evolves(rows, new)
         /\ \A i \in DOMAIN rows : new[i] = rows[i]
         /\ \A i \in DOMAIN new : i \notin DOMAIN rows =>
              new[i].status = "active" /\ new[i].key.type = "episodic"
<1>1. CASE outcome = None
  <2>1. new = rows
    BY <1>1 DEF WithOutcome
  <2> QED BY <2>1, NoRowChanges
<1>2. CASE outcome # None
  <2> DEFINE key == OutcomeKey(r)
             n == NewRow(key, "agent_runtime", "task", None, outcome, "never", 1)
  <2>1. new = Append(rows, n)
    BY <1>2 DEF WithOutcome
  <2>2. key \in Key /\ key.type = "episodic"
    BY DEF OutcomeKey, Key
  <2>3. outcome \in Contents
    BY <1>2
  <2> HIDE DEF key
  <2>4. n \in Row /\ RowOK(n) /\ n.status = "active" /\ n.key = key
    BY <2>2, <2>3, NewEpisodeOK
  <2> HIDE DEF n
  <2>5. RowsOK(new)
    BY <2>1, <2>4, OneMoreRow, Zenon
  <2>6. /\ Len(new) = Len(rows) + 1 /\ DOMAIN new = 1..Len(rows) + 1
        /\ DOMAIN rows = 1..Len(rows) /\ Len(rows) \in Nat
        /\ \A i \in DOMAIN rows : i \in DOMAIN new /\ new[i] = rows[i]
        /\ new[Len(rows) + 1] = n
    BY <2>1, <2>4 DEF RowsOK
  <2>7. Evolves(rows, new)
    <3>1. \A i \in DOMAIN rows : RowStep(rows[i], rows[i])
      BY RowAt, RowUnchanged
    <3> QED BY <2>6, <3>1 DEF Evolves
  <2>8. ASSUME NEW i \in DOMAIN new, i \notin DOMAIN rows PROVE new[i] = n
    <3>1. i = Len(rows) + 1
      BY <2>6, <2>8
    <3> QED BY <2>6, <3>1
  <2> QED BY <2>2, <2>4, <2>5, <2>6, <2>7, <2>8
<1> QED BY <1>1, <1>2

LEMMA CompletedRows ==
  ASSUME NEW rows, RowsOK(rows), NEW r \in Runs, NEW outcome \in Contents \cup {None},
         NEW fact \in Contents \cup {None},
         \A i \in DOMAIN rows : rows[i].version < MaxVersion,
         NEW stored, stored = WithFact(WithOutcome(rows, r, outcome), fact),
         NEW new, new = Completed(stored, r)
  PROVE  BeforeMaintenance(rows, new, fact) /\ Len(new) = Len(stored)
<1> DEFINE first == WithOutcome(rows, r, outcome)
<1>1. /\ RowsOK(first) /\ Evolves(rows, first)
      /\ \A i \in DOMAIN rows : first[i] = rows[i]
      /\ \A i \in DOMAIN first : i \notin DOMAIN rows =>
           first[i].status = "active" /\ first[i].key.type = "episodic"
  BY OutcomeRows
<1> HIDE DEF first
<1>2. \A i \in Stored(first, DemandKey) : first[i].version < MaxVersion
  BY <1>1 DEF Stored, DemandKey
<1>3. /\ RowsOK(stored) /\ Evolves(first, stored)
      /\ \A i \in DOMAIN first :
           /\ stored[i].status = first[i].status
           /\ \/ SameText(first[i], stored[i])
              \/ Rewrites(first[i], stored[i], DemandKey, "tool", fact)
      /\ \A i \in DOMAIN stored : i \notin DOMAIN first => stored[i].source = "tool"
  <2>1. CASE fact = None
    <3>1. stored = first
      BY <2>1 DEF WithFact, first
    <3> QED BY <1>1, <3>1, NoRowChanges DEF SameText
  <2>2. CASE fact # None
    <3>1. stored = Store(first, DemandKey, "tool", fact)
      BY <2>2 DEF WithFact, first
    <3>2. DemandKey \in Key /\ DemandKey.type = "fact" /\ fact \in Contents
      BY <2>2 DEF DemandKey, Key
    <3>3. RowsOK(first) /\ "tool" \in {"tool", "user_input"}
      BY <1>1
    <3>4. /\ RowsOK(stored) /\ Evolves(first, stored)
          /\ \A i \in DOMAIN first :
               /\ stored[i].status = first[i].status
               /\ \/ SameText(first[i], stored[i])
                  \/ Rewrites(first[i], stored[i], DemandKey, "tool", fact)
          /\ \A i \in DOMAIN stored : i \notin DOMAIN first => stored[i].source = "tool"
      BY <1>2, <3>1, <3>2, <3>3, StoreRows, SMTT(60)
    <3> QED BY <3>4
  <2> QED BY <2>1, <2>2
<1>4. /\ RowsOK(new) /\ Len(new) = Len(stored) /\ DOMAIN new = DOMAIN stored
      /\ Evolves(stored, new)
      /\ \A i \in DOMAIN stored :
           /\ SameText(stored[i], new[i]) /\ new[i].key = stored[i].key
           /\ i \notin {k \in ActiveWorking(stored) : stored[k].run = r} => new[i] = stored[i]
  BY <1>3, RetireRows DEF Completed
<1>5. Evolves(rows, stored)
  BY <1>1, <1>3, EvolvesOn
<1>6. Evolves(rows, new)
  BY <1>3, <1>4, <1>5, EvolvesOn
<1>7. DOMAIN rows \subseteq DOMAIN first /\ DOMAIN first \subseteq DOMAIN stored
  BY <1>1, <1>3 DEF Evolves, RowsOK
<1>8. ASSUME NEW i \in DOMAIN rows
      PROVE  SameText(rows[i], new[i]) \/ Rewrites(rows[i], new[i], DemandKey, "tool", fact)
  <2>1. SameText(stored[i], new[i]) /\ first[i] = rows[i]
    BY <1>1, <1>4, <1>7
  <2>2. \/ SameText(rows[i], stored[i])
        \/ Rewrites(rows[i], stored[i], DemandKey, "tool", fact)
    BY <1>3, <1>7, <2>1
  <2> QED BY <2>1, <2>2 DEF SameText, Rewrites
<1>9. ASSUME NEW i \in DOMAIN new, new[i].source = "agent_runtime"
      PROVE  new[i].status = IF i \in DOMAIN rows THEN rows[i].status ELSE "active"
  <2>1. stored[i].source = "agent_runtime" /\ i \in DOMAIN stored
    BY <1>4, <1>9 DEF SameText
  <2>2. stored[i].key.type = "episodic"
    BY <1>3, <2>1, RowAt DEF RowOK
  <2>3. new[i] = stored[i]
    BY <1>4, <2>1, <2>2 DEF ActiveWorking
  <2>4. i \in DOMAIN first
    BY <1>3, <2>1
  <2>5. stored[i].status = first[i].status
    BY <1>3, <2>4
  <2> QED BY <1>1, <2>3, <2>4, <2>5
<1> QED BY <1>4, <1>6, <1>8, <1>9 DEF BeforeMaintenance

(***************************************************************************)
(* What maintenance leaves                                                  *)
(***************************************************************************)
\* Of the sets of what is above each element, one is smallest: that of the largest.
LEMMA Largest ==
  ASSUME NEW S \in SUBSET Nat, IsFiniteSet(S), S # {}
  PROVE  \E x \in S : \A y \in S : y <= x
<1> DEFINE Above(x) == {y \in S : y > x}
           T == {Above(x) : x \in S}
           R == StrictSubsetOrdering(S)
<1>1. T \subseteq FiniteSubsetsOf(S) /\ T # {}
  <2>1. ASSUME NEW x \in S PROVE Above(x) \in FiniteSubsetsOf(S)
    <3>1. Above(x) \in SUBSET S
      OBVIOUS
    <3> QED BY <3>1, FS_Subset DEF FiniteSubsetsOf
  <2> QED BY <2>1
<1>2. IsWellFoundedOn(R, FiniteSubsetsOf(S))
  BY FS_StrictSubsetOrderingWellFounded
<1>3. PICK t \in T : \A u \in T : <<u, t>> \notin R
  <2> HIDE DEF T, R
  <2> QED BY <1>1, <1>2, WFMin
<1>4. PICK x \in S : t = Above(x)
  OBVIOUS
<1>5. ASSUME NEW y \in S, y > x PROVE FALSE
  <2>1. Above(y) \in T
    OBVIOUS
  <2>2. Above(y) \subseteq Above(x) /\ y \in Above(x) /\ y \notin Above(y)
    <3>1. x \in Nat /\ y \in Nat /\ \A z \in S : z \in Nat
      OBVIOUS
    <3>2. y \in Above(x) /\ y \notin Above(y)
      BY <1>5, <3>1
    <3>3. \A z \in S : z > y => z > x
      BY <1>5, <3>1
    <3> QED BY <3>2, <3>3
  <2>3. <<Above(y), Above(x)>> \in R
    BY <2>2 DEF StrictSubsetOrdering
  <2> QED BY <1>3, <1>4, <2>1, <2>3
<1> QED BY <1>5

LEMMA Smallest ==
  ASSUME NEW S \in SUBSET Nat, IsFiniteSet(S), S # {}
  PROVE  \E x \in S : \A y \in S : x <= y
<1> DEFINE Below(x) == {y \in S : y < x}
           T == {Below(x) : x \in S}
           R == StrictSubsetOrdering(S)
<1>1. T \subseteq FiniteSubsetsOf(S) /\ T # {}
  <2>1. ASSUME NEW x \in S PROVE Below(x) \in FiniteSubsetsOf(S)
    <3>1. Below(x) \in SUBSET S
      OBVIOUS
    <3> QED BY <3>1, FS_Subset DEF FiniteSubsetsOf
  <2> QED BY <2>1
<1>2. IsWellFoundedOn(R, FiniteSubsetsOf(S))
  BY FS_StrictSubsetOrderingWellFounded
<1>3. PICK t \in T : \A u \in T : <<u, t>> \notin R
  <2> HIDE DEF T, R
  <2> QED BY <1>1, <1>2, WFMin
<1>4. PICK x \in S : t = Below(x)
  OBVIOUS
<1>5. ASSUME NEW y \in S, y < x PROVE FALSE
  <2>1. Below(y) \in T
    OBVIOUS
  <2>2. Below(y) \subseteq Below(x) /\ y \in Below(x) /\ y \notin Below(y)
    <3>1. x \in Nat /\ y \in Nat /\ \A z \in S : z \in Nat
      OBVIOUS
    <3>2. y \in Below(x) /\ y \notin Below(y)
      BY <1>5, <3>1
    <3>3. \A z \in S : z < y => z < x
      BY <1>5, <3>1
    <3> QED BY <3>2, <3>3
  <2>3. <<Below(y), Below(x)>> \in R
    BY <2>2 DEF StrictSubsetOrdering
  <2> QED BY <1>3, <1>4, <2>1, <2>3
<1> QED BY <1>5

LEMMA FiniteEpisodes ==
  ASSUME NEW rows, RowsOK(rows), NEW S \in SUBSET DOMAIN rows
  PROVE  IsFiniteSet(S) /\ S \subseteq Nat /\ Cardinality(S) \in Nat
<1>1. DOMAIN rows = 1..Len(rows) /\ Len(rows) \in Nat
  BY DEF RowsOK
<1>2. IsFiniteSet(DOMAIN rows)
  BY <1>1, FS_Interval
<1> QED BY <1>1, <1>2, FS_Subset, FS_CardinalityType

\* All but the newest EpisodeLimit of the kept episodes are the overflow.
LEMMA OverflowLeavesLimit ==
  ASSUME NEW rows, RowsOK(rows)
  PROVE  Cardinality(Kept(rows) \ Overflow(rows, EpisodeLimit)) <= EpisodeLimit
<1> DEFINE K == Kept(rows)
           Newer(i) == {j \in K : j > i}
           S == K \ Overflow(rows, EpisodeLimit)
<1>1. K \subseteq DOMAIN rows /\ S \subseteq DOMAIN rows
  BY DEF Kept, Episodes
<1>2. IsFiniteSet(K) /\ IsFiniteSet(S) /\ S \subseteq Nat /\ Cardinality(S) \in Nat
  BY <1>1, FiniteEpisodes
<1>3. CASE S = {}
  BY <1>3, FS_EmptySet, ConstantsAssumption
<1>4. CASE S # {}
  <2>1. PICK x \in S : \A y \in S : x <= y
    <3> HIDE DEF S
    <3> QED BY <1>2, <1>4, Smallest
  <2>2. x \in K /\ ~(Cardinality(Newer(x)) >= EpisodeLimit)
    BY <2>1 DEF Overflow
  <2>3. S \ {x} \subseteq Newer(x)
    BY <1>2, <2>1
  <2>4. IsFiniteSet(Newer(x)) /\ Cardinality(Newer(x)) \in Nat
    <3>1. Newer(x) \subseteq K
      OBVIOUS
    <3> QED BY <1>2, <3>1, FS_Subset, FS_CardinalityType
  <2>5. Cardinality(S \ {x}) <= Cardinality(Newer(x))
    BY <2>3, <2>4, FS_Subset
  <2>6. Cardinality(S \ {x}) = Cardinality(S) - 1
    BY <1>2, <2>1, FS_RemoveElement
  <2>7. EpisodeLimit \in Nat
    BY ConstantsAssumption
  <2>8. Cardinality(S) - 1 < EpisodeLimit
    <3> HIDE DEF S, Newer
    <3> QED BY <1>2, <2>2, <2>4, <2>5, <2>6, <2>7
  <2>9. Cardinality(S) \in Nat
    BY <1>2
  <2> HIDE DEF S
  <2> QED BY <2>7, <2>8, <2>9 DEF S
<1> QED BY <1>3, <1>4

\* Where the overflow starts does not matter: EpisodeLimit kept episodes stay above it.
LEMMA OverflowIsCovered ==
  ASSUME NEW rows, RowsOK(rows), NEW i \in Overflow(rows, EpisodeLimit)
  PROVE  Cardinality({j \in Kept(rows) \ Overflow(rows, EpisodeLimit) : j > i}) >= EpisodeLimit
<1> DEFINE K == Kept(rows)
           O == Overflow(rows, EpisodeLimit)
           T == {k \in O : k >= i}
           S == {j \in K \ O : j > i}
<1>1. K \subseteq DOMAIN rows /\ O \subseteq K
  BY DEF Kept, Episodes, Overflow
<1>2. T \subseteq DOMAIN rows /\ S \subseteq DOMAIN rows /\ i \in K /\ i \in DOMAIN rows
  BY <1>1
<1>3. /\ IsFiniteSet(T) /\ T \subseteq Nat /\ i \in Nat
      /\ K \subseteq Nat /\ IsFiniteSet(S) /\ Cardinality(S) \in Nat
  BY <1>1, <1>2, FiniteEpisodes, RowAt
<1>4. i \in T
  BY <1>3
<1>5. PICK x \in T : \A y \in T : y <= x
  <2> HIDE DEF T
  <2> QED BY <1>3, <1>4, Largest
<1>6. Cardinality({j \in K : j > x}) >= EpisodeLimit
  BY <1>5 DEF Overflow
<1>7. {j \in K : j > x} \subseteq S
  <2> SUFFICES ASSUME NEW j \in K, j > x PROVE j \notin O /\ j > i
    OBVIOUS
  <2>1. j > i
    BY <1>3, <1>5
  <2> QED BY <1>3, <1>5, <2>1
<1>8. Cardinality({j \in K : j > x}) <= Cardinality(S)
  BY <1>3, <1>7, FS_Subset
<1>9. Cardinality({j \in K : j > x}) \in Nat
  BY <1>3, <1>7, FS_Subset, FS_CardinalityType
<1> HIDE DEF S
<1> QED BY <1>3, <1>6, <1>8, <1>9, ConstantsAssumption DEF S

Bounded(rows) == Cardinality(Episodes(rows)) <= EpisodeLimit
Distinct(rows) == \A i, j \in Episodes(rows) : rows[i].content = rows[j].content => i = j

\* What replaces an episode that goes.
Covered(rows, i) ==
  LET newer == {j \in Episodes(rows) : j > i}
  IN  \/ \E j \in newer : rows[j].content = rows[i].content
      \/ Cardinality(newer) >= EpisodeLimit

\* Of the episodes, maintenance retires the duplicates and the overflow and no other.
LEMMA MaintainedEpisodes ==
  ASSUME NEW rows, RowsOK(rows), NEW new, new = Maintained(rows)
  PROVE  Episodes(new) = Kept(rows) \ Overflow(rows, EpisodeLimit)
<1> DEFINE ids == Retirable(rows, EpisodeLimit)
<1>1. /\ DOMAIN new = DOMAIN rows /\ Evolves(rows, new)
      /\ \A i \in DOMAIN rows :
           /\ SameText(rows[i], new[i])
           /\ i \notin ids => new[i] = rows[i]
           /\ i \in ids => new[i].status = "retired"
  BY RetireRows DEF Maintained
<1>2. ids = Expired(rows) \cup (Episodes(rows) \ Kept(rows)) \cup Overflow(rows, EpisodeLimit)
  BY DEF Retirable
<1>3. Kept(rows) \subseteq Episodes(rows) /\ Episodes(rows) \subseteq DOMAIN rows
  BY DEF Kept, Episodes
<1> HIDE DEF ids
<1>4. Episodes(rows) \cap Expired(rows) = {}
  <2> SUFFICES ASSUME NEW i \in Episodes(rows) PROVE i \notin Expired(rows)
    OBVIOUS
  <2>1. /\ i \in DOMAIN rows /\ rows[i].scope = "task" /\ rows[i].source = "agent_runtime"
        /\ rows[i].status = "active"
    BY DEF Episodes, IsEpisode
  <2>2. rows[i].expires = "never"
    BY <2>1, RowAt DEF RowOK
  <2>3. Live(rows[i])
    BY <2>1, <2>2 DEF Live, OfTask
  <2> QED BY <2>3 DEF Expired
<1>5. ASSUME NEW i \in Episodes(new)
      PROVE  i \in Kept(rows) \ Overflow(rows, EpisodeLimit)
  <2>1. i \in DOMAIN rows /\ IsEpisode(new[i]) /\ new[i].status = "active"
    BY <1>1 DEF Episodes, IsEpisode
  <2>2. i \notin ids
    BY <1>1, <2>1
  <2>3. i \in Episodes(rows)
    BY <1>1, <2>1, <2>2 DEF Episodes
  <2> QED BY <1>2, <2>2, <2>3
<1>6. ASSUME NEW i \in Kept(rows) \ Overflow(rows, EpisodeLimit) PROVE i \in Episodes(new)
  <2>1. i \in Episodes(rows) /\ i \notin ids
    BY <1>2, <1>3, <1>4
  <2>2. new[i] = rows[i]
    BY <1>1, <1>3, <2>1
  <2> QED BY <1>1, <2>1, <2>2 DEF Episodes
<1> QED BY <1>5, <1>6

LEMMA MaintainedIsBounded ==
  ASSUME NEW rows, RowsOK(rows), NEW new, new = Maintained(rows)
  PROVE  Bounded(new)
BY MaintainedEpisodes, OverflowLeavesLimit DEF Bounded

LEMMA MaintainedText ==
  ASSUME NEW rows, RowsOK(rows), NEW new, new = Maintained(rows)
  PROVE  /\ RowsOK(new) /\ Len(new) = Len(rows) /\ DOMAIN new = DOMAIN rows
         /\ Evolves(rows, new) /\ \A i \in DOMAIN rows : SameText(rows[i], new[i])
         /\ \A i \in Episodes(new) : i \in DOMAIN rows /\ new[i].content = rows[i].content
<1>1. /\ RowsOK(new) /\ Len(new) = Len(rows) /\ DOMAIN new = DOMAIN rows
      /\ Evolves(rows, new) /\ \A i \in DOMAIN rows : SameText(rows[i], new[i])
  BY RetireRows DEF Maintained
<1>2. \A i \in Episodes(new) : i \in DOMAIN rows /\ new[i].content = rows[i].content
  BY <1>1 DEF Episodes, SameText
<1> QED BY <1>1, <1>2

LEMMA MaintainedIsDistinct ==
  ASSUME NEW rows, RowsOK(rows), NEW new, new = Maintained(rows)
  PROVE  Distinct(new)
<1> SUFFICES ASSUME NEW i \in Episodes(new), NEW j \in Episodes(new),
                    new[i].content = new[j].content, i # j
             PROVE  FALSE
  BY DEF Distinct
<1>1. i \in Kept(rows) /\ j \in Kept(rows)
  BY MaintainedEpisodes
<1>2. i \in DOMAIN rows /\ j \in DOMAIN rows /\ rows[i].content = rows[j].content
  BY MaintainedText
<1>3. i \in Nat /\ j \in Nat
  BY <1>2, RowAt
<1>4. i > j \/ j > i
  BY <1>3
<1> QED BY <1>1, <1>2, <1>4 DEF Kept

LEMMA MaintainedIsCovered ==
  ASSUME NEW rows, RowsOK(rows), NEW new, new = Maintained(rows),
         NEW i \in Episodes(rows), i \notin Episodes(new)
  PROVE  Covered(new, i)
<1> DEFINE Same == {j \in Episodes(rows) : rows[j].content = rows[i].content}
<1>1. Episodes(new) = Kept(rows) \ Overflow(rows, EpisodeLimit)
  BY MaintainedEpisodes
<1>2. Same \subseteq DOMAIN rows /\ i \in Same /\ i \in DOMAIN rows
  BY DEF Episodes
<1>3. IsFiniteSet(Same) /\ Same \subseteq Nat /\ i \in Nat
  BY <1>2, FiniteEpisodes, RowAt
<1>4. PICK k \in Same : \A j \in Same : j <= k
  <2> HIDE DEF Same
  <2> QED BY <1>2, <1>3, Largest
<1>5. k \in Nat /\ k >= i
  BY <1>2, <1>3, <1>4
<1>6. k \in Kept(rows)
  <2> SUFFICES ASSUME NEW j \in Episodes(rows), j > k
               PROVE  rows[j].content # rows[k].content
    BY <1>4 DEF Kept
  <2>1. j \in Nat
    BY RowAt DEF Episodes
  <2>2. j \notin Same
    BY <1>4, <1>5, <2>1
  <2> QED BY <1>4, <2>2
<1>7. new[i].content = rows[i].content /\ k \in DOMAIN rows /\ new[k].content = rows[k].content
  BY <1>2, <1>4, MaintainedText DEF SameText
<1>8. CASE k \notin Overflow(rows, EpisodeLimit)
  <2>1. k \in Episodes(new)
    BY <1>1, <1>6, <1>8
  <2>2. k > i
    BY <1>3, <1>5, <2>1
  <2> QED BY <1>4, <1>7, <2>1, <2>2 DEF Covered
<1>9. CASE k \in Overflow(rows, EpisodeLimit)
  <2> DEFINE A == {j \in Episodes(new) : j > k}
             B == {j \in Episodes(new) : j > i}
  <2>1. Cardinality(A) >= EpisodeLimit
    BY <1>1, <1>9, OverflowIsCovered
  <2>2. Episodes(new) \subseteq DOMAIN rows
    BY MaintainedText
  <2>3. A \subseteq B
    <3>1. ASSUME NEW j \in A PROVE j \in B
      <4>1. j \in DOMAIN rows /\ j > k
        BY <2>2
      <4>2. j \in Nat
        BY <4>1, RowAt
      <4> QED BY <1>3, <1>5, <4>1, <4>2
    <3> QED BY <3>1
  <2>4. IsFiniteSet(B) /\ IsFiniteSet(A) /\ Cardinality(A) \in Nat /\ Cardinality(B) \in Nat
    BY <2>2, FiniteEpisodes
  <2>5. Cardinality(A) <= Cardinality(B)
    BY <2>3, <2>4, FS_Subset
  <2>6. Cardinality(B) >= EpisodeLimit
    <3> HIDE DEF A, B
    <3> QED BY <2>1, <2>4, <2>5, ConstantsAssumption
  <2> QED BY <2>6 DEF Covered
<1> QED BY <1>8, <1>9

(***************************************************************************)
(* The commit of a run that answers                                         *)
(***************************************************************************)
Answered(s) ==
  /\ local[s].op = "completion"
  /\ \E rows : /\ BeforeMaintenance(mem, rows, local[s].promote)
               /\ mem' = Maintained(rows)

LEMMA CommitCompletionStep ==
  ASSUME MemInv, NEW s \in Sessions, CommitCompletion(s)
  PROVE  MemInv' /\ Answered(s)
<1> DEFINE l == local[s]
           stored == WithFact(WithOutcome(mem, l.run, l.outcome), l.promote)
           rows == Completed(stored, l.run)
<1>1. /\ l.op = "completion" /\ Len(stored) <= MaxMemories
      /\ \A i \in DOMAIN mem : mem[i].version < MaxVersion
      /\ mem' = Maintained(rows) /\ run' = [run EXCEPT ![l.run] = "over"]
      /\ local' = [local EXCEPT ![s] = Idle]
  BY DEF CommitCompletion
<1>2. l \in Local /\ PlanOK(s) /\ RowsOK(mem)
  BY DEF MemInv
<1>3. l.run \in Runs /\ l.outcome \in Contents \cup {None} /\ l.promote \in Contents \cup {None}
  BY <1>1, <1>2, LocalFields DEF PlanOK
<1>4. BeforeMaintenance(mem, rows, l.promote) /\ Len(rows) = Len(stored)
  <2>1. stored = WithFact(WithOutcome(mem, l.run, l.outcome), l.promote)
    OBVIOUS
  <2>2. rows = Completed(stored, l.run)
    OBVIOUS
  <2> HIDE DEF rows, stored, l
  <2>3. BeforeMaintenance(mem, rows, l.promote)
    BY <1>1, <1>2, <1>3, <2>1, <2>2, CompletedRows, Zenon
  <2>4. Len(rows) = Len(stored)
    BY <1>1, <1>2, <1>3, <2>1, <2>2, CompletedRows, SMT
  <2> QED BY <2>3, <2>4
<1> HIDE DEF rows, stored
<1>5. RowsOK(rows) /\ Evolves(mem, rows)
  BY <1>4 DEF BeforeMaintenance
<1>6. RowsOK(mem') /\ Len(mem') = Len(rows) /\ Evolves(rows, mem')
  BY <1>1, <1>5, MaintainedText
<1>7. Evolves(mem, mem')
  BY <1>2, <1>5, <1>6, EvolvesOn
<1>8. run' \in [Runs -> {"running", "over"}] /\ Len(mem') <= MaxMemories
  BY <1>1, <1>4, <1>6 DEF MemInv
<1>9. MemInv'
  BY <1>1, <1>6, <1>7, <1>8, Leaves
<1>10. Answered(s)
  BY <1>1, <1>4 DEF Answered
<1> QED BY <1>9, <1>10

(***************************************************************************)
(* Every step, and the theorems                                             *)
(***************************************************************************)
LEMMA Step ==
  ASSUME MemInv, [Next]_vars
  PROVE  MemInv' /\ (Quiet \/ \E s \in Sessions : Answered(s))
<1>1. CASE UNCHANGED vars
  <2>1. UNCHANGED <<mem, run, local>>
    BY <1>1 DEF vars
  <2>2. RowsOK(mem) /\ Evolves(mem, mem') /\ NoEpisodeAdded(mem, mem') /\ Len(mem) <= MaxMemories
    BY <2>1, MemRows, NoRowChanges
  <2> QED BY <2>1, <2>2, RowsOnly DEF Quiet, SameText
<1>2. CASE UserStep
  <2>1. CASE \E key \in UserKeys, scope \in {"contract", "task", "run"}, r \in Runs \cup {None},
                content \in Contents : CreateMemory(key, scope, r, content)
    BY <2>1, CreateMemoryStep
  <2>2. CASE \E i \in DOMAIN mem : Expire(i)
    BY <2>2, ExpireStep
  <2>3. CASE \E type \in {"fact", "episodic"}, content \in Contents, judgement \in Judgement :
               EvaluateUserInput(type, content, judgement)
    BY <2>3, EvaluateUserInputStep
  <2>4. ASSUME NEW s \in Sessions,
               \/ \E i \in DOMAIN mem : LoadRetire(s, i)
               \/ LoadTaskEnd(s)
        PROVE  MemInv' /\ Quiet
    <3>1. \E ids \in SUBSET DOMAIN mem : LoadRetirement(s, ids)
      <4>1. ASSUME NEW i \in DOMAIN mem, LoadRetire(s, i)
            PROVE  \E ids \in SUBSET DOMAIN mem : LoadRetirement(s, ids)
        BY <4>1 DEF LoadRetire
      <4>2. ASSUME LoadTaskEnd(s)
            PROVE  \E ids \in SUBSET DOMAIN mem : LoadRetirement(s, ids)
        <5> DEFINE ids == {i \in ActiveWorking(mem) : OfTask(mem[i])}
        <5>1. ids \in SUBSET DOMAIN mem
          BY DEF ActiveWorking
        <5>2. LoadRetirement(s, ids)
          BY <4>2 DEF LoadTaskEnd
        <5> HIDE DEF ids
        <5> QED BY <5>1, <5>2
      <4> QED BY <2>4, <4>1, <4>2
    <3> QED BY <3>1, LoadRetireStep
  <2>5. ASSUME NEW s \in Sessions, CommitRetirement(s) PROVE MemInv' /\ Quiet
    BY <2>5, CommitRetirementStep
  <2>6. ASSUME NEW s \in Sessions, NEW old \in SUBSET Purgeable(mem), NEW limit \in 1..EpisodeLimit,
               LoadMaintenance(s, old, limit)
        PROVE  MemInv' /\ Quiet
    BY <2>6, LoadMaintenanceStep
  <2>7. ASSUME NEW s \in Sessions, CommitMaintenance(s) PROVE MemInv' /\ Quiet
    BY <2>7, CommitMaintenanceStep
  <2> QED BY <1>2, <2>1, <2>2, <2>3, <2>4, <2>5, <2>6, <2>7, Zenon DEF UserStep
<1>3. CASE RunStep
  <2>1. CASE \E r \in Runs, content \in Contents : CaptureWorking(r, content)
    BY <2>1, CaptureWorkingStep
  <2>2. ASSUME NEW s \in Sessions, NEW r \in Runs, LoadRunEnd(s, r) PROVE MemInv' /\ Quiet
    BY <2>2, LoadRunEndStep
  <2>3. ASSUME NEW s \in Sessions, CommitRunEnd(s) PROVE MemInv' /\ Quiet
    BY <2>3, CommitRunEndStep
  <2>4. ASSUME NEW s \in Sessions, NEW r \in Runs, NEW answer \in Contents,
               NEW sound \in BOOLEAN, NEW matches \in BOOLEAN,
               LoadCompletion(s, r, answer, sound, matches)
        PROVE  MemInv' /\ Quiet
    BY <2>4, LoadCompletionStep
  <2>5. ASSUME NEW s \in Sessions, CommitCompletion(s) PROVE MemInv' /\ Answered(s)
    BY <2>5, CommitCompletionStep
  <2>6. ASSUME NEW s \in Sessions, Abandon(s) PROVE MemInv' /\ Quiet
    BY <2>6, AbandonStep
  <2> QED BY <1>3, <2>1, <2>2, <2>3, <2>4, <2>5, <2>6, Zenon DEF RunStep
<1> QED BY <1>1, <1>2, <1>3 DEF Next

\* The strengthened invariant: each row is whole or purged, and what a session is about
\* to purge or to retire is of the kind that its operation may touch.
THEOREM Invariant == Spec => []MemInv
<1>1. MemInv /\ [Next]_vars => MemInv'
  BY Step
<1> QED BY InitMemInv, <1>1, PTL DEF Spec

\* The rows, the runs and what the sessions loaded stay well formed.
THEOREM TypeCorrect == Spec => []TypeOK
<1>1. MemInv => TypeOK
  BY DEF MemInv, RowsOK, TypeOK
<1> QED BY Invariant, <1>1, PTL

\* supersede_memory: a row that is not purged has one open revision, the current one.
THEOREM OneOpenRevisionHolds == Spec => []OneOpenRevision
<1>1. MemInv => OneOpenRevision
  BY DEF MemInv, RowsOK, RowOK, Whole, OneOpenRevision
<1> QED BY Invariant, <1>1, PTL

\* maintain_task_memories: what is purged was retired and leaves no text behind.
THEOREM PurgeIsCompleteHolds == Spec => []PurgeIsComplete
<1>1. MemInv => PurgeIsComplete
  BY DEF MemInv, RowsOK, RowOK, PurgedRow, PurgeIsComplete
<1> QED BY Invariant, <1>1, PTL

\* A run that answers: rows that maintenance then works on.
LEMMA AnsweredRows ==
  ASSUME MemInv, MemInv', NEW s \in Sessions, Answered(s)
  PROVE  \E rows : /\ BeforeMaintenance(mem, rows, local[s].promote)
                  /\ mem' = Maintained(rows)
                  /\ RowsOK(rows) /\ Evolves(mem, mem') /\ DOMAIN mem' = DOMAIN rows
                  /\ \A i \in DOMAIN rows : SameText(rows[i], mem'[i])
<1>1. PICK rows : BeforeMaintenance(mem, rows, local[s].promote) /\ mem' = Maintained(rows)
  BY DEF Answered
<1>2. RowsOK(rows) /\ Evolves(mem, rows) /\ RowsOK(mem)
  BY <1>1, MemRows DEF BeforeMaintenance
<1>3. /\ RowsOK(mem') /\ DOMAIN mem' = DOMAIN rows /\ Evolves(rows, mem')
      /\ \A i \in DOMAIN rows : SameText(rows[i], mem'[i])
  BY <1>1, <1>2, MaintainedText
<1>4. Evolves(mem, mem')
  BY <1>2, <1>3, EvolvesOn
<1> QED BY <1>1, <1>2, <1>3, <1>4

LEMMA RowsEvolve ==
  ASSUME MemInv, [Next]_vars
  PROVE  Evolves(mem, mem')
<1>1. MemInv' /\ (Quiet \/ \E s \in Sessions : Answered(s))
  BY Step
<1> QED BY <1>1, AnsweredRows DEF Quiet

\* No late commit, of whatever session, brings a retired memory back or rewrites it.
THEOREM RetiredIsFinalHolds == Spec => RetiredIsFinal
<1>1. MemInv /\ [Next]_vars =>
        [\A i \in DOMAIN mem : mem[i].status = "retired" =>
           /\ mem'[i].status = "retired" /\ mem'[i].version = mem[i].version
           /\ mem'[i].content \in {mem[i].content, Purged}
           /\ mem[i].cleaned => mem'[i] = mem[i]]_vars
  BY RowsEvolve DEF Evolves, RowStep
<1> QED BY Invariant, <1>1, PTL DEF Spec, RetiredIsFinal

\* _can_auto_supersede: the only text that changes is that of the fact which a run that
\* answers stores, and with a new version.
THEOREM RewritesAreTrustedHolds == Spec => RewritesAreTrusted
<1> DEFINE Trusted == \A i \in DOMAIN mem :
                        mem[i].status = "active" /\ mem'[i].content # mem[i].content =>
                          /\ mem[i].key = DemandKey /\ mem'[i].source = "tool"
                          /\ mem'[i].version = mem[i].version + 1
                          /\ \E s \in Sessions : /\ local[s].op = "completion"
                                                 /\ local[s].promote = mem'[i].content
<1>1. ASSUME MemInv, [Next]_vars PROVE Trusted
  <2> SUFFICES ASSUME NEW i \in DOMAIN mem, mem[i].status = "active",
                      mem'[i].content # mem[i].content
               PROVE  /\ mem[i].key = DemandKey /\ mem'[i].source = "tool"
                      /\ mem'[i].version = mem[i].version + 1
                      /\ \E s \in Sessions : /\ local[s].op = "completion"
                                             /\ local[s].promote = mem'[i].content
    OBVIOUS
  <2>1. MemInv' /\ (Quiet \/ \E s \in Sessions : Answered(s))
    BY <1>1, Step
  <2>2. ~Quiet
    BY DEF Quiet, SameText
  <2>3. PICK s \in Sessions : Answered(s)
    BY <2>1, <2>2
  <2>4. PICK rows : /\ BeforeMaintenance(mem, rows, local[s].promote)
                    /\ RowsOK(rows)
                    /\ \A k \in DOMAIN rows : SameText(rows[k], mem'[k])
    BY <1>1, <2>1, <2>3, AnsweredRows
  <2>5. i \in DOMAIN rows
    BY <1>1, <2>4, MemRows DEF BeforeMaintenance, Evolves, RowsOK
  <2>6. \/ SameText(mem[i], rows[i])
        \/ Rewrites(mem[i], rows[i], DemandKey, "tool", local[s].promote)
    BY <2>4 DEF BeforeMaintenance
  <2>7. SameText(rows[i], mem'[i])
    BY <2>4, <2>5
  <2>8. Rewrites(mem[i], rows[i], DemandKey, "tool", local[s].promote)
    BY <2>6, <2>7 DEF SameText
  <2>9. local[s].op = "completion"
    BY <2>3 DEF Answered
  <2> QED BY <2>7, <2>8, <2>9 DEF SameText, Rewrites
<1>2. MemInv /\ [Next]_vars => [Trusted]_vars
  BY <1>1
<1> QED BY Invariant, <1>2, PTL DEF Spec, RewritesAreTrusted

(***************************************************************************)
(* Episodes                                                                 *)
(***************************************************************************)
EpisodeInv == Bounded(mem) /\ Distinct(mem)

LEMMA InitEpisodes == Init => EpisodeInv
<1> SUFFICES ASSUME Init PROVE EpisodeInv
  OBVIOUS
<1>1. Episodes(mem) = {}
  BY DEF Init, Episodes
<1> QED BY <1>1, FS_EmptySet, ConstantsAssumption DEF EpisodeInv, Bounded, Distinct

LEMMA QuietEpisodes ==
  ASSUME MemInv, MemInv', EpisodeInv, Quiet
  PROVE  EpisodeInv'
<1>1. /\ Evolves(mem, mem') /\ NoEpisodeAdded(mem, mem') /\ RowsOK(mem)
      /\ Episodes(mem) \subseteq DOMAIN mem
  BY MemRows DEF Quiet, Episodes
<1>2. \A i \in Episodes(mem') : i \in Episodes(mem) /\ mem'[i].content = mem[i].content
  BY <1>1 DEF Evolves, NoEpisodeAdded, RowStep, Episodes
<1>3. IsFiniteSet(Episodes(mem)) /\ Cardinality(Episodes(mem)) \in Nat
  BY <1>1, FiniteEpisodes
<1>4. Episodes(mem') \in SUBSET Episodes(mem)
  BY <1>2
<1>5. /\ Cardinality(Episodes(mem')) <= Cardinality(Episodes(mem))
      /\ Cardinality(Episodes(mem')) \in Nat
  BY <1>3, <1>4, FS_Subset, FS_CardinalityType
<1>6. Bounded(mem')
  BY <1>3, <1>5, ConstantsAssumption DEF EpisodeInv, Bounded
<1>7. Distinct(mem')
  BY <1>2 DEF EpisodeInv, Distinct
<1> QED BY <1>6, <1>7 DEF EpisodeInv

LEMMA EpisodeStep == MemInv /\ EpisodeInv /\ [Next]_vars => EpisodeInv'
<1> SUFFICES ASSUME MemInv, EpisodeInv, [Next]_vars PROVE EpisodeInv'
  OBVIOUS
<1>1. MemInv' /\ (Quiet \/ \E s \in Sessions : Answered(s))
  BY Step
<1>2. CASE Quiet
  BY <1>1, <1>2, QuietEpisodes
<1>3. CASE \E s \in Sessions : Answered(s)
  <2>1. PICK rows : RowsOK(rows) /\ mem' = Maintained(rows)
    BY <1>1, <1>3, AnsweredRows
  <2> QED BY <2>1, MaintainedIsBounded, MaintainedIsDistinct DEF EpisodeInv
<1> QED BY <1>1, <1>2, <1>3

\* _complete_run: the active episodes of the task never exceed the limit.
THEOREM EpisodesBoundedHolds == Spec => []EpisodesBounded
<1>1. EpisodeInv => EpisodesBounded
  BY DEF EpisodeInv, Bounded, EpisodesBounded
<1> QED BY Invariant, InitMemInv, InitEpisodes, EpisodeStep, <1>1, PTL DEF Spec

\* Consolidation: no two active episodes of the runtime say the same.
THEOREM NoDuplicateEpisodesHolds == Spec => []NoDuplicateEpisodes
<1>1. EpisodeInv => NoDuplicateEpisodes
  BY DEF EpisodeInv, Distinct, NoDuplicateEpisodes
<1> QED BY Invariant, InitMemInv, InitEpisodes, EpisodeStep, <1>1, PTL DEF Spec

\* The maintenance of a completing run retires an episode only for a newer one with the
\* same text, or for EpisodeLimit newer ones, that stay active.
THEOREM RetiredEpisodesAreCoveredHolds == Spec => RetiredEpisodesAreCovered
<1> DEFINE Retires(i) == /\ run' # run
                         /\ mem'[i].source = "agent_runtime" /\ mem'[i].status = "retired"
                         /\ i \in DOMAIN mem => mem[i].status = "active"
<1>1. ASSUME MemInv, [Next]_vars, NEW i \in DOMAIN mem', Retires(i)
      PROVE  Covered(mem', i)
  <2>1. MemInv' /\ (Quiet \/ \E s \in Sessions : Answered(s))
    BY <1>1, Step
  <2>2. RowsOK(mem') /\ RowOK(mem'[i])
    BY <1>1, <2>1 DEF MemInv, RowsOK
  <2>3. mem'[i].key.type = "episodic" /\ mem'[i].scope = "task"
    BY <1>1, <2>2 DEF RowOK
  <2>4. ~Quiet
    <3> SUFFICES ASSUME Quiet PROVE FALSE
      OBVIOUS
    <3>1. i \in DOMAIN mem /\ mem[i].status = "active" /\ mem[i].key.type = "working"
      BY <1>1 DEF Quiet
    <3>2. mem'[i].key = mem[i].key
      BY <3>1 DEF Quiet, Evolves, RowStep
    <3> QED BY <2>3, <3>1, <3>2
  <2>5. PICK s \in Sessions : Answered(s)
    BY <2>1, <2>4
  <2>6. PICK rows : /\ BeforeMaintenance(mem, rows, local[s].promote)
                    /\ mem' = Maintained(rows) /\ RowsOK(rows)
                    /\ DOMAIN mem' = DOMAIN rows
                    /\ \A k \in DOMAIN rows : SameText(rows[k], mem'[k])
    BY <1>1, <2>1, <2>5, AnsweredRows
  <2>7. rows[i].source = "agent_runtime"
    BY <1>1, <2>6 DEF SameText
  <2>8. rows[i].status = "active"
    BY <1>1, <2>6, <2>7 DEF BeforeMaintenance
  <2>9. rows[i].key.type = "episodic" /\ rows[i].scope = "task"
    BY <1>1, <2>6, <2>7, RowAt DEF RowOK
  <2>10. i \in Episodes(rows)
    BY <1>1, <2>6, <2>7, <2>8, <2>9 DEF Episodes, IsEpisode
  <2>11. i \notin Episodes(mem')
    BY <1>1 DEF Episodes, IsEpisode
  <2> QED BY <2>6, <2>10, <2>11, MaintainedIsCovered
<1>2. MemInv /\ [Next]_vars =>
        [\A i \in DOMAIN mem' :
           LET newer == {j \in Episodes(mem') : j > i}
           IN  (/\ run' # run
                /\ mem'[i].source = "agent_runtime" /\ mem'[i].status = "retired"
                /\ i \in DOMAIN mem => mem[i].status = "active")
               => \/ \E j \in newer : mem'[j].content = mem'[i].content
                  \/ Cardinality(newer) >= EpisodeLimit]_vars
  BY <1>1 DEF Covered
<1> QED BY Invariant, <1>2, PTL DEF Spec, RetiredEpisodesAreCovered
=============================================================================
