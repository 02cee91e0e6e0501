---------------------------- MODULE MemoryLifecycle ----------------------------
(***************************************************************************)
(* The memories of one AgentTask: who writes them, how a fact gets a new   *)
(* version, how they retire, are consolidated and are purged.              *)
(*                                                                         *)
(* A handler reads without a lock.  Its first write takes SQLite's write   *)
(* lock and keeps it until the commit, and what it reads in between is     *)
(* the database as it is.  So a handler that writes something it read      *)
(* before that first write is two actions, Load... and Commit..., and      *)
(* other handlers run between them.                                        *)
(***************************************************************************)
EXTENDS Integers, Sequences, FiniteSets

CONSTANTS Sessions,      \* API requests and executions of AgentRuns
          Runs,          \* AgentRuns of the task
          Contents,      \* texts, up to normalisation
          EpisodeLimit,  \* default episode_limit of maintain_task_memories
          MaxMemories,   \* bound: rows
          MaxUserRows,   \* bound: rows created from requests, not by runs
          MaxVersion,    \* bound: versions of the fact
          MaxCandidates, \* bound: accepted user inputs for one row
          None,          \* NULL
          Purged         \* "[retired payload purged]"

ASSUME ConstantsAssumption ==
  /\ EpisodeLimit \in Nat \ {0} /\ MaxMemories \in Nat
  /\ MaxUserRows \in Nat /\ MaxVersion \in Nat \ {0} /\ MaxCandidates \in Nat
  /\ None \notin Runs \cup Contents /\ Purged \notin Contents

VARIABLES mem,    \* agent_memories with revisions and candidates, by id
          run,    \* AgentRun.status: "running" or "over" (completed, max_steps, failed)
          local   \* what each session loaded and is about to commit

vars == <<mem, run, local>>

-----------------------------------------------------------------------------
(* Rows.  `of` tells the keys of one type apart: the run in                *)
(* agent-run:{id}:..., "demand" in task:{id}:skill-demand, "input" in the   *)
(* keys of user input, "note" in a key that a user chose.                  *)

Key == [type : {"fact", "episodic", "working"},
        of : Runs \cup {"demand", "input", "note"}]

OutcomeKey(r) == [type |-> "episodic", of |-> r]
WorkingKey(r) == [type |-> "working", of |-> r]
DemandKey == [type |-> "fact", of |-> "demand"]

Revision == [content : Contents, open : BOOLEAN]   \* open: valid_to is NULL

\* cleaned: has a MemoryCleanupRecord; payloads: how many MemoryCandidateRecords of the
\* row hold a text.
Row == [key : Key, source : {"user", "agent_runtime", "tool", "user_input"},
        scope : {"contract", "task", "run"}, run : Runs \cup {None},
        content : Contents \cup {Purged}, status : {"active", "retired"},
        expires : {"never", "later", "passed"},
        cleaned : BOOLEAN, version : 1..MaxVersion, revs : Seq(Revision),
        payloads : Nat]

NewRow(key, source, scope, r, content, expires, payloads) ==
  [key |-> key, source |-> source, scope |-> scope, run |-> r, content |-> content,
   status |-> "active", expires |-> expires,
   cleaned |-> FALSE, version |-> 1, revs |-> <<[content |-> content, open |-> TRUE]>>,
   payloads |-> payloads]

\* Rows with this task's task_id; a runtime working memory has its run_id only.
OfTask(m) == m.scope = "task" \/ (m.scope = "run" /\ m.source = "user")

IsEpisode(m) ==
  /\ m.key.type = "episodic" /\ m.source = "agent_runtime" /\ m.scope = "task"
  /\ m.status = "active"

Stored(rows, key) == {i \in DOMAIN rows : rows[i].key = key}   \* at most one: UNIQUE

\* _find_duplicate, for a candidate of scope "task": a row of any status counts.
IsDuplicate(rows, type, content) ==
  \E i \in DOMAIN rows : /\ rows[i].key.type = type /\ rows[i].scope = "task"
                         /\ rows[i].content = content

Episodes(rows) == {i \in DOMAIN rows : IsEpisode(rows[i])}

-----------------------------------------------------------------------------
(* Retirement, versions and retention *)

Retire(rows, ids) ==
  [i \in DOMAIN rows |->
     IF i \in ids THEN [rows[i] EXCEPT !.status = "retired"] ELSE rows[i]]

Supersede_OldStaysOpen(m, content) ==
  [m EXCEPT !.version = @ + 1, !.content = content, !.source = "tool",
            !.payloads = @ + 1,
            !.revs = Append(@, [content |-> content, open |-> TRUE])]

Supersede(m, content) ==
  [m EXCEPT !.version = @ + 1, !.content = content, !.source = "tool",
            !.payloads = @ + 1,
            !.revs = Append([@ EXCEPT ![m.version].open = FALSE],
                            [content |-> content, open |-> TRUE])]

CanAutoSupersede_AnyStatus(m, key, source) ==
  key.type = "fact" /\ source = "tool" /\ m.scope = "task"

CanAutoSupersede_AnySource(m, key, source) ==
  m.status = "active" /\ key.type = "fact" /\ m.scope = "task"

CanAutoSupersede(m, key, source) ==   \* the candidate has scope "task" and this task's id
  m.status = "active" /\ key.type = "fact" /\ source = "tool" /\ m.scope = "task"

\* A candidate of scope "task" that the rules and, for user input, the semantic
\* judgement accept.
Store(rows, key, source, content) ==
  IF Stored(rows, key) = {}
  THEN IF IsDuplicate(rows, key.type, content) THEN rows
       ELSE Append(rows, NewRow(key, source, "task", None, content, "never", 1))
  ELSE [i \in DOMAIN rows |->
          CASE rows[i].key = key /\ rows[i].content = content ->
                 [rows[i] EXCEPT !.payloads = @ + 1]   \* already_stored
            [] /\ rows[i].key = key /\ rows[i].content # content
               /\ CanAutoSupersede(rows[i], key, source) ->
                 Supersede(rows[i], content)
            [] OTHER -> rows[i]]

\* The plan of maintain_task_memories: live rows whose time has passed, episodes with
\* the text of a newer one, and of the rest all but the newest `limit`.
Live(m) == OfTask(m) /\ m.status = "active" /\ m.expires # "passed"
Expired(rows) ==
  {i \in DOMAIN rows : OfTask(rows[i]) /\ rows[i].status = "active" /\ ~Live(rows[i])}
Kept_AllDuplicatesGo(rows) ==
  {i \in Episodes(rows) : \A j \in Episodes(rows) : j # i => rows[j].content # rows[i].content}
Kept(rows) ==
  {i \in Episodes(rows) : \A j \in Episodes(rows) : j > i => rows[j].content # rows[i].content}
Overflow(rows, limit) ==
  {i \in Kept(rows) : Cardinality({j \in Kept(rows) : j > i}) >= limit}

Retirable_NoConsolidation(rows, limit) == Expired(rows) \cup Overflow(rows, limit)
Retirable(rows, limit) ==
  Expired(rows) \cup (Episodes(rows) \ Kept(rows)) \cup Overflow(rows, limit)

Purgeable(rows) ==
  {i \in DOMAIN rows : /\ OfTask(rows[i]) /\ rows[i].status = "retired"
                       /\ rows[i].key.type # "fact" /\ ~rows[i].cleaned}

PurgeOne_KeepsCandidates(m, seen) ==
  [m EXCEPT !.content = Purged, !.revs = <<>>, !.cleaned = TRUE]

PurgeOne_RedactsRevisions(m, seen) ==
  [m EXCEPT !.content = Purged, !.cleaned = TRUE, !.payloads = @ - seen,
            !.revs = [k \in DOMAIN @ |-> [content |-> Purged, open |-> FALSE]]]

\* Of the candidate records, those are purged that were `seen` by the SELECT before the
\* flush.
PurgeOne(m, seen) ==
  [m EXCEPT !.content = Purged, !.revs = <<>>, !.cleaned = TRUE, !.payloads = @ - seen]

Purge(rows, ids, seen) ==
  [i \in DOMAIN rows |-> IF i \in ids THEN PurgeOne(rows[i], seen[i]) ELSE rows[i]]

-----------------------------------------------------------------------------
(* Sessions *)

Ops == {"idle", "retire", "run_end", "completion", "maintenance"}

\* outcome: the answer to keep as an episode; promote: the fact to store; seen: the
\* candidate records that a purge has read, by row.
Local == [op : Ops, run : Runs \cup {None}, retire : SUBSET (1..MaxMemories),
          clean : SUBSET (1..MaxMemories), seen : [1..MaxMemories -> Nat], outcome : Contents \cup {None},
          promote : Contents \cup {None}]

Idle == [op |-> "idle", run |-> None, retire |-> {}, clean |-> {},
         seen |-> [i \in 1..MaxMemories |-> 0],
         outcome |-> None, promote |-> None]

Init ==
  /\ mem = <<>>
  /\ run = [r \in Runs |-> "running"]
  /\ local = [s \in Sessions |-> Idle]

CanLoad(s) == local[s].op = "idle"
MayCreate ==
  /\ Len(mem) < MaxMemories
  /\ Cardinality({i \in DOMAIN mem : mem[i].source \in {"user", "user_input"}}) < MaxUserRows
Executed(r) == run[r] = "running" /\ \A s \in Sessions : local[s].run # r   \* by one session

ActiveWorking(rows) ==
  {i \in DOMAIN rows : rows[i].key.type = "working" /\ rows[i].status = "active"}

-----------------------------------------------------------------------------
(* User requests and the clock *)

\* POST /agent/memories; a key that exists is refused (409).  The request names its source
\* freely; assumed: nobody names "agent_runtime", the source of the runtime's episodes.  Of the users' own keys only
\* a working note matters here: their facts and episodes are like EvaluateUserInput's.
UserKeys == {[type |-> "working", of |-> "note"], DemandKey}

\* resolve_memory_scope
ValidScope(type, scope, r) ==
  /\ scope = "contract" => type # "working"
  /\ scope = "run" => type = "working"
  /\ scope = "run" <=> r # None

CreateMemory(key, scope, r, content) ==
  /\ ValidScope(key.type, scope, r)
  /\ MayCreate
  /\ Stored(mem, key) = {}
  /\ mem' = Append(mem, NewRow(key, "user", scope, r, content, "later", 0))
  /\ UNCHANGED <<run, local>>

Expire(i) ==   \* of the rows that maintenance looks at; a row that never expires waits forever
  /\ mem[i].expires = "later" /\ mem[i].status = "active" /\ OfTask(mem[i])
  /\ mem' = [mem EXCEPT ![i].expires = "passed"]
  /\ UNCHANGED <<run, local>>

\* retire_agent_memory, and update_agent_task to completed or cancelled
LoadRetirement(s, ids) ==
  /\ CanLoad(s)
  /\ local' = [local EXCEPT ![s] = [Idle EXCEPT !.op = "retire", !.retire = ids]]
  /\ UNCHANGED <<mem, run>>

LoadRetire(s, i) == mem[i].status = "active" /\ LoadRetirement(s, {i})

LoadTaskEnd(s) ==
  LET ids == {i \in ActiveWorking(mem) : OfTask(mem[i])}
  IN  ids # {} /\ LoadRetirement(s, ids)

CommitRetirement(s) ==
  /\ local[s].op = "retire"
  /\ mem' = Retire(mem, local[s].retire)
  /\ local' = [local EXCEPT ![s] = Idle]
  /\ UNCHANGED run

\* maintain_agent_memories, not a dry run.  `clean`: the rows that retired at least
\* retention_days ago, none without `purge`.  The candidate records of a row to
\* purge are read here too: the first write is the flush at the end.
LoadMaintenance(s, clean, limit) ==
  LET retire == Retirable(mem, limit)
  IN  /\ CanLoad(s)
      /\ retire \cup clean # {}
      /\ local' = [local EXCEPT ![s] = [Idle EXCEPT
             !.op = "maintenance", !.retire = retire,
             !.clean = clean,
             !.seen = [i \in 1..MaxMemories |-> IF i \in clean THEN mem[i].payloads ELSE 0]]]
      /\ UNCHANGED <<mem, run>>

\* MemoryCleanupRecord.memory_id is unique: if another request purged one of them in
\* the meantime, nothing is stored.
CommitMaintenance(s) ==
  /\ local[s].op = "maintenance"
  /\ mem' = IF \E i \in local[s].clean : mem[i].cleaned THEN mem
            ELSE Purge(Retire(mem, local[s].retire), local[s].clean, local[s].seen)
  /\ local' = [local EXCEPT ![s] = Idle]
  /\ UNCHANGED run

-----------------------------------------------------------------------------
(* Candidates *)

\* What a semantic evaluator answers; objection: the first that _apply_semantic_result,
\* in its order, finds in the answer.
ForReview == {"failed", "unknown_ids", "other_type", "conflict"}
Judgement == [objection : ForReview \cup {"none", "duplicate", "low_value"},
              decision : {"accept", "reject", "needs_review"}]

Semantic(j) ==
  CASE j.objection \in ForReview -> "needs_review"
    [] j.objection \in {"duplicate", "low_value"} -> "reject"
    [] j.objection = "none" -> j.decision

\* evaluate_free_text_candidates: the trace it refers to is written first, so the
\* evaluation runs under the write lock.
EvaluateUserInput(type, content, judgement) ==
  /\ Semantic(judgement) = "accept"
  /\ MayCreate \/ Stored(mem, [type |-> type, of |-> "input"]) # {}
  /\ \A i \in Stored(mem, [type |-> type, of |-> "input"]) : mem[i].payloads < MaxCandidates
  /\ mem' = Store(mem, [type |-> type, of |-> "input"], "user_input", content)
  /\ UNCHANGED <<run, local>>

\* evaluate_and_store_tool_working_memory, for the first skill demand that run r observes
CaptureWorking(r, content) ==
  /\ Len(mem) < MaxMemories
  /\ Executed(r)
  /\ Stored(mem, WorkingKey(r)) = {}
  /\ mem' = Append(mem, NewRow(WorkingKey(r), "tool", "run", r, content, "never", 1))
  /\ UNCHANGED <<run, local>>

-----------------------------------------------------------------------------
(* The end of a run *)

\* _stop_at_limit, _mark_failed
LoadRunEnd(s, r) ==
  /\ CanLoad(s) /\ Executed(r)
  /\ local' = [local EXCEPT ![s] =
       [Idle EXCEPT !.op = "run_end", !.run = r,
                    !.retire = {i \in ActiveWorking(mem) : mem[i].run = r}]]
  /\ UNCHANGED <<mem, run>>

CommitRunEnd(s) ==
  /\ local[s].op = "run_end"
  /\ mem' = Retire(mem, local[s].retire)
  /\ run' = [run EXCEPT ![local[s].run] = "over"]
  /\ local' = [local EXCEPT ![s] = Idle]

\* The candidates of a run that answers, and the check of the first of them.  `sound`:
\* the rules find nothing against the answer.  The working result of the run promotes to
\* the fact while it is active and its step is the newest successful one (`matches`).
Promoted(r) ==
  {mem[i].content : i \in {k \in Stored(mem, WorkingKey(r)) : mem[k].status = "active"}}

LoadCompletion(s, r, answer, sound, matches) ==
  /\ CanLoad(s) /\ Executed(r)
  /\ \E promote \in IF matches /\ Promoted(r) # {} THEN Promoted(r) ELSE {None} :
       local' = [local EXCEPT ![s] =
         [Idle EXCEPT !.op = "completion", !.run = r, !.promote = promote,
                      !.outcome = IF sound /\ ~IsDuplicate(mem, "episodic", answer)
                                  THEN answer ELSE None]]
  /\ UNCHANGED <<mem, run>>

\* The rest of _complete_run: store the outcome, store the fact, retire the run's
\* working memories, maintain the task's memories.
WithOutcome(rows, r, outcome) ==
  IF outcome = None THEN rows
  ELSE Append(rows, NewRow(OutcomeKey(r), "agent_runtime", "task", None, outcome,
                           "never", 1))
WithFact(rows, promote) ==
  IF promote = None THEN rows ELSE Store(rows, DemandKey, "tool", promote)
Completed(rows, r) ==
  Retire(rows, {i \in ActiveWorking(rows) : rows[i].run = r})
Maintained(rows) == Retire(rows, Retirable(rows, EpisodeLimit))

CommitCompletion(s) ==
  LET l == local[s]
      stored == WithFact(WithOutcome(mem, l.run, l.outcome), l.promote)
  IN  /\ l.op = "completion"
      /\ Len(stored) <= MaxMemories
      /\ \A i \in DOMAIN mem : mem[i].version < MaxVersion
      /\ mem' = Maintained(Completed(stored, l.run))
      /\ run' = [run EXCEPT ![l.run] = "over"]
      /\ local' = [local EXCEPT ![s] = Idle]

\* A request or a process dies before its commit; nothing of it is stored, and a run is
\* executed again.
Abandon(s) ==
  /\ local[s].op # "idle"
  /\ local' = [local EXCEPT ![s] = Idle]
  /\ UNCHANGED <<mem, run>>

-----------------------------------------------------------------------------
UserStep ==
  \/ \E key \in UserKeys, scope \in {"contract", "task", "run"}, r \in Runs \cup {None},
        content \in Contents : CreateMemory(key, scope, r, content)
  \/ \E i \in DOMAIN mem : Expire(i)
  \/ \E type \in {"fact", "episodic"}, content \in Contents, judgement \in Judgement :
       EvaluateUserInput(type, content, judgement)
  \/ \E s \in Sessions :
       \/ \E i \in DOMAIN mem : LoadRetire(s, i)
       \/ LoadTaskEnd(s)
       \/ CommitRetirement(s)
       \/ \E clean \in SUBSET Purgeable(mem), limit \in 1..EpisodeLimit :
            LoadMaintenance(s, clean, limit)
       \/ CommitMaintenance(s)

RunStep ==
  \/ \E r \in Runs, content \in Contents : CaptureWorking(r, content)
  \/ \E s \in Sessions :
       \/ \E r \in Runs : LoadRunEnd(s, r)
       \/ CommitRunEnd(s)
       \/ \E r \in Runs, answer \in Contents, sound, matches \in BOOLEAN :
            LoadCompletion(s, r, answer, sound, matches)
       \/ CommitCompletion(s)
       \/ Abandon(s)

Next == UserStep \/ RunStep

Spec == Init /\ [][Next]_vars

-----------------------------------------------------------------------------
(* Properties *)

\* The rows, the runs and what the sessions loaded are well formed.
TypeOK ==
  /\ mem \in Seq(Row) /\ Len(mem) <= MaxMemories
  /\ run \in [Runs -> {"running", "over"}]
  /\ local \in [Sessions -> Local]

\* supersede_memory with whoever else changes the row: until a row is purged it has one
\* revision for every version, of which only the current one is open, with its text.
OneOpenRevision ==
  \A i \in DOMAIN mem : ~mem[i].cleaned =>
    /\ Len(mem[i].revs) = mem[i].version
    /\ \A k \in DOMAIN mem[i].revs : mem[i].revs[k].open <=> k = mem[i].version
    /\ mem[i].revs[mem[i].version].content = mem[i].content

\* _complete_run maintains under the lock that stored its episode: however many runs
\* complete at once, the active episodes stay within the limit.
EpisodesBounded == Cardinality(Episodes(mem)) <= EpisodeLimit

\* Two runs that end with the same answer may both pass the duplicate check, which each
\* made before the other's commit; consolidation leaves one of the two active.
NoDuplicateEpisodes ==
  \A i, j \in Episodes(mem) : mem[i].content = mem[j].content => i = j

\* The purge in maintain_task_memories: a purged row is retired and is no fact, its text is
\* in no revision, and in no candidate record of it either -- but for user input, where a
\* candidate that repeats the text while the purge is under way is not seen by it.
PurgeIsComplete ==
  \A i \in DOMAIN mem : mem[i].cleaned =>
    /\ mem[i].status = "retired" /\ mem[i].key.type # "fact"
    /\ mem[i].content = Purged /\ mem[i].revs = <<>>
    /\ mem[i].key.of # "input" => mem[i].payloads = 0

\* A retired memory stays retired and keeps its text and version unless it is purged,
\* whatever a session that loaded it earlier commits; a purged one gets nothing back.
RetiredIsFinal ==
  [][\A i \in DOMAIN mem : mem[i].status = "retired" =>
       /\ mem'[i].status = "retired" /\ mem'[i].version = mem[i].version
       /\ mem'[i].content \in {mem[i].content, Purged}
       /\ mem[i].cleaned => mem'[i] = mem[i]]_vars

\* _can_auto_supersede: what an active memory says changes only by a new version of the
\* demand fact, and only when a run that observed it completes.
RewritesAreTrusted ==
  [][\A i \in DOMAIN mem : mem[i].status = "active" /\ mem'[i].content # mem[i].content =>
       /\ mem[i].key = DemandKey /\ mem'[i].source = "tool"
       /\ mem'[i].version = mem[i].version + 1
       /\ \E s \in Sessions : /\ local[s].op = "completion"
                              /\ local[s].promote = mem'[i].content]_vars

\* The automatic maintenance of a completing run retires an episode, be it the one it
\* has just stored, only where its text or EpisodeLimit newer episodes stay active.
RetiredEpisodesAreCovered ==
  [][\A i \in DOMAIN mem' :
       LET newer == {j \in Episodes(mem') : j > i}
       IN  (/\ run' # run
            /\ mem'[i].source = "agent_runtime" /\ mem'[i].status = "retired"
            /\ i \in DOMAIN mem => mem[i].status = "active")
           => \/ \E j \in newer : mem'[j].content = mem'[i].content
              \/ Cardinality(newer) >= EpisodeLimit]_vars

-----------------------------------------------------------------------------
(* What the documents say and the code does not do *)

\* docs/memory-runtime.md: a new version never overwrites what a user stored as a fact.
UserFactsStay ==
  [][\A i \in DOMAIN mem : mem[i].source = "user" /\ mem[i].key.type = "fact"
       => mem'[i].content = mem[i].content]_vars
=============================================================================
