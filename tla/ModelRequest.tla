------------------------------ MODULE ModelRequest ------------------------------
(***************************************************************************)
(* How AgentLoopEngine builds one model request within the model's input   *)
(* window: measure the protected base, rank memories and job evidence,     *)
(* select what fits a third of the rest, compact the observations into     *)
(* what is left, and refuse only a request whose base does not fit.        *)
(*                                                                         *)
(* Sizes are in estimated tokens.  A text is its size and what the ranking *)
(* compares of it.  The size of a list of payloads is Overhead plus theirs *)
(* and the size of a context is the sum of its parts.                      *)
(***************************************************************************)
EXTENDS Integers, Sequences, FiniteSets

CONSTANTS Requests,           \* what requests are built from, see RequestInput
          MemoryTokenBudget,  \* the engine's memory_token_budget
          MemoryLimit,        \* memory_limit
          KnowledgeLimit,     \* knowledge_limit
          Overhead,           \* tokens of a message around its content
          Frame,              \* tokens of a summary without items
          Item,               \* tokens of a summary item without its preview
          Preview,            \* tokens of a preview
          Unit                \* what a fusion score counts in fractions of 1

Channels == {"memory", "knowledge"}

\* lexical, semantic, prior: scores, 0 where the ranking leaves the document out
Document == [tokens : Nat \ {0}, lexical : Nat, semantic : Nat, prior : Nat,
             visible : BOOLEAN]

\* tail[k]: tokens of the observations k..n together, of n; 0 for none
RequestInput == [base : Nat, window : Nat, docs : [Channels -> Seq(Document)],
                 embeds : BOOLEAN, tail : Seq(Nat)]

ASSUME RequestsAssumption ==
  /\ Requests # {}
  /\ \A r \in Requests :
       /\ r \in RequestInput
       /\ Len(r.tail) > 0 /\ r.tail[Len(r.tail)] = 0
  /\ MemoryTokenBudget \in Nat /\ MemoryLimit \in Nat /\ KnowledgeLimit \in Nat
  /\ Overhead \in Nat \ {0} /\ Frame \in Nat /\ Item \in Nat /\ Preview \in Nat

VARIABLES req,  \* what the request is built from
          job   \* how far it is built

requestVars == <<req, job>>

-----------------------------------------------------------------------------
(* rank_hybrid_documents: reciprocal rank fusion of up to three rankings.   *)
(* Documents are numbered in the order of their keys.                       *)

RRF_K == 60

\* Every 1 / (RRF_K + position) that occurs is a whole number of units.
ASSUME UnitAssumption ==
  /\ Unit \in Nat \ {0}
  /\ \A r \in Requests : \A c \in Channels : \A position \in 1..Len(r.docs[c]) :
       Unit % (RRF_K + position) = 0

Term(position) == Unit \div (RRF_K + position)

Visible(docs) == {x \in DOMAIN docs : docs[x].visible}

Score(doc, ranking) ==
  CASE ranking = "lexical" -> doc.lexical
    [] ranking = "semantic" -> doc.semantic
    [] ranking = "prior" -> doc.prior

\* x is listed in the ranking, not after y if that is listed too
Leads(docs, ranking, x, y) ==
  /\ Score(docs[x], ranking) > 0
  /\ \/ Score(docs[x], ranking) > Score(docs[y], ranking)
     \/ Score(docs[x], ranking) = Score(docs[y], ranking) /\ x <= y

Position(docs, ranking, x) ==
  Cardinality({y \in Visible(docs) : Leads(docs, ranking, y, x)})

Share_Flipped(docs, ranking, x) ==
  IF Score(docs[x], ranking) = 0 THEN 0 ELSE Position(docs, ranking, x)
Share(docs, ranking, x) ==
  IF Score(docs[x], ranking) = 0 THEN 0 ELSE Term(Position(docs, ranking, x))

\* a failed embedding leaves the other two rankings
Fused(docs, semantic, x) ==
  Share(docs, "lexical", x) + Share(docs, "prior", x)
    + IF semantic THEN Share(docs, "semantic", x) ELSE 0

Ranked(docs, semantic) == {x \in Visible(docs) : Fused(docs, semantic, x) > 0}

\* the one order by descending fusion score, then by key
Orders(docs, semantic) ==
  LET found == Ranked(docs, semantic)
      Before(x, y) == \/ Fused(docs, semantic, x) > Fused(docs, semantic, y)
                      \/ Fused(docs, semantic, x) = Fused(docs, semantic, y) /\ x < y
  IN  {o \in [1..Cardinality(found) -> found] :
         \A i, j \in 1..Cardinality(found) : i < j => Before(o[i], o[j])}

Limit(c) == IF c = "memory" THEN MemoryLimit ELSE KnowledgeLimit
Eligible(r, c) == IF Limit(c) = 0 THEN <<>> ELSE r.docs[c]

\* by the request, the channel, and whether its embedding succeeded
RankingsOf ==
  [r \in Requests |-> [c \in Channels |-> [semantic \in BOOLEAN |->
     Orders(Eligible(r, c), semantic)]]]

-----------------------------------------------------------------------------
(* The build.  ranked: candidates by channel, best first; at: the next      *)
(* candidate to look at; chosen: candidates selected; channel, progressed:  *)
(* the loop of _select_under_budget; used: tokens of the selection; from:   *)
(* the first observation retained; items, preview: the form of the summary; *)
(* observed: tokens of the compacted observations.                          *)

NoJob == [phase |-> "idle", allocated |-> 0, semantic |-> [c \in Channels |-> FALSE],
          ranked |-> [c \in Channels |-> <<>>], at |-> [c \in Channels |-> 1],
          chosen |-> [c \in Channels |-> {}], channel |-> "memory", progressed |-> FALSE,
          used |-> 0, budget |-> 0, first |-> 1, from |-> 1, preview |-> TRUE, items |-> 0,
          observed |-> 0]

Cost(used, tokens) == IF used = 0 THEN Overhead + tokens ELSE used + tokens
TokensOf(c, x) == req.docs[c][x].tokens

Observations == Len(req.tail) - 1

SummaryTokens(items, preview) == Frame + items * (Item + IF preview THEN Preview ELSE 0)

\* tokens of the observations with those before `from` in a summary
Compacted(from, items, preview) ==
  req.tail[from] + IF from = 1 THEN 0 ELSE SummaryTokens(items, preview)

\* between two requests
AnyRequest == CHOOSE r \in Requests : TRUE

RequestInit ==
  /\ req = AnyRequest
  /\ job = NoJob

\* The model has answered, or the execution has ended or died.
EndRequest ==
  /\ req' = AnyRequest
  /\ job' = NoJob

BeginRequest(r) ==
  /\ job.phase = "idle"
  /\ req' = r
  /\ job' = [NoJob EXCEPT !.phase = "measure"]

\* the check of base_budget, and the share of the memories
Measure_Unchecked ==
  /\ job.phase = "measure"
  /\ job' = [job EXCEPT !.phase = "rank",
                        !.allocated = LET third == (req.window - req.base) \div 3
                                      IN  IF third < MemoryTokenBudget THEN third
                                          ELSE MemoryTokenBudget]
  /\ UNCHANGED req

Measure ==
  /\ job.phase = "measure"
  /\ job' = IF req.base > req.window THEN [job EXCEPT !.phase = "refused"]
            ELSE [job EXCEPT !.phase = "rank",
                             !.allocated = LET third == (req.window - req.base) \div 3
                                           IN  IF third < MemoryTokenBudget THEN third
                                               ELSE MemoryTokenBudget]
  /\ UNCHANGED req

\* Each channel is embedded by a call of its own, which may fail.  Nothing is ranked
\* without a budget.
Rank ==
  /\ job.phase = "rank"
  /\ \E semantic \in [Channels -> BOOLEAN] :
       /\ \A c \in Channels : semantic[c] => req.embeds
       /\ \E m \in RankingsOf[req]["memory"][semantic["memory"]],
             k \in RankingsOf[req]["knowledge"][semantic["knowledge"]] :
            job' = [job EXCEPT !.phase = "select", !.semantic = semantic,
                      !.ranked = IF job.allocated = 0 THEN @
                                 ELSE [c \in Channels |-> IF c = "memory" THEN m ELSE k]]
  /\ UNCHANGED req

-----------------------------------------------------------------------------
(* _select_under_budget: one candidate of each channel in turn *)

HasNext(c) ==
  /\ job.at[c] <= Len(job.ranked[c])
  /\ Cardinality(job.chosen[c]) < Limit(c)
Candidate(c) == job.ranked[c][job.at[c]]
Fits_SkipsOverhead(c) == job.used + TokensOf(c, Candidate(c)) <= job.allocated
Fits(c) == Cost(job.used, TokensOf(c, Candidate(c))) <= job.allocated

OtherChannel == IF job.channel = "memory" THEN "knowledge" ELSE "memory"

TakeCandidate ==
  LET c == job.channel
  IN  /\ job.phase = "select" /\ HasNext(c) /\ Fits(c)
      /\ job' = [job EXCEPT !.at[c] = @ + 1, !.chosen[c] = @ \cup {Candidate(c)},
                            !.used = Cost(@, TokensOf(c, Candidate(c))),
                            !.progressed = IF c = "memory" THEN TRUE ELSE FALSE,
                            !.channel = OtherChannel]
      /\ UNCHANGED req

SkipCandidate_EndsChannel ==
  LET c == job.channel
  IN  /\ job.phase = "select" /\ HasNext(c) /\ ~Fits(c)
      /\ job' = [job EXCEPT !.at[c] = Len(job.ranked[c]) + 1]
      /\ UNCHANGED req

SkipCandidate ==
  LET c == job.channel
  IN  /\ job.phase = "select" /\ HasNext(c) /\ ~Fits(c)
      /\ job' = [job EXCEPT !.at[c] = @ + 1]
      /\ UNCHANGED req

\* no candidate left in the channel; after a round in which neither took one, select ends
LeaveChannel ==
  LET c == job.channel
  IN  /\ job.phase = "select" /\ ~HasNext(c)
      /\ job' = CASE c = "memory" -> [job EXCEPT !.channel = "knowledge", !.progressed = FALSE]
                  [] c = "knowledge" /\ job.progressed ->
                       [job EXCEPT !.channel = "memory", !.progressed = FALSE]
                  [] c = "knowledge" /\ ~job.progressed -> [job EXCEPT !.phase = "compact"]
      /\ UNCHANGED req

-----------------------------------------------------------------------------
(* compact_agent_context.  Which suffix trim_messages keeps, counting each  *)
(* message by itself, is the library's: any, or none without a budget.      *)

Rest == IF req.base + job.used > req.window THEN 0 ELSE req.window - (req.base + job.used)

KeepObservations ==
  /\ job.phase = "compact"
  /\ req.tail[1] <= Rest
  /\ job' = [job EXCEPT !.phase = "check", !.budget = Rest, !.observed = req.tail[1]]
  /\ UNCHANGED req

TrimObservations ==
  /\ job.phase = "compact"
  /\ req.tail[1] > Rest
  /\ \E from \in 1..Observations + 1 :
       /\ Rest = 0 => from = Observations + 1
       /\ job' = [job EXCEPT !.phase = "shrink", !.budget = Rest, !.first = from,
                             !.from = from, !.items = from - 1]
  /\ UNCHANGED req

\* _compact_observations: the loop, one form of the summary after the other
FitsBudget == Compacted(job.from, job.items, job.preview) <= job.budget

AcceptCompaction ==
  /\ job.phase = "shrink" /\ FitsBudget
  /\ job' = [job EXCEPT !.phase = "check",
                        !.observed = Compacted(job.from, job.items, job.preview)]
  /\ UNCHANGED req

DropOldestRetained ==
  /\ job.phase = "shrink" /\ ~FitsBudget /\ job.from <= Observations
  /\ job' = [job EXCEPT !.from = @ + 1, !.items = job.from]
  /\ UNCHANGED req

Shortenable == job.phase = "shrink" /\ ~FitsBudget /\ job.from = Observations + 1

DropPreviews ==
  /\ Shortenable /\ job.preview
  /\ job' = [job EXCEPT !.preview = FALSE]
  /\ UNCHANGED req

DropItem ==
  /\ Shortenable /\ ~job.preview /\ job.items > 0
  /\ job' = [job EXCEPT !.items = @ - 1]
  /\ UNCHANGED req

GiveUpSummary_WithItems ==
  /\ Shortenable /\ ~job.preview
  /\ job' = [job EXCEPT !.phase = "check", !.observed = 0]
  /\ UNCHANGED req

GiveUpSummary ==
  /\ Shortenable /\ ~job.preview /\ job.items = 0
  /\ job' = [job EXCEPT !.phase = "check", !.observed = 0]
  /\ UNCHANGED req

\* context_token_budget
CheckRequest ==
  /\ job.phase = "check"
  /\ job' = [job EXCEPT !.phase = IF req.base + job.used + job.observed <= req.window
                                  THEN "built" ELSE "refused"]
  /\ UNCHANGED req

BuildRequest ==
  \/ Measure \/ Rank
  \/ TakeCandidate \/ SkipCandidate \/ LeaveChannel
  \/ KeepObservations \/ TrimObservations \/ AcceptCompaction \/ DropOldestRetained
  \/ DropPreviews \/ DropItem \/ GiveUpSummary
  \/ CheckRequest

RequestNext == (\E r \in Requests : BeginRequest(r)) \/ BuildRequest \/ EndRequest

RequestSpec == RequestInit /\ [][RequestNext]_requestVars

-----------------------------------------------------------------------------
(* Properties *)

Phases == {"idle", "measure", "rank", "select", "compact", "shrink", "check", "built",
           "refused"}

\* The build is well formed at every step.
RequestTypeOK ==
  /\ req \in Requests
  /\ job.phase \in Phases /\ job.allocated \in Nat /\ job.used \in Nat
  /\ job.semantic \in [Channels -> BOOLEAN]
  /\ job.ranked \in [Channels -> Seq(Nat)] /\ job.at \in [Channels -> Nat \ {0}]
  /\ job.chosen \in [Channels -> SUBSET Nat] /\ job.channel \in Channels
  /\ job.progressed \in BOOLEAN /\ job.preview \in BOOLEAN
  /\ job.budget \in Nat /\ job.items \in Nat /\ job.observed \in Nat
  /\ job.first \in 1..Len(req.tail) /\ job.from \in job.first..Len(req.tail)

\* _build_request: memories, evidence and observations are fitted around the protected
\* prompt, so a request is refused only if that prompt by itself exceeds the window, and
\* a request that is built is within it.
RefusedOnlyIfBaseTooBig ==
  /\ job.phase = "refused" => req.base > req.window
  /\ job.phase = "built" => req.base + job.used + job.observed <= req.window

\* rank_hybrid_documents: a document that some ranking in use puts before another one, and
\* none puts after it, is a candidate before it.
RankingKeepsAgreement ==
  \A c \in Channels : \A i, j \in DOMAIN job.ranked[c] :
    LET Before(x, y) ==
          \E l \in {"lexical", "prior"} \cup (IF job.semantic[c] THEN {"semantic"} ELSE {}) :
            Leads(req.docs[c], l, job.ranked[c][x], job.ranked[c][y])
    IN  i < j /\ Before(j, i) => Before(i, j)

Selected == job.phase \in {"compact", "shrink", "check", "built"}

\* _select_under_budget: when the selection ends, no candidate that was passed over would
\* fit beside what was selected, in a channel that is not at its limit.
SelectionIsMaximal ==
  Selected => \A c \in Channels :
    Cardinality(job.chosen[c]) < Limit(c) =>
      \A i \in DOMAIN job.ranked[c] :
        job.ranked[c][i] \notin job.chosen[c] =>
          Cost(job.used, TokensOf(c, job.ranked[c][i])) > job.allocated

\* _compact_observations gives up no observation while it fits: every longer suffix that
\* it considered exceeds the budget with its summary, and the summary goes only when not
\* even its frame fits.
CompactionIsFrugal ==
  job.phase \in {"shrink", "check", "built"} /\ req.tail[1] > job.budget =>
    /\ \A k \in job.first..job.from - 1 : Compacted(k, k - 1, TRUE) > job.budget
    /\ job.phase # "shrink" /\ job.observed = 0 =>
         Frame > job.budget \/ Compacted(job.from, job.items, job.preview) = 0
=============================================================================
