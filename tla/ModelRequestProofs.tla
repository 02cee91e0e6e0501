---------------------------- MODULE ModelRequestProofs ----------------------------
(***************************************************************************)
(* Theorems about ModelRequest for any requests, limits and sizes.         *)
(*                                                                         *)
(* BuildInv follows one request through its phases: BudgetPart is about    *)
(* what is left of the window, PickPart about the candidates the selection *)
(* has passed, CompactPart about the observations it has given up.  That   *)
(* the selection is maximal rests on Cost growing with what is used, and   *)
(* on the round in which neither channel took a candidate.                 *)
(***************************************************************************)
EXTENDS ModelRequest, FiniteSetTheorems, SequenceTheorems, TLAPS

Job == [phase : Phases, allocated : Nat, semantic : [Channels -> BOOLEAN],
        ranked : [Channels -> Seq(Nat)], at : [Channels -> Nat \ {0}],
        chosen : [Channels -> SUBSET Nat], channel : Channels, progressed : BOOLEAN,
        used : Nat, budget : Nat, first : Nat, from : Nat, preview : BOOLEAN, items : Nat,
        observed : Nat]

LEMMA RequestFieldsOf ==
  ASSUME NEW r \in Requests
  PROVE  /\ r.base \in Nat /\ r.window \in Nat /\ r.docs \in [Channels -> Seq(Document)]
         /\ r.embeds \in BOOLEAN /\ r.tail \in Seq(Nat)
         /\ Len(r.tail) \in Nat /\ Len(r.tail) > 0 /\ r.tail[Len(r.tail)] = 0
         /\ \A k \in 1..Len(r.tail) : r.tail[k] \in Nat
<1>1. r \in RequestInput /\ Len(r.tail) > 0 /\ r.tail[Len(r.tail)] = 0
  BY RequestsAssumption
<1>2. /\ r.base \in Nat /\ r.window \in Nat /\ r.docs \in [Channels -> Seq(Document)]
      /\ r.embeds \in BOOLEAN /\ r.tail \in Seq(Nat)
  BY <1>1 DEF RequestInput
<1> QED BY <1>1, <1>2

LEMMA JobFields ==
  ASSUME NEW j \in Job
  PROVE  /\ j.phase \in Phases /\ j.allocated \in Nat
         /\ j.ranked \in [Channels -> Seq(Nat)] /\ j.at \in [Channels -> Nat \ {0}]
         /\ j.chosen \in [Channels -> SUBSET Nat] /\ j.channel \in Channels
         /\ j.used \in Nat /\ j.budget \in Nat /\ j.first \in Nat /\ j.from \in Nat
         /\ j.items \in Nat /\ j.observed \in Nat
         /\ j.semantic \in [Channels -> BOOLEAN]
         /\ j.progressed \in BOOLEAN /\ j.preview \in BOOLEAN
BY DEF Job

LEMMA TokensPositive ==
  ASSUME NEW r \in Requests, NEW c \in Channels, NEW x \in DOMAIN r.docs[c]
  PROVE  r.docs[c][x].tokens \in Nat \ {0}
<1>1. r.docs[c] \in Seq(Document)
  BY RequestFieldsOf
<1>2. r.docs[c][x] \in Document
  BY <1>1
<1> QED BY <1>2 DEF Document

\* What is ranked are documents of the request.
LEMMA OrdersAreDocuments ==
  ASSUME NEW r \in Requests, NEW c \in Channels, NEW semantic \in BOOLEAN,
         NEW o \in RankingsOf[r][c][semantic]
  PROVE  o \in Seq(DOMAIN r.docs[c])
<1> DEFINE docs == Eligible(r, c)
           found == Ranked(docs, semantic)
<1>1. r.docs[c] \in Seq(Document)
  BY RequestFieldsOf
<1>2. docs \in Seq(Document) /\ DOMAIN docs \subseteq DOMAIN r.docs[c]
  BY <1>1 DEF Eligible
<1>3. RankingsOf[r][c][semantic] = Orders(docs, semantic)
  BY DEF RankingsOf
<1>4. found \subseteq DOMAIN docs
  BY DEF Ranked, Visible
<1> HIDE DEF docs
<1>5. DOMAIN docs = 1..Len(docs) /\ Len(docs) \in Nat
  BY <1>2
<1>6. IsFiniteSet(1..Len(docs))
  BY <1>5, FS_Interval
<1>7. Cardinality(found) \in Nat
  BY <1>4, <1>5, <1>6, FS_Subset, FS_CardinalityType
<1>8. o \in [1..Cardinality(found) -> found]
  BY <1>3 DEF Orders
<1> HIDE DEF found
<1>9. o \in [1..Cardinality(found) -> DOMAIN r.docs[c]]
  BY <1>2, <1>4, <1>8
<1> QED BY <1>7, <1>9

\* The size of what is used, and of what is compacted.
LEMMA CostGrows ==
  ASSUME NEW used \in Nat, used = 0 \/ used >= Overhead, NEW more \in Nat, NEW tokens \in Nat
  PROVE  /\ Cost(used, more) \in Nat /\ Cost(used, more) >= Overhead
         /\ Cost(used, tokens) <= Cost(Cost(used, more), tokens)
BY RequestsAssumption DEF Cost

LEMMA SummaryNatural ==
  ASSUME NEW items \in Nat, NEW preview \in BOOLEAN
  PROVE  SummaryTokens(items, preview) \in Nat /\ SummaryTokens(0, preview) = Frame
<1> DEFINE each == Item + IF preview THEN Preview ELSE 0
<1>1. each \in Nat /\ Frame \in Nat
  BY RequestsAssumption
<1> HIDE DEF each
<1>2. items * each \in Nat /\ 0 * each = 0
  BY <1>1
<1>3. /\ SummaryTokens(items, preview) = Frame + items * each
      /\ SummaryTokens(0, preview) = Frame + 0 * each
  BY DEF SummaryTokens, each
<1> QED BY <1>1, <1>2, <1>3

LEMMA CompactedNatural ==
  ASSUME req \in Requests, NEW from \in 1..Len(req.tail), NEW items \in Nat,
         NEW preview \in BOOLEAN
  PROVE  /\ Compacted(from, items, preview) \in Nat
         /\ from = Len(req.tail) =>
              Compacted(from, 0, preview) = IF from = 1 THEN 0 ELSE Frame
<1>1. req.tail[from] \in Nat /\ req.tail[Len(req.tail)] = 0
  BY RequestFieldsOf
<1>2. /\ SummaryTokens(items, preview) \in Nat /\ SummaryTokens(0, preview) = Frame
      /\ Frame \in Nat
  BY SummaryNatural, RequestsAssumption
<1> QED BY <1>1, <1>2 DEF Compacted

(***************************************************************************)
(* The invariant                                                            *)
(***************************************************************************)
Early == {"idle", "measure", "rank"}
Late == {"compact", "shrink", "check", "built"}

BudgetPart ==
  /\ job.phase \in {"rank", "select"} \cup Late =>
       /\ req.base <= req.window /\ job.allocated <= req.window - req.base
       /\ job.used <= job.allocated
  /\ job.phase = "refused" => req.base > req.window
  /\ job.used = 0 \/ job.used >= Overhead

PassedOver(c) ==
  \A i \in DOMAIN job.ranked[c] :
    i < job.at[c] /\ job.ranked[c][i] \notin job.chosen[c] =>
      Cost(job.used, TokensOf(c, job.ranked[c][i])) > job.allocated

PickPart ==
  /\ \A c \in Channels : job.ranked[c] \in Seq(DOMAIN req.docs[c]) /\ PassedOver(c)
  /\ job.phase \in Early =>
       job.used = 0 /\ job.channel = "memory" /\ \A c \in Channels : job.at[c] = 1
  /\ job.phase = "select" /\ job.channel = "knowledge" /\ ~job.progressed => ~HasNext("memory")
  /\ job.phase \in Late => \A c \in Channels : ~HasNext(c)

CompactPart ==
  /\ job.first \in 1..Len(req.tail) /\ job.from \in job.first..Len(req.tail)
  /\ job.phase \in Early \cup {"select", "compact"} => job.preview
  /\ job.phase \in {"shrink", "check", "built"} => job.budget = req.window - (req.base + job.used)
  /\ job.phase = "shrink" /\ job.from <= Observations => job.preview /\ job.items = job.from - 1
  /\ job.phase \in {"check", "built"} => job.observed <= job.budget
  /\ CompactionIsFrugal

BuildInv ==
  /\ req \in Requests /\ job \in Job
  /\ BudgetPart /\ PickPart /\ CompactPart

\* What no later phase looks at again is kept.
LEMMA PickKept ==
  ASSUME BuildInv, UNCHANGED req, job'.ranked = job.ranked, job'.at = job.at,
         job'.chosen = job.chosen, job'.used = job.used, job'.allocated = job.allocated,
         job.phase \in Late, job'.phase \in Late \cup {"refused"}
  PROVE  PickPart'
<1>1. \A c \in Channels : job'.ranked[c] \in Seq(DOMAIN req'.docs[c]) /\ PassedOver(c)'
  BY DEF BuildInv, PickPart, PassedOver, TokensOf
<1>2. \A c \in Channels : ~HasNext(c)'
  BY DEF BuildInv, PickPart, HasNext
<1> QED BY <1>1, <1>2 DEF PickPart, Early, Late

LEMMA NotYetCompacted ==
  ASSUME BuildInv, UNCHANGED req, job'.first = job.first, job'.from = job.from,
         job'.preview = job.preview, job.phase \in Early \cup {"select", "compact"},
         job'.phase \in Early \cup {"select", "compact", "refused"}
  PROVE  CompactPart'
BY DEF BuildInv, CompactPart, CompactionIsFrugal, Early

LEMMA NothingRanked == \A S : <<>> \in Seq(S)
OBVIOUS

\* The state between two requests, and the start of one.
LEMMA FreshJob ==
  ASSUME req' \in Requests, NEW phase \in {"idle", "measure"}, job' = [NoJob EXCEPT !.phase = phase]
  PROVE  BuildInv'
<1>1. /\ job' \in Job /\ job'.phase = phase /\ job'.used = 0 /\ job'.first = 1 /\ job'.from = 1
      /\ job'.preview = TRUE /\ job'.channel = "memory"
      /\ \A c \in Channels : job'.ranked[c] = <<>> /\ job'.at[c] = 1
  <2>1. NoJob \in Job
    BY DEF NoJob, Job, Phases, Channels
  <2>2. job' \in Job
    BY <2>1 DEF Job, Phases
  <2> QED BY <2>2 DEF NoJob
<1>2. BudgetPart'
  BY <1>1 DEF BudgetPart, Late
<1>3. PickPart'
  <2>1. \A c \in Channels : job'.ranked[c] \in Seq(DOMAIN req'.docs[c])
    BY <1>1, NothingRanked
  <2>2. ASSUME NEW c \in Channels PROVE PassedOver(c)'
    <3>1. DOMAIN job'.ranked[c] = {}
      BY <1>1
    <3> QED BY <3>1 DEF PassedOver
  <2> QED BY <1>1, <2>1, <2>2 DEF PickPart, Early, Late
<1>4. CompactPart'
  <2>1. Len(req'.tail) \in Nat /\ Len(req'.tail) > 0
    <3>1. PICK r \in Requests : r = req'
      OBVIOUS
    <3> QED BY <3>1, RequestFieldsOf
  <2>2. job'.first \in 1..Len(req'.tail) /\ job'.from \in job'.first..Len(req'.tail)
    BY <1>1, <2>1
  <2>3. job'.phase \in {"idle", "measure"} /\ job'.preview
    BY <1>1
  <2>4. CompactionIsFrugal'
    BY <2>3 DEF CompactionIsFrugal
  <2> QED BY <2>2, <2>3, <2>4 DEF CompactPart
<1> QED BY <1>1, <1>2, <1>3, <1>4 DEF BuildInv

LEMMA InitBuildInv == RequestInit => BuildInv
<1> SUFFICES ASSUME RequestInit PROVE BuildInv
  OBVIOUS
<1>1. req \in Requests
  BY RequestsAssumption DEF RequestInit, AnyRequest
<1>2. /\ job \in Job /\ job.phase = "idle" /\ job.used = 0 /\ job.first = 1 /\ job.from = 1
      /\ job.preview = TRUE /\ job.channel = "memory"
      /\ \A c \in Channels : job.ranked[c] = <<>> /\ job.at[c] = 1
  BY DEF RequestInit, NoJob, Job, Phases, Channels
<1>3. BudgetPart
  BY <1>2 DEF BudgetPart, Late
<1>4. PickPart
  <2>1. \A c \in Channels : job.ranked[c] \in Seq(DOMAIN req.docs[c])
    BY <1>2, NothingRanked
  <2>2. ASSUME NEW c \in Channels PROVE PassedOver(c)
    <3>1. DOMAIN job.ranked[c] = {}
      BY <1>2
    <3> QED BY <3>1 DEF PassedOver
  <2> QED BY <1>2, <2>1, <2>2 DEF PickPart, Early, Late
<1>5. CompactPart
  BY <1>1, <1>2, RequestFieldsOf DEF CompactPart, CompactionIsFrugal
<1> QED BY <1>1, <1>2, <1>3, <1>4, <1>5 DEF BuildInv

LEMMA BetweenSteps ==
  ASSUME BuildInv, EndRequest \/ \E r \in Requests : BeginRequest(r)
  PROVE  BuildInv'
<1>1. CASE EndRequest
  <2>1. req' \in Requests
    BY <1>1, RequestsAssumption DEF EndRequest, AnyRequest
  <2>2. job' = [NoJob EXCEPT !.phase = "idle"]
    <3>1. job' = NoJob /\ NoJob \in Job /\ NoJob.phase = "idle"
      BY <1>1 DEF EndRequest, NoJob, Job, Phases, Channels
    <3>2. NoJob = [NoJob EXCEPT !.phase = "idle"]
      BY <3>1 DEF Job
    <3> QED BY <3>1, <3>2
  <2> QED BY <2>1, <2>2, FreshJob
<1>2. CASE \E r \in Requests : BeginRequest(r)
  BY <1>2, FreshJob DEF BeginRequest
<1> QED BY <1>1, <1>2

LEMMA MeasureStep ==
  ASSUME BuildInv, Measure
  PROVE  BuildInv'
<1> DEFINE third == (req.window - req.base) \div 3
           share == IF third < MemoryTokenBudget THEN third ELSE MemoryTokenBudget
<1>1. /\ job \in Job /\ req \in Requests /\ UNCHANGED req /\ job.phase = "measure"
      /\ req.base \in Nat /\ req.window \in Nat
  BY RequestFieldsOf DEF BuildInv, Measure
<1>2. CASE req.base > req.window
  <2>1. job' = [job EXCEPT !.phase = "refused"]
    BY <1>2 DEF Measure
  <2>2. /\ job' \in Job /\ job'.phase = "refused" /\ job'.used = job.used
        /\ job'.first = job.first /\ job'.from = job.from /\ job'.preview = job.preview
        /\ job'.ranked = job.ranked /\ job'.at = job.at /\ job'.channel = job.channel
    BY <1>1, <2>1 DEF Job, Phases
  <2>3. BudgetPart'
    BY <1>1, <1>2, <2>2 DEF BudgetPart, Late, BuildInv
  <2>4. PickPart'
    BY <1>1, <2>2 DEF PickPart, PassedOver, Early, Late, BuildInv
  <2>5. CompactPart'
    BY <1>1, <2>2, NotYetCompacted DEF Early
  <2> QED BY <1>1, <2>2, <2>3, <2>4, <2>5 DEF BuildInv
<1>3. CASE req.base <= req.window
  <2>1. third \in Nat /\ third <= req.window - req.base
    BY <1>1, <1>3
  <2>2. job' = [job EXCEPT !.phase = "rank", !.allocated = share]
    BY <1>1, <1>3 DEF Measure
  <2> HIDE DEF third
  <2>3. share \in Nat /\ share <= req.window - req.base
    BY <1>1, <2>1, RequestsAssumption
  <2> HIDE DEF share
  <2>4. /\ job' \in Job /\ job'.phase = "rank" /\ job'.used = job.used
        /\ job'.first = job.first /\ job'.from = job.from /\ job'.preview = job.preview
        /\ job'.ranked = job.ranked /\ job'.at = job.at /\ job'.allocated = share
        /\ job'.channel = job.channel
    BY <1>1, <2>2, <2>3 DEF Job, Phases
  <2>5. job.used = 0
    BY <1>1 DEF BuildInv, PickPart, Early
  <2>6. BudgetPart'
    BY <1>1, <1>3, <2>3, <2>4, <2>5 DEF BudgetPart, Late
  <2>7. PickPart'
    BY <1>1, <2>4 DEF PickPart, PassedOver, Early, Late, BuildInv
  <2>8. CompactPart'
    BY <1>1, <2>4, NotYetCompacted DEF Early
  <2> QED BY <1>1, <2>4, <2>6, <2>7, <2>8 DEF BuildInv
<1> QED BY <1>1, <1>2, <1>3

LEMMA RankStep ==
  ASSUME BuildInv, Rank
  PROVE  BuildInv'
<1>1. /\ job \in Job /\ req \in Requests /\ UNCHANGED req /\ job.phase = "rank"
  BY DEF BuildInv, Rank
<1>2. PICK semantic \in [Channels -> BOOLEAN] :
        \E m \in RankingsOf[req]["memory"][semantic["memory"]],
           k \in RankingsOf[req]["knowledge"][semantic["knowledge"]] :
             job' = [job EXCEPT !.phase = "select", !.semantic = semantic,
                      !.ranked = IF job.allocated = 0 THEN @
                                 ELSE [c \in Channels |-> IF c = "memory" THEN m ELSE k]]
  BY DEF Rank
<1>3. PICK m \in RankingsOf[req]["memory"][semantic["memory"]],
           k \in RankingsOf[req]["knowledge"][semantic["knowledge"]] :
             job' = [job EXCEPT !.phase = "select", !.semantic = semantic,
                      !.ranked = IF job.allocated = 0 THEN @
                                 ELSE [c \in Channels |-> IF c = "memory" THEN m ELSE k]]
  BY <1>2
<1> DEFINE ranked == IF job.allocated = 0 THEN job.ranked
                     ELSE [c \in Channels |-> IF c = "memory" THEN m ELSE k]
<1>4. job' = [job EXCEPT !.phase = "select", !.semantic = semantic, !.ranked = ranked]
  BY <1>1, <1>3 DEF Job
<1>5. m \in Seq(DOMAIN req.docs["memory"]) /\ k \in Seq(DOMAIN req.docs["knowledge"])
  BY <1>1, OrdersAreDocuments DEF Channels
<1>6. \A c \in Channels : ranked[c] \in Seq(DOMAIN req.docs[c])
  <2>1. CASE job.allocated = 0
    BY <2>1 DEF BuildInv, PickPart
  <2>2. CASE job.allocated # 0
    BY <1>5, <2>2 DEF Channels
  <2> QED BY <2>1, <2>2
<1>7. ASSUME NEW c \in Channels PROVE Seq(DOMAIN req.docs[c]) \subseteq Seq(Nat)
  <2>1. req.docs[c] \in Seq(Document)
    BY <1>1, RequestFieldsOf
  <2>2. DOMAIN req.docs[c] \subseteq Nat
    BY <2>1
  <2> QED BY <2>2
<1>8. ranked \in [Channels -> Seq(Nat)]
  <2>1. CASE job.allocated = 0
    BY <1>1, <2>1, JobFields
  <2>2. CASE job.allocated # 0
    BY <1>5, <1>7, <2>2 DEF Channels
  <2> QED BY <2>1, <2>2
<1> HIDE DEF ranked
<1>9. /\ job' \in Job /\ job'.phase = "select" /\ job'.used = job.used
      /\ job'.first = job.first /\ job'.from = job.from /\ job'.preview = job.preview
      /\ job'.ranked = ranked /\ job'.at = job.at /\ job'.allocated = job.allocated
      /\ job'.channel = job.channel /\ job'.progressed = job.progressed
  BY <1>1, <1>4, <1>8 DEF Job, Phases
<1>10. BudgetPart'
  BY <1>1, <1>9 DEF BudgetPart, Late, BuildInv
<1>11. PickPart'
  <2>1. /\ job'.at = job.at /\ \A c \in Channels : job.at[c] = 1
        /\ job.channel = "memory"
    BY <1>1, <1>9 DEF BuildInv, PickPart, Early
  <2>2. ASSUME NEW c \in Channels
        PROVE  job'.ranked[c] \in Seq(DOMAIN req'.docs[c]) /\ PassedOver(c)'
    <3>1. job'.ranked[c] \in Seq(DOMAIN req'.docs[c])
      BY <1>1, <1>6, <1>9
    <3>2. \A i \in DOMAIN job'.ranked[c] : ~(i < job'.at[c])
      BY <2>1, <3>1
    <3> QED BY <3>1, <3>2 DEF PassedOver
  <2> QED BY <1>9, <2>1, <2>2 DEF PickPart, Early, Late
<1>12. CompactPart'
  BY <1>1, <1>9, NotYetCompacted DEF Early
<1> QED BY <1>1, <1>9, <1>10, <1>11, <1>12 DEF BuildInv

(***************************************************************************)
(* The selection                                                            *)
(***************************************************************************)
\* A candidate is a document of the request.
LEMMA CandidateOf ==
  ASSUME BuildInv, NEW c \in Channels, HasNext(c)
  PROVE  /\ job.at[c] \in DOMAIN job.ranked[c] /\ Candidate(c) \in Nat
         /\ TokensOf(c, Candidate(c)) \in Nat
<1>1. /\ job.ranked[c] \in Seq(DOMAIN req.docs[c]) /\ job.at[c] \in Nat \ {0}
      /\ job.ranked[c] \in Seq(Nat) /\ req \in Requests
  BY JobFields DEF BuildInv, PickPart
<1>2. job.at[c] \in DOMAIN job.ranked[c]
  BY <1>1 DEF HasNext
<1>3. Candidate(c) \in DOMAIN req.docs[c] /\ Candidate(c) \in Nat
  BY <1>1, <1>2 DEF Candidate
<1> QED BY <1>1, <1>2, <1>3, TokensPositive DEF TokensOf

LEMMA TakeCandidateStep ==
  ASSUME BuildInv, TakeCandidate
  PROVE  BuildInv'
<1> DEFINE c == job.channel
           x == Candidate(c)
           tokens == TokensOf(c, x)
<1>1. /\ job \in Job /\ req \in Requests /\ UNCHANGED req /\ job.phase = "select"
      /\ c \in Channels /\ HasNext(c) /\ Cost(job.used, tokens) <= job.allocated
  BY JobFields DEF BuildInv, TakeCandidate, Fits
<1>2. job.at[c] \in DOMAIN job.ranked[c] /\ x \in Nat /\ tokens \in Nat
  BY <1>1, CandidateOf
<1>3. /\ job.used \in Nat /\ (job.used = 0 \/ job.used >= Overhead) /\ job.allocated \in Nat
      /\ job.at \in [Channels -> Nat \ {0}] /\ job.chosen \in [Channels -> SUBSET Nat]
  BY <1>1, JobFields DEF BuildInv, BudgetPart
<1>4. Cost(job.used, tokens) \in Nat /\ Cost(job.used, tokens) >= Overhead
  BY <1>2, <1>3, CostGrows
<1> DEFINE used == Cost(job.used, tokens)
           at == [job.at EXCEPT ![c] = @ + 1]
           chosen == [job.chosen EXCEPT ![c] = @ \cup {x}]
           progressed == IF c = "memory" THEN TRUE ELSE FALSE
<1>5. job' = [job EXCEPT !.at = at, !.chosen = chosen, !.used = used,
                         !.progressed = progressed, !.channel = OtherChannel]
  BY <1>1 DEF TakeCandidate, Job
<1>6. /\ at \in [Channels -> Nat \ {0}] /\ chosen \in [Channels -> SUBSET Nat]
      /\ progressed \in BOOLEAN /\ OtherChannel \in Channels
      /\ at[c] = job.at[c] + 1 /\ chosen[c] = job.chosen[c] \cup {x}
      /\ \A d \in Channels : d # c => at[d] = job.at[d] /\ chosen[d] = job.chosen[d]
  BY <1>1, <1>2, <1>3 DEF OtherChannel, Channels
<1>7. /\ c = "memory" => progressed /\ OtherChannel = "knowledge"
      /\ c # "memory" => OtherChannel = "memory"
  BY DEF OtherChannel
<1> HIDE DEF at, chosen, used, progressed
<1>8. /\ job' \in Job /\ job'.phase = "select" /\ job'.used = used
      /\ job'.first = job.first /\ job'.from = job.from /\ job'.preview = job.preview
      /\ job'.ranked = job.ranked /\ job'.at = at /\ job'.allocated = job.allocated
      /\ job'.channel = OtherChannel /\ job'.progressed = progressed /\ job'.chosen = chosen
  BY <1>1, <1>4, <1>5, <1>6 DEF Job, used
<1>9. BudgetPart'
  <2>1. req.base <= req.window /\ job.allocated <= req.window - req.base
    BY <1>1 DEF BuildInv, BudgetPart
  <2> QED BY <1>1, <1>4, <1>8, <2>1 DEF BudgetPart, Late, used
<1>10. PickPart'
  <2>1. ASSUME NEW d \in Channels PROVE job'.ranked[d] \in Seq(DOMAIN req'.docs[d])
    BY <1>1, <1>8 DEF BuildInv, PickPart
  <2>2. ASSUME NEW d \in Channels PROVE PassedOver(d)'
    <3> SUFFICES ASSUME NEW i \in DOMAIN job.ranked[d], i < at[d],
                        job.ranked[d][i] \notin chosen[d]
                 PROVE  Cost(used, TokensOf(d, job.ranked[d][i])) > job.allocated
      BY <1>1, <1>8 DEF PassedOver, TokensOf
    <3>1. job.ranked[d] \in Seq(DOMAIN req.docs[d]) /\ PassedOver(d)
      BY DEF BuildInv, PickPart
    <3>2. i \in Nat /\ job.at[d] \in Nat
      BY <1>3, <3>1
    <3>3. i < job.at[d] /\ job.ranked[d][i] \notin job.chosen[d]
      <4>1. CASE d = c
        <5>1. i # job.at[c]
          BY <1>6, <4>1 DEF x, Candidate
        <5> QED BY <1>6, <3>2, <4>1, <5>1
      <4>2. CASE d # c
        BY <1>6, <4>2
      <4> QED BY <4>1, <4>2
    <3>4. Cost(job.used, TokensOf(d, job.ranked[d][i])) > job.allocated
      BY <3>1, <3>3 DEF PassedOver
    <3>5. TokensOf(d, job.ranked[d][i]) \in Nat
      <4>1. job.ranked[d][i] \in DOMAIN req.docs[d]
        BY <3>1
      <4> QED BY <1>1, <4>1, TokensPositive DEF TokensOf
    <3>6. Cost(job.used, TokensOf(d, job.ranked[d][i])) <= Cost(used, TokensOf(d, job.ranked[d][i]))
      BY <1>2, <1>3, <3>5, CostGrows DEF used
    <3>7. /\ Cost(job.used, TokensOf(d, job.ranked[d][i])) \in Nat
          /\ Cost(used, TokensOf(d, job.ranked[d][i])) \in Nat
      BY <1>3, <1>4, <3>5, CostGrows DEF used
    <3> QED BY <1>3, <3>4, <3>6, <3>7
  <2>3. ~(job'.channel = "knowledge" /\ ~job'.progressed)
    BY <1>7, <1>8
  <2> QED BY <1>8, <2>1, <2>2, <2>3 DEF PickPart, Early, Late
<1>11. CompactPart'
  BY <1>1, <1>8, NotYetCompacted
<1> QED BY <1>1, <1>8, <1>9, <1>10, <1>11 DEF BuildInv

LEMMA SkipCandidateStep ==
  ASSUME BuildInv, SkipCandidate
  PROVE  BuildInv'
<1> DEFINE c == job.channel
           x == Candidate(c)
<1>1. /\ job \in Job /\ req \in Requests /\ UNCHANGED req /\ job.phase = "select"
      /\ c \in Channels /\ HasNext(c) /\ ~(Cost(job.used, TokensOf(c, x)) <= job.allocated)
  BY JobFields DEF BuildInv, SkipCandidate, Fits
<1>2. job.at[c] \in DOMAIN job.ranked[c] /\ TokensOf(c, x) \in Nat
  BY <1>1, CandidateOf
<1>3. /\ job.used \in Nat /\ (job.used = 0 \/ job.used >= Overhead) /\ job.allocated \in Nat
      /\ job.at \in [Channels -> Nat \ {0}]
  BY <1>1, JobFields DEF BuildInv, BudgetPart
<1>4. Cost(job.used, TokensOf(c, x)) > job.allocated
  BY <1>1, <1>2, <1>3, CostGrows
<1> DEFINE at == [job.at EXCEPT ![c] = @ + 1]
<1>5. job' = [job EXCEPT !.at = at]
  BY <1>1 DEF SkipCandidate, Job
<1>6. /\ at \in [Channels -> Nat \ {0}] /\ at[c] = job.at[c] + 1
      /\ \A d \in Channels : d # c => at[d] = job.at[d]
  BY <1>1, <1>3
<1> HIDE DEF at
<1>7. /\ job' \in Job /\ job'.phase = "select" /\ job'.used = job.used
      /\ job'.first = job.first /\ job'.from = job.from /\ job'.preview = job.preview
      /\ job'.ranked = job.ranked /\ job'.at = at /\ job'.allocated = job.allocated
      /\ job'.channel = c /\ job'.progressed = job.progressed /\ job'.chosen = job.chosen
  BY <1>1, <1>5, <1>6 DEF Job
<1>8. BudgetPart'
  BY <1>1, <1>7 DEF BudgetPart, Late, BuildInv
<1>9. PickPart'
  <2>1. ASSUME NEW d \in Channels PROVE job'.ranked[d] \in Seq(DOMAIN req'.docs[d])
    BY <1>1, <1>7 DEF BuildInv, PickPart
  <2>2. ASSUME NEW d \in Channels PROVE PassedOver(d)'
    <3> SUFFICES ASSUME NEW i \in DOMAIN job.ranked[d], i < at[d],
                        job.ranked[d][i] \notin job.chosen[d]
                 PROVE  Cost(job.used, TokensOf(d, job.ranked[d][i])) > job.allocated
      BY <1>1, <1>7 DEF PassedOver, TokensOf
    <3>1. job.ranked[d] \in Seq(DOMAIN req.docs[d]) /\ PassedOver(d)
      BY DEF BuildInv, PickPart
    <3>2. i \in Nat /\ job.at[d] \in Nat
      BY <1>3, <3>1
    <3>3. CASE d = c /\ i = job.at[c]
      BY <1>4, <3>3 DEF x, Candidate
    <3>4. CASE ~(d = c /\ i = job.at[c])
      <4>1. i < job.at[d]
        BY <1>6, <3>2, <3>4
      <4> QED BY <3>1, <4>1 DEF PassedOver
    <3> QED BY <3>3, <3>4
  <2>3. job'.channel = "knowledge" /\ ~job'.progressed => ~HasNext("memory")'
    <3>1. job.channel = "knowledge" /\ ~job.progressed => ~HasNext("memory")
      BY <1>1 DEF BuildInv, PickPart
    <3>2. c = "knowledge" => (HasNext("memory")' <=> HasNext("memory"))
      BY <1>6, <1>7 DEF HasNext, Channels
    <3> QED BY <1>7, <3>1, <3>2
  <2> QED BY <1>7, <2>1, <2>2, <2>3 DEF PickPart, Early, Late
<1>10. CompactPart'
  BY <1>1, <1>7, NotYetCompacted
<1> QED BY <1>1, <1>7, <1>8, <1>9, <1>10 DEF BuildInv

LEMMA LeaveChannelStep ==
  ASSUME BuildInv, LeaveChannel
  PROVE  BuildInv'
<1>1. /\ job \in Job /\ req \in Requests /\ UNCHANGED req /\ job.phase = "select"
      /\ job.channel \in {"memory", "knowledge"} /\ ~HasNext(job.channel)
  BY JobFields DEF BuildInv, LeaveChannel, Channels
<1>2. \/ job.channel = "memory" /\ job' = [job EXCEPT !.channel = "knowledge", !.progressed = FALSE]
      \/ /\ job.channel = "knowledge" /\ job.progressed
         /\ job' = [job EXCEPT !.channel = "memory", !.progressed = FALSE]
      \/ /\ job.channel = "knowledge" /\ ~job.progressed
         /\ job' = [job EXCEPT !.phase = "compact"]
  BY <1>1 DEF LeaveChannel
<1>3. /\ job' \in Job /\ job'.used = job.used
      /\ job'.first = job.first /\ job'.from = job.from /\ job'.preview = job.preview
      /\ job'.ranked = job.ranked /\ job'.at = job.at /\ job'.allocated = job.allocated
      /\ job'.chosen = job.chosen
      /\ \/ /\ job'.phase = "select" /\ job'.channel = "knowledge" /\ job.channel = "memory"
         \/ job'.phase = "select" /\ job'.channel = "memory"
         \/ job'.phase = "compact" /\ job.channel = "knowledge" /\ ~job.progressed
  BY <1>1, <1>2 DEF Job, Phases, Channels
<1>4. BudgetPart'
  BY <1>1, <1>3 DEF BudgetPart, Late, BuildInv
<1>5. PickPart'
  <2>1. \A c \in Channels : job'.ranked[c] \in Seq(DOMAIN req'.docs[c]) /\ PassedOver(c)'
    BY <1>1, <1>3 DEF BuildInv, PickPart, PassedOver, TokensOf
  <2>2. \A c \in Channels : HasNext(c)' <=> HasNext(c)
    BY <1>1, <1>3 DEF HasNext
  <2>3. job'.phase = "select" /\ job'.channel = "knowledge" => ~HasNext("memory")'
    BY <1>1, <1>3, <2>2 DEF Channels
  <2>4. job'.phase = "compact" => \A c \in Channels : ~HasNext(c)'
    BY <1>1, <1>3, <2>2 DEF BuildInv, PickPart, Channels
  <2> QED BY <1>3, <2>1, <2>3, <2>4 DEF PickPart, Early, Late
<1>6. CompactPart'
  BY <1>1, <1>3, NotYetCompacted
<1> QED BY <1>1, <1>3, <1>4, <1>5, <1>6 DEF BuildInv

(***************************************************************************)
(* The compaction                                                           *)
(***************************************************************************)
\* What a phase after the selection may count on.
LEMMA CompactNow ==
  ASSUME BuildInv, job.phase \in Late
  PROVE  /\ job \in Job /\ req \in Requests
         /\ req.base \in Nat /\ req.window \in Nat /\ job.used \in Nat
         /\ req.base + job.used <= req.window /\ Rest = req.window - (req.base + job.used)
         /\ Rest \in Nat
         /\ job.first \in 1..Len(req.tail) /\ job.from \in job.first..Len(req.tail)
         /\ Len(req.tail) \in Nat /\ Observations = Len(req.tail) - 1
         /\ job.items \in Nat /\ job.preview \in BOOLEAN
         /\ job.phase \in {"shrink", "check", "built"} => job.budget = Rest
         /\ Compacted(job.from, job.items, job.preview) \in Nat
         /\ CompactionIsFrugal
<1>1. /\ job \in Job /\ req \in Requests /\ req.base \in Nat /\ req.window \in Nat
      /\ job.used \in Nat /\ job.allocated \in Nat /\ job.items \in Nat
      /\ job.preview \in BOOLEAN /\ Len(req.tail) \in Nat
  BY JobFields, RequestFieldsOf DEF BuildInv
<1>2. req.base <= req.window /\ job.allocated <= req.window - req.base /\ job.used <= job.allocated
  BY DEF BuildInv, BudgetPart
<1>3. /\ req.base + job.used <= req.window /\ Rest = req.window - (req.base + job.used)
      /\ Rest \in Nat
  BY <1>1, <1>2 DEF Rest
<1>4. /\ job.first \in 1..Len(req.tail) /\ job.from \in job.first..Len(req.tail)
      /\ job.phase \in {"shrink", "check", "built"} =>
           job.budget = req.window - (req.base + job.used)
      /\ CompactionIsFrugal
  BY DEF BuildInv, CompactPart
<1>5. job.from \in 1..Len(req.tail)
  BY <1>1, <1>4
<1> QED BY <1>1, <1>3, <1>4, <1>5, CompactedNatural DEF Observations

\* The selection and the budgets are settled.
LEMMA Settled ==
  ASSUME BuildInv, UNCHANGED req, job.phase \in Late, job' \in Job,
         job'.phase \in Late, job'.ranked = job.ranked, job'.at = job.at,
         job'.chosen = job.chosen, job'.used = job.used, job'.allocated = job.allocated,
         CompactPart'
  PROVE  BuildInv'
<1>1. PickPart'
  BY PickKept
<1>2. BudgetPart'
  BY DEF BuildInv, BudgetPart, Late
<1> QED BY <1>1, <1>2 DEF BuildInv

LEMMA KeepObservationsStep ==
  ASSUME BuildInv, KeepObservations
  PROVE  BuildInv'
<1>1. /\ job.phase = "compact" /\ req.tail[1] <= Rest /\ UNCHANGED req
      /\ job' = [job EXCEPT !.phase = "check", !.budget = Rest, !.observed = req.tail[1]]
  BY DEF KeepObservations
<1>2. req.tail[1] \in Nat /\ Rest \in Nat
  <2>1. Rest \in Nat /\ req \in Requests
    BY <1>1, CompactNow DEF Late
  <2> QED BY <2>1, RequestFieldsOf
<1>3. /\ job' \in Job /\ job'.phase = "check" /\ job'.ranked = job.ranked /\ job'.at = job.at
      /\ job'.chosen = job.chosen /\ job'.used = job.used /\ job'.allocated = job.allocated
      /\ job'.first = job.first /\ job'.from = job.from /\ job'.budget = Rest
      /\ job'.observed = req.tail[1]
  BY <1>1, <1>2 DEF BuildInv, Job, Phases
<1>4. CompactionIsFrugal'
  BY <1>1, <1>2, <1>3 DEF CompactionIsFrugal
<1>5. CompactPart'
  BY <1>1, <1>3, <1>4, CompactNow DEF CompactPart, Early, Late
<1> QED BY <1>1, <1>3, <1>5, Settled DEF Late

LEMMA TrimObservationsStep ==
  ASSUME BuildInv, TrimObservations
  PROVE  BuildInv'
<1>1. PICK from \in 1..Observations + 1 :
        job' = [job EXCEPT !.phase = "shrink", !.budget = Rest, !.first = from,
                           !.from = from, !.items = from - 1]
  BY DEF TrimObservations
<1>2. /\ job.phase = "compact" /\ UNCHANGED req /\ job \in Job /\ Rest \in Nat
      /\ Len(req.tail) \in Nat /\ from \in 1..Len(req.tail)
      /\ Rest = req.window - (req.base + job.used)
  BY CompactNow DEF TrimObservations, Late
<1>3. job.preview = TRUE
  BY <1>2, JobFields DEF BuildInv, CompactPart
<1>4. /\ job' \in Job /\ job'.phase = "shrink" /\ job'.ranked = job.ranked /\ job'.at = job.at
      /\ job'.chosen = job.chosen /\ job'.used = job.used /\ job'.allocated = job.allocated
      /\ job'.first = from /\ job'.from = from /\ job'.budget = Rest /\ job'.items = from - 1
      /\ job'.preview = job.preview
  <2>1. from \in Nat /\ from - 1 \in Nat
    BY <1>2
  <2> QED BY <1>1, <1>2, <2>1 DEF Job, Phases
<1>5. CompactionIsFrugal'
  <2>1. \A k : k \notin from..from - 1
    BY <1>2
  <2> QED BY <1>2, <1>4, <2>1 DEF CompactionIsFrugal
<1>6. CompactPart'
  BY <1>2, <1>3, <1>4, <1>5 DEF CompactPart, Early
<1> QED BY <1>2, <1>4, <1>6, Settled DEF Late

LEMMA AcceptCompactionStep ==
  ASSUME BuildInv, AcceptCompaction
  PROVE  BuildInv'
<1> DEFINE size == Compacted(job.from, job.items, job.preview)
<1>1. /\ job.phase = "shrink" /\ UNCHANGED req /\ size <= job.budget
      /\ job' = [job EXCEPT !.phase = "check", !.observed = size]
  BY DEF AcceptCompaction, FitsBudget
<1>2. /\ job \in Job /\ size \in Nat /\ job.budget = req.window - (req.base + job.used)
      /\ job.first \in 1..Len(req.tail) /\ job.from \in job.first..Len(req.tail)
      /\ CompactionIsFrugal
  BY <1>1, CompactNow DEF Late
<1>3. \A j, i, p : Compacted(j, i, p)' = Compacted(j, i, p)
  BY <1>1 DEF Compacted
<1> HIDE DEF size
<1>4. /\ job' \in Job /\ job'.phase = "check" /\ job'.ranked = job.ranked /\ job'.at = job.at
      /\ job'.chosen = job.chosen /\ job'.used = job.used /\ job'.allocated = job.allocated
      /\ job'.first = job.first /\ job'.from = job.from /\ job'.budget = job.budget
      /\ job'.items = job.items /\ job'.preview = job.preview /\ job'.observed = size
  BY <1>1, <1>2 DEF Job, Phases
<1>5. CompactionIsFrugal'
  <2> SUFFICES ASSUME req.tail[1] > job.budget
               PROVE  /\ \A k \in job.first..job.from - 1 : Compacted(k, k - 1, TRUE)' > job.budget
                      /\ size = 0 => Compacted(job.from, job.items, job.preview)' = 0
    BY <1>1, <1>4 DEF CompactionIsFrugal
  <2>1. \A k \in job.first..job.from - 1 : Compacted(k, k - 1, TRUE) > job.budget
    BY <1>1, <1>2 DEF CompactionIsFrugal
  <2>2. Compacted(job.from, job.items, job.preview)' = size
    BY <1>1, <1>4 DEF Compacted, size
  <2> QED BY <1>3, <2>1, <2>2
<1>6. CompactPart'
  BY <1>1, <1>2, <1>4, <1>5 DEF CompactPart, Early
<1> QED BY <1>1, <1>4, <1>6, Settled DEF Late

LEMMA DropOldestRetainedStep ==
  ASSUME BuildInv, DropOldestRetained
  PROVE  BuildInv'
<1>1. /\ job.phase = "shrink" /\ UNCHANGED req /\ job.from <= Observations
      /\ ~(Compacted(job.from, job.items, job.preview) <= job.budget)
      /\ job' = [job EXCEPT !.from = @ + 1, !.items = job.from]
  BY DEF DropOldestRetained, FitsBudget
<1>2. /\ job \in Job /\ job.budget = req.window - (req.base + job.used) /\ job.budget \in Nat
      /\ job.first \in 1..Len(req.tail) /\ job.from \in job.first..Len(req.tail)
      /\ Compacted(job.from, job.items, job.preview) \in Nat
      /\ CompactionIsFrugal /\ Len(req.tail) \in Nat /\ Observations = Len(req.tail) - 1
  BY <1>1, CompactNow DEF Late
<1>3. job.preview = TRUE /\ job.items = job.from - 1
  BY <1>1, JobFields DEF BuildInv, CompactPart
<1>4. Compacted(job.from, job.from - 1, TRUE) > job.budget
  <2>1. Compacted(job.from, job.items, job.preview) = Compacted(job.from, job.from - 1, TRUE)
    BY <1>3, Zenon
  <2>2. Compacted(job.from, job.items, job.preview) > job.budget
    BY <1>1, <1>2
  <2> QED BY <2>1, <2>2, Zenon
<1>5. /\ job' \in Job /\ job'.phase = "shrink" /\ job'.ranked = job.ranked /\ job'.at = job.at
      /\ job'.chosen = job.chosen /\ job'.used = job.used /\ job'.allocated = job.allocated
      /\ job'.first = job.first /\ job'.from = job.from + 1 /\ job'.budget = job.budget
      /\ job'.items = job.from /\ job'.preview = job.preview
  <2>1. job.from \in Nat /\ job.from + 1 \in Nat
    BY <1>2
  <2> QED BY <1>1, <1>2, <2>1 DEF Job, Phases
<1>6. CompactionIsFrugal'
  <2> SUFFICES ASSUME req.tail[1] > job.budget, NEW k \in job.first..(job.from + 1) - 1
               PROVE  Compacted(k, k - 1, TRUE)' > job.budget
    BY <1>1, <1>5 DEF CompactionIsFrugal
  <2>1. Compacted(k, k - 1, TRUE)' = Compacted(k, k - 1, TRUE)
    BY <1>1 DEF Compacted
  <2>2. CASE k = job.from
    BY <1>4, <2>1, <2>2
  <2>3. CASE k # job.from
    <3>1. k \in job.first..job.from - 1
      BY <1>2, <2>3
    <3> QED BY <1>1, <1>2, <2>1, <3>1 DEF CompactionIsFrugal
  <2> QED BY <2>2, <2>3
<1>7. CompactPart'
  BY <1>1, <1>2, <1>3, <1>5, <1>6 DEF CompactPart, Early
<1> QED BY <1>1, <1>5, <1>7, Settled DEF Late

\* A shorter summary of observations that are all dropped.
LEMMA ShortenSteps ==
  ASSUME BuildInv, DropPreviews \/ DropItem
  PROVE  BuildInv'
<1>1. PICK preview \in BOOLEAN, items \in Nat :
        job' = [job EXCEPT !.preview = preview, !.items = items]
  <2>1. job \in Job /\ job.preview \in BOOLEAN /\ job.items \in Nat
    BY JobFields DEF BuildInv
  <2>2. CASE DropPreviews
    <3>1. job' = [job EXCEPT !.preview = FALSE] /\ FALSE \in BOOLEAN
      BY <2>2 DEF DropPreviews
    <3>2. [job EXCEPT !.preview = FALSE] = [job EXCEPT !.preview = FALSE, !.items = job.items]
      BY <2>1 DEF Job
    <3> QED BY <2>1, <3>1, <3>2
  <2>3. CASE DropItem
    <3>1. job' = [job EXCEPT !.items = job.items - 1] /\ job.items - 1 \in Nat
      BY <2>1, <2>3 DEF DropItem, Job
    <3>2. [job EXCEPT !.items = job.items - 1]
            = [job EXCEPT !.preview = job.preview, !.items = job.items - 1]
      BY <2>1 DEF Job
    <3> QED BY <2>1, <3>1, <3>2
  <2> QED BY <2>2, <2>3
<1>2. job.phase = "shrink" /\ UNCHANGED req /\ job.from = Observations + 1
  BY DEF DropPreviews, DropItem, Shortenable
<1>3. /\ job \in Job /\ job.budget = req.window - (req.base + job.used)
      /\ job.first \in 1..Len(req.tail) /\ job.from \in job.first..Len(req.tail)
      /\ CompactionIsFrugal /\ Len(req.tail) \in Nat /\ Observations = Len(req.tail) - 1
  BY <1>2, CompactNow DEF Late
<1>4. /\ job' \in Job /\ job'.phase = "shrink" /\ job'.ranked = job.ranked /\ job'.at = job.at
      /\ job'.chosen = job.chosen /\ job'.used = job.used /\ job'.allocated = job.allocated
      /\ job'.first = job.first /\ job'.from = job.from /\ job'.budget = job.budget
  BY <1>1, <1>2, <1>3 DEF Job, Phases
<1>5. CompactionIsFrugal'
  <2> SUFFICES ASSUME req.tail[1] > job.budget, NEW k \in job.first..job.from - 1
               PROVE  Compacted(k, k - 1, TRUE)' > job.budget
    BY <1>2, <1>4 DEF CompactionIsFrugal
  <2>1. Compacted(k, k - 1, TRUE)' = Compacted(k, k - 1, TRUE)
    BY <1>2 DEF Compacted
  <2> QED BY <1>2, <1>3, <2>1 DEF CompactionIsFrugal
<1>6. ~(job'.from <= Observations')
  BY <1>2, <1>3, <1>4 DEF Observations
<1>7. CompactPart'
  BY <1>2, <1>3, <1>4, <1>5, <1>6 DEF CompactPart, Early
<1> QED BY <1>2, <1>4, <1>7, Settled DEF Late

LEMMA GiveUpSummaryStep ==
  ASSUME BuildInv, GiveUpSummary
  PROVE  BuildInv'
<1>1. /\ job.phase = "shrink" /\ UNCHANGED req /\ job.from = Observations + 1 /\ job.items = 0
      /\ ~(Compacted(job.from, job.items, job.preview) <= job.budget)
      /\ job' = [job EXCEPT !.phase = "check", !.observed = 0]
  BY DEF GiveUpSummary, Shortenable, FitsBudget
<1>2. /\ job \in Job /\ req \in Requests /\ job.budget = req.window - (req.base + job.used)
      /\ job.budget \in Nat /\ job.preview \in BOOLEAN
      /\ job.first \in 1..Len(req.tail) /\ job.from \in job.first..Len(req.tail)
      /\ Compacted(job.from, job.items, job.preview) \in Nat
      /\ CompactionIsFrugal /\ Len(req.tail) \in Nat /\ Observations = Len(req.tail) - 1
  BY <1>1, CompactNow DEF Late
<1>3. Frame > job.budget
  <2>1. job.from \in 1..Len(req.tail) /\ job.from = Len(req.tail)
    BY <1>1, <1>2
  <2>2. Compacted(job.from, 0, job.preview) = IF job.from = 1 THEN 0 ELSE Frame
    BY <1>2, <2>1, CompactedNatural
  <2>3. Frame \in Nat
    BY RequestsAssumption
  <2> QED BY <1>1, <1>2, <2>2, <2>3
<1>4. /\ job' \in Job /\ job'.phase = "check" /\ job'.ranked = job.ranked /\ job'.at = job.at
      /\ job'.chosen = job.chosen /\ job'.used = job.used /\ job'.allocated = job.allocated
      /\ job'.first = job.first /\ job'.from = job.from /\ job'.budget = job.budget
      /\ job'.observed = 0
  BY <1>1, <1>2 DEF Job, Phases
<1>5. CompactionIsFrugal'
  <2> SUFFICES ASSUME req.tail[1] > job.budget
               PROVE  \A k \in job.first..job.from - 1 : Compacted(k, k - 1, TRUE)' > job.budget
    BY <1>1, <1>3, <1>4 DEF CompactionIsFrugal
  <2>1. \A k \in job.first..job.from - 1 : Compacted(k, k - 1, TRUE) > job.budget
    BY <1>1, <1>2 DEF CompactionIsFrugal
  <2>2. \A k : Compacted(k, k - 1, TRUE)' = Compacted(k, k - 1, TRUE)
    BY <1>1 DEF Compacted
  <2> QED BY <2>1, <2>2
<1>6. CompactPart'
  BY <1>1, <1>2, <1>4, <1>5 DEF CompactPart, Early
<1> QED BY <1>1, <1>4, <1>6, Settled DEF Late

\* The last check never fails.
LEMMA CheckRequestStep ==
  ASSUME BuildInv, CheckRequest
  PROVE  BuildInv'
<1>1. job.phase = "check" /\ UNCHANGED req
  BY DEF CheckRequest
<1>2. /\ job \in Job /\ job.budget = req.window - (req.base + job.used)
      /\ job.first \in 1..Len(req.tail) /\ job.from \in job.first..Len(req.tail)
      /\ req.base \in Nat /\ req.window \in Nat /\ job.used \in Nat /\ job.observed \in Nat
      /\ job.observed <= job.budget /\ CompactionIsFrugal
  BY <1>1, CompactNow, JobFields DEF BuildInv, CompactPart, Late
<1>3. req.base + job.used + job.observed <= req.window
  BY <1>2
<1>4. job' = [job EXCEPT !.phase = "built"]
  BY <1>3 DEF CheckRequest
<1>5. /\ job' \in Job /\ job'.phase = "built" /\ job'.ranked = job.ranked /\ job'.at = job.at
      /\ job'.chosen = job.chosen /\ job'.used = job.used /\ job'.allocated = job.allocated
      /\ job'.first = job.first /\ job'.from = job.from /\ job'.budget = job.budget
      /\ job'.items = job.items /\ job'.preview = job.preview /\ job'.observed = job.observed
  BY <1>2, <1>4 DEF Job, Phases
<1>6. CompactionIsFrugal'
  <2>1. \A j, i, p : Compacted(j, i, p)' = Compacted(j, i, p)
    BY <1>1 DEF Compacted
  <2>2. Compacted(job.from, job.items, job.preview)' = Compacted(job.from, job.items, job.preview)
    BY <1>1, <1>5 DEF Compacted
  <2> SUFFICES ASSUME req.tail[1] > job.budget
               PROVE  /\ \A k \in job.first..job.from - 1 : Compacted(k, k - 1, TRUE)' > job.budget
                      /\ job.observed = 0 =>
                           Frame > job.budget \/ Compacted(job.from, job.items, job.preview)' = 0
    BY <1>1, <1>5 DEF CompactionIsFrugal
  <2> QED BY <1>1, <1>2, <2>1, <2>2 DEF CompactionIsFrugal
<1>7. CompactPart'
  BY <1>1, <1>2, <1>5, <1>6 DEF CompactPart, Early
<1> QED BY <1>1, <1>5, <1>7, Settled DEF Late

LEMMA BuildInvStep ==
  ASSUME BuildInv, [RequestNext]_requestVars
  PROVE  BuildInv'
<1>1. CASE UNCHANGED requestVars
  <2>1. UNCHANGED <<req, job>>
    BY <1>1 DEF requestVars
  <2>2. BudgetPart' /\ PickPart'
    BY <2>1 DEF BuildInv, BudgetPart, PickPart, PassedOver, HasNext, TokensOf
  <2>3. CompactPart'
    BY <2>1 DEF BuildInv, CompactPart, Observations, CompactionIsFrugal, Compacted
  <2> QED BY <2>1, <2>2, <2>3 DEF BuildInv
<1>2. CASE RequestNext
  BY <1>2, BetweenSteps, MeasureStep, RankStep, TakeCandidateStep, SkipCandidateStep,
     LeaveChannelStep, KeepObservationsStep, TrimObservationsStep, AcceptCompactionStep,
     DropOldestRetainedStep, ShortenSteps, GiveUpSummaryStep, CheckRequestStep
     DEF RequestNext, BuildRequest
<1> QED BY <1>1, <1>2

(***************************************************************************)
(* Theorems                                                                 *)
(***************************************************************************)
\* What one phase of a request leaves to the next.
THEOREM BuildInvariant == RequestSpec => []BuildInv
<1>1. BuildInv /\ [RequestNext]_requestVars => BuildInv'
  BY BuildInvStep
<1> QED BY InitBuildInv, <1>1, PTL DEF RequestSpec

\* The build is well formed at every step.
THEOREM RequestTypeCorrect == RequestSpec => []RequestTypeOK
<1>1. BuildInv => RequestTypeOK
  BY JobFields DEF BuildInv, CompactPart, RequestTypeOK
<1> QED BY BuildInvariant, <1>1, PTL

\* _build_request: for all sizes and limits a request is refused only if its protected
\* prompt alone exceeds the window; the check of the finished request never fails.
THEOREM RefusedOnlyIfBaseTooBigHolds == RequestSpec => []RefusedOnlyIfBaseTooBig
<1>1. ASSUME BuildInv PROVE RefusedOnlyIfBaseTooBig
  <2>1. job.phase = "refused" => req.base > req.window
    BY <1>1 DEF BuildInv, BudgetPart
  <2>2. ASSUME job.phase = "built" PROVE req.base + job.used + job.observed <= req.window
    <3>1. /\ req.base \in Nat /\ req.window \in Nat /\ job.used \in Nat /\ job.observed \in Nat
          /\ job.budget = req.window - (req.base + job.used)
      BY <1>1, <2>2, CompactNow, JobFields DEF Late
    <3>2. job.observed <= job.budget
      BY <1>1, <2>2 DEF BuildInv, CompactPart
    <3> QED BY <3>1, <3>2
  <2> QED BY <2>1, <2>2 DEF RefusedOnlyIfBaseTooBig
<1> QED BY BuildInvariant, <1>1, PTL

\* _select_under_budget: whatever the rankings, the sizes and the limits, the rounds leave
\* no candidate out that would fit.
THEOREM SelectionIsMaximalHolds == RequestSpec => []SelectionIsMaximal
<1>1. ASSUME BuildInv PROVE SelectionIsMaximal
  <2> SUFFICES ASSUME job.phase \in Late, NEW c \in Channels,
                      Cardinality(job.chosen[c]) < Limit(c),
                      NEW i \in DOMAIN job.ranked[c], job.ranked[c][i] \notin job.chosen[c]
               PROVE  Cost(job.used, TokensOf(c, job.ranked[c][i])) > job.allocated
    BY DEF SelectionIsMaximal, Selected, Late
  <2>1. ~(job.at[c] <= Len(job.ranked[c]))
    BY <1>1 DEF BuildInv, PickPart, HasNext
  <2>2. /\ job.ranked[c] \in Seq(DOMAIN req.docs[c]) /\ PassedOver(c) /\ job.at[c] \in Nat
    BY <1>1, JobFields DEF BuildInv, PickPart
  <2>3. i < job.at[c]
    BY <2>1, <2>2
  <2> QED BY <2>2, <2>3 DEF PassedOver
<1> QED BY BuildInvariant, <1>1, PTL

\* _compact_observations: for all sizes, an observation is given up only if it does not fit
\* with the summary of those before it, and the summary only if its frame does not fit.
THEOREM CompactionIsFrugalHolds == RequestSpec => []CompactionIsFrugal
<1>1. BuildInv => CompactionIsFrugal
  BY DEF BuildInv, CompactPart
<1> QED BY BuildInvariant, <1>1, PTL

(***************************************************************************)
(* The rankings                                                             *)
(*                                                                          *)
(* In one ranking a document that leads another has fewer leaders, hence the *)
(* larger share.  If no ranking in use puts x before y and one puts y before *)
(* x, every share of y is at least that of x and one is larger, so that y is *)
(* fused before x.                                                          *)
(***************************************************************************)
Names == {"lexical", "semantic", "prior"}

\* Documents whose rankings have positions of whole units.
Documents(docs) ==
  /\ docs \in Seq(Document)
  /\ \A position \in 1..Len(docs) : Unit % (RRF_K + position) = 0

LEMMA ScoreNatural ==
  ASSUME NEW docs \in Seq(Document), NEW l \in Names, NEW x \in DOMAIN docs
  PROVE  Score(docs[x], l) \in Nat /\ x \in Nat
<1>1. docs[x] \in Document /\ x \in Nat
  OBVIOUS
<1> QED BY <1>1 DEF Score, Names, Document

LEMMA TermDecreases ==
  ASSUME NEW p \in Nat, NEW q \in Nat, p < q,
         Unit % (RRF_K + p) = 0, Unit % (RRF_K + q) = 0
  PROVE  Term(p) \in Nat /\ Term(q) \in Nat \ {0} /\ Term(q) < Term(p)
<1> DEFINE a == RRF_K + p  b == RRF_K + q
<1>1. a \in Nat \ {0} /\ b \in Nat \ {0} /\ a < b /\ Unit \in Nat \ {0}
  BY UnitAssumption DEF RRF_K
<1>2. Unit % a = 0 /\ Unit % b = 0 /\ Term(p) = Unit \div a /\ Term(q) = Unit \div b
  BY DEF Term
<1> HIDE DEF a, b
<1>3. (Unit \div a) * a = Unit /\ Unit \div a \in Nat
  BY <1>1, <1>2, SMTT(30)
<1>4. (Unit \div b) * b = Unit /\ Unit \div b \in Nat
  BY <1>1, <1>2, SMTT(30)
<1>5. PICK m \in Nat, n \in Nat : /\ m = Unit \div a /\ n = Unit \div b
                               /\ m * a = Unit /\ n * b = Unit
  BY <1>3, <1>4
<1>6. n # 0 /\ n < m
  BY <1>1, <1>5, SMTT(30)
<1> QED BY <1>2, <1>5, <1>6

LEMMA TermPositive ==
  ASSUME NEW p \in Nat, Unit % (RRF_K + p) = 0
  PROVE  Term(p) \in Nat /\ Term(p) > 0
<1> DEFINE a == RRF_K + p
<1>1. a \in Nat \ {0} /\ Unit \in Nat \ {0} /\ Unit % a = 0 /\ Term(p) = Unit \div a
  BY UnitAssumption DEF RRF_K, Term
<1> HIDE DEF a
<1>2. (Unit \div a) * a = Unit /\ Unit \div a \in Nat
  BY <1>1, SMTT(30)
<1>3. PICK m \in Nat : m = Unit \div a /\ m * a = Unit
  BY <1>2
<1>4. m # 0
  BY <1>1, <1>3, SMTT(30)
<1> QED BY <1>1, <1>3, <1>4

LEMMA PositionBounded ==
  ASSUME NEW docs \in Seq(Document), NEW l \in Names,
         NEW x \in Visible(docs), Score(docs[x], l) > 0
  PROVE  /\ Position(docs, l, x) \in 1..Len(docs)
         /\ IsFiniteSet({z \in Visible(docs) : Leads(docs, l, z, x)})
<1> DEFINE leaders == {z \in Visible(docs) : Leads(docs, l, z, x)}
<1>1. DOMAIN docs = 1..Len(docs) /\ Len(docs) \in Nat
  OBVIOUS
<1>2. leaders \subseteq 1..Len(docs)
  BY <1>1 DEF Visible
<1>3. IsFiniteSet(1..Len(docs)) /\ Cardinality(1..Len(docs)) = Len(docs)
  BY <1>1, FS_Interval
<1>4. x \in leaders
  <2>1. x \in DOMAIN docs
    BY DEF Visible
  <2> QED BY <2>1, ScoreNatural DEF Leads
<1> HIDE DEF leaders
<1>5. IsFiniteSet(leaders) /\ Cardinality(leaders) \in Nat /\ Cardinality(leaders) <= Len(docs)
  BY <1>2, <1>3, FS_Subset, FS_CardinalityType
<1>6. Cardinality(leaders) # 0
  BY <1>4, <1>5, FS_EmptySet
<1>7. Position(docs, l, x) = Cardinality(leaders)
  BY DEF Position, leaders
<1> QED BY <1>1, <1>5, <1>6, <1>7 DEF leaders

LEMMA PositionExact ==
  ASSUME NEW docs, Documents(docs), NEW l \in Names,
         NEW x \in Visible(docs), Score(docs[x], l) > 0
  PROVE  Position(docs, l, x) \in Nat /\ Unit % (RRF_K + Position(docs, l, x)) = 0
<1>1. docs \in Seq(Document)
  BY DEF Documents
<1>2. Len(docs) \in Nat
  BY <1>1
<1>3. PICK p \in 1..Len(docs) : p = Position(docs, l, x)
  BY <1>1, PositionBounded
<1>4. Unit % (RRF_K + p) = 0
  BY DEF Documents
<1> QED BY <1>2, <1>3, <1>4

LEMMA LeaderIsFirst ==
  ASSUME NEW docs \in Seq(Document), NEW l \in Names,
         NEW x \in Visible(docs), NEW y \in Visible(docs), x # y,
         Score(docs[y], l) > 0, Leads(docs, l, x, y)
  PROVE  Position(docs, l, x) < Position(docs, l, y)
<1> DEFINE before == {z \in Visible(docs) : Leads(docs, l, z, x)}
           leaders == {z \in Visible(docs) : Leads(docs, l, z, y)}
<1>1. \A z \in Visible(docs) : z \in Nat /\ Score(docs[z], l) \in Nat
  BY ScoreNatural DEF Visible
<1>2. before \subseteq leaders
  BY <1>1 DEF Leads
<1>3. y \in leaders /\ y \notin before
  BY <1>1 DEF Leads
<1>4. Score(docs[x], l) > 0
  BY DEF Leads
<1>5. IsFiniteSet(before) /\ IsFiniteSet(leaders)
  BY <1>4, PositionBounded
<1> HIDE DEF before, leaders
<1>6. /\ Cardinality(before) \in Nat /\ Cardinality(leaders) \in Nat
      /\ Cardinality(before) < Cardinality(leaders)
  BY <1>2, <1>3, <1>5, FS_Subset, FS_CardinalityType
<1>7. /\ Position(docs, l, x) = Cardinality(before)
      /\ Position(docs, l, y) = Cardinality(leaders)
  BY DEF Position, before, leaders
<1> QED BY <1>6, <1>7

LEMMA ShareOfLeader ==
  ASSUME NEW docs, Documents(docs), NEW l \in Names,
         NEW x \in Visible(docs), NEW y \in Visible(docs), x # y, Leads(docs, l, x, y)
  PROVE  Share(docs, l, y) < Share(docs, l, x)
<1>1. docs \in Seq(Document) /\ x \in DOMAIN docs /\ y \in DOMAIN docs
  BY DEF Documents, Visible
<1>2. Score(docs[x], l) > 0 /\ Score(docs[x], l) \in Nat /\ Score(docs[y], l) \in Nat
  BY <1>1, ScoreNatural DEF Leads
<1>3. Position(docs, l, x) \in Nat /\ Unit % (RRF_K + Position(docs, l, x)) = 0
  BY <1>2, PositionExact
<1>4. Share(docs, l, x) = Term(Position(docs, l, x))
  BY <1>2 DEF Share
<1>5. CASE Score(docs[y], l) = 0
  <2>1. Share(docs, l, y) = 0
    BY <1>5 DEF Share
  <2>2. Term(Position(docs, l, x)) > 0
    BY <1>3, TermPositive
  <2> QED BY <1>4, <2>1, <2>2
<1>6. CASE Score(docs[y], l) # 0
  <2>1. Score(docs[y], l) > 0
    BY <1>2, <1>6
  <2>2. Position(docs, l, y) \in Nat /\ Unit % (RRF_K + Position(docs, l, y)) = 0
    BY <2>1, PositionExact
  <2>3. Position(docs, l, x) < Position(docs, l, y)
    BY <1>1, <2>1, LeaderIsFirst
  <2>4. Term(Position(docs, l, y)) < Term(Position(docs, l, x))
    BY <1>3, <2>2, <2>3, TermDecreases
  <2> QED BY <1>4, <1>6, <2>4 DEF Share
<1> QED BY <1>5, <1>6

LEMMA ShareNatural ==
  ASSUME NEW docs, Documents(docs), NEW l \in Names, NEW x \in Visible(docs)
  PROVE  Share(docs, l, x) \in Nat
<1>1. docs \in Seq(Document) /\ x \in DOMAIN docs
  BY DEF Documents, Visible
<1>2. CASE Score(docs[x], l) = 0
  BY <1>2 DEF Share
<1>3. CASE Score(docs[x], l) # 0
  <2>1. Score(docs[x], l) > 0
    BY <1>1, <1>3, ScoreNatural
  <2>2. Position(docs, l, x) \in Nat /\ Unit % (RRF_K + Position(docs, l, x)) = 0
    BY <2>1, PositionExact
  <2> QED BY <1>3, <2>2, TermPositive DEF Share
<1> QED BY <1>2, <1>3

\* A ranking that does not put x before y gives y at least the share of x.
LEMMA ShareUnlessLed ==
  ASSUME NEW docs, Documents(docs), NEW l \in Names,
         NEW x \in Visible(docs), NEW y \in Visible(docs), x # y, ~Leads(docs, l, x, y)
  PROVE  Share(docs, l, x) <= Share(docs, l, y)
<1>1. /\ docs \in Seq(Document) /\ x \in DOMAIN docs /\ y \in DOMAIN docs
      /\ Share(docs, l, x) \in Nat /\ Share(docs, l, y) \in Nat
  BY ShareNatural DEF Documents, Visible
<1>2. /\ Score(docs[x], l) \in Nat /\ Score(docs[y], l) \in Nat /\ x \in Nat /\ y \in Nat
  BY <1>1, ScoreNatural
<1>3. CASE Score(docs[x], l) = 0
  BY <1>1, <1>3 DEF Share
<1>4. CASE Score(docs[x], l) # 0
  <2>1. Leads(docs, l, y, x)
    BY <1>2, <1>4 DEF Leads
  <2> QED BY <1>1, <2>1, ShareOfLeader
<1> QED BY <1>3, <1>4

InUse(semantic) == {"lexical", "prior"} \cup (IF semantic THEN {"semantic"} ELSE {})

\* rank_hybrid_documents: fusion keeps what the rankings in use agree on.
LEMMA FusionKeepsAgreement ==
  ASSUME NEW docs, Documents(docs), NEW semantic \in BOOLEAN,
         NEW x \in Visible(docs), NEW y \in Visible(docs), x # y,
         NEW l \in InUse(semantic), Leads(docs, l, y, x),
         \A k \in InUse(semantic) : ~Leads(docs, k, x, y)
  PROVE  Fused(docs, semantic, x) < Fused(docs, semantic, y)
<1>1. \A k \in Names : Share(docs, k, x) \in Nat /\ Share(docs, k, y) \in Nat
  BY ShareNatural
<1>2. InUse(semantic) \subseteq Names
  BY DEF InUse, Names
<1>3. \A k \in InUse(semantic) : Share(docs, k, x) <= Share(docs, k, y)
  BY <1>2, ShareUnlessLed
<1>4. Share(docs, l, x) < Share(docs, l, y)
  BY <1>2, ShareOfLeader
<1> QED BY <1>1, <1>3, <1>4 DEF Fused, InUse, Names

LEMMA OrdersKeepAgreement ==
  ASSUME NEW docs, Documents(docs), NEW semantic \in BOOLEAN, NEW o \in Orders(docs, semantic),
         NEW i \in DOMAIN o, NEW j \in DOMAIN o, i < j,
         \E l \in InUse(semantic) : Leads(docs, l, o[j], o[i])
  PROVE  \E l \in InUse(semantic) : Leads(docs, l, o[i], o[j])
<1> DEFINE found == Ranked(docs, semantic)
<1>1. o \in [1..Cardinality(found) -> found]
  BY DEF Orders
<1>2. o[i] \in Visible(docs) /\ o[j] \in Visible(docs)
  BY <1>1 DEF Ranked
<1>3. \/ Fused(docs, semantic, o[i]) > Fused(docs, semantic, o[j])
      \/ Fused(docs, semantic, o[i]) = Fused(docs, semantic, o[j]) /\ o[i] < o[j]
  BY <1>1 DEF Orders
<1>4. /\ Fused(docs, semantic, o[i]) \in Nat /\ Fused(docs, semantic, o[j]) \in Nat
      /\ o[i] \in Nat /\ o[j] \in Nat
  <2>1. \A x \in Visible(docs) : x \in Nat
    BY DEF Visible, Documents
  <2>2. \A x \in Visible(docs), l \in Names : Share(docs, l, x) \in Nat
    BY ShareNatural
  <2> QED BY <1>2, <2>1, <2>2 DEF Fused, Names
<1>5. o[i] # o[j]
  BY <1>3, <1>4
<1> QED BY <1>2, <1>3, <1>4, <1>5, FusionKeepsAgreement

\* The candidates of a channel are one of the orders of its documents.
RankPart ==
  \A c \in Channels :
    /\ job.phase \in Early => job.ranked[c] = <<>>
    /\ job.ranked[c] = <<>> \/ job.ranked[c] \in Orders(req.docs[c], job.semantic[c])

LEMMA NoDocumentsNoOrder ==
  ASSUME NEW semantic, NEW o \in Orders(<<>>, semantic)
  PROVE  o = <<>>
<1>1. Ranked(<<>>, semantic) = {}
  BY DEF Ranked, Visible
<1>2. o \in [1..0 -> {}]
  BY <1>1, FS_EmptySet DEF Orders
<1> QED BY <1>2

LEMMA EligibleOrders ==
  ASSUME NEW r \in Requests, NEW c \in Channels, NEW semantic \in BOOLEAN,
         NEW o \in RankingsOf[r][c][semantic]
  PROVE  o = <<>> \/ o \in Orders(r.docs[c], semantic)
<1>1. o \in Orders(Eligible(r, c), semantic)
  BY DEF RankingsOf
<1>2. CASE Limit(c) = 0
  <2>1. Eligible(r, c) = <<>>
    BY <1>2 DEF Eligible
  <2> QED BY <1>1, <2>1, NoDocumentsNoOrder
<1>3. CASE Limit(c) # 0
  BY <1>1, <1>3 DEF Eligible
<1> QED BY <1>2, <1>3

LEMMA RankRanks ==
  ASSUME BuildInv, RankPart, Rank
  PROVE  RankPart'
<1>1. job \in Job /\ req \in Requests /\ UNCHANGED req
  BY DEF BuildInv, Rank
<1>2. PICK semantic \in [Channels -> BOOLEAN] :
        \E m \in RankingsOf[req]["memory"][semantic["memory"]],
           k \in RankingsOf[req]["knowledge"][semantic["knowledge"]] :
             job' = [job EXCEPT !.phase = "select", !.semantic = semantic,
                      !.ranked = IF job.allocated = 0 THEN @
                                 ELSE [c \in Channels |-> IF c = "memory" THEN m ELSE k]]
  BY DEF Rank
<1>3. PICK m \in RankingsOf[req]["memory"][semantic["memory"]],
           k \in RankingsOf[req]["knowledge"][semantic["knowledge"]] :
             job' = [job EXCEPT !.phase = "select", !.semantic = semantic,
                      !.ranked = IF job.allocated = 0 THEN @
                                 ELSE [c \in Channels |-> IF c = "memory" THEN m ELSE k]]
  BY <1>2
<1>4. job'.semantic = semantic /\ job'.phase = "select"
  BY <1>1, <1>3 DEF Job
<1>5. CASE job.allocated = 0
  <2>1. job'.ranked = job.ranked
    BY <1>1, <1>3, <1>5 DEF Job
  <2>2. \A c \in Channels : job.ranked[c] = <<>>
    BY DEF Rank, RankPart, Early
  <2> QED BY <1>4, <2>1, <2>2 DEF RankPart, Early
<1>6. CASE job.allocated # 0
  <2>1. job'.ranked["memory"] = m /\ job'.ranked["knowledge"] = k
    BY <1>1, <1>3, <1>6 DEF Job, Channels
  <2>2. m = <<>> \/ m \in Orders(req.docs["memory"], semantic["memory"])
    BY <1>1, EligibleOrders DEF Channels
  <2>3. k = <<>> \/ k \in Orders(req.docs["knowledge"], semantic["knowledge"])
    BY <1>1, EligibleOrders DEF Channels
  <2>4. ASSUME NEW c \in Channels
        PROVE  \/ job'.ranked[c] = <<>>
               \/ job'.ranked[c] \in Orders(req.docs[c], semantic[c])
    BY <2>1, <2>2, <2>3 DEF Channels
  <2> QED BY <1>1, <1>4, <2>4 DEF RankPart, Early
<1> QED BY <1>5, <1>6

LEMMA FreshRanks ==
  ASSUME job' = NoJob \/ job' = [NoJob EXCEPT !.phase = "measure"]
  PROVE  RankPart'
<1>1. \A c \in Channels : job'.ranked[c] = <<>>
  BY DEF NoJob
<1> QED BY <1>1 DEF RankPart

\* A ranking is kept until the request has ended.
LEMMA RankingStays ==
  ASSUME RankPart, UNCHANGED req, job'.ranked = job.ranked, job'.semantic = job.semantic,
         job'.phase \in Early => job.phase \in Early
  PROVE  RankPart'
<1> SUFFICES ASSUME NEW c \in Channels
             PROVE  /\ job'.phase \in Early => job'.ranked[c] = <<>>
                    /\ \/ job'.ranked[c] = <<>>
                       \/ job'.ranked[c] \in Orders(req'.docs[c], job'.semantic[c])
  BY DEF RankPart
<1>1. /\ job.phase \in Early => job.ranked[c] = <<>>
      /\ job.ranked[c] = <<>> \/ job.ranked[c] \in Orders(req.docs[c], job.semantic[c])
  BY DEF RankPart
<1> QED BY <1>1

LEMMA MeasureRanks ==
  ASSUME BuildInv, RankPart, Measure
  PROVE  RankPart'
<1>1. job \in Job /\ UNCHANGED req /\ job.phase \in Early
  BY DEF BuildInv, Measure, Early
<1>2. job'.ranked = job.ranked /\ job'.semantic = job.semantic
  BY <1>1 DEF Measure, Job
<1> QED BY <1>1, <1>2, RankingStays

LEMMA SelectionRanks ==
  ASSUME BuildInv, RankPart, TakeCandidate \/ SkipCandidate \/ LeaveChannel
  PROVE  RankPart'
<1>1. job \in Job /\ UNCHANGED req /\ job.phase = "select" /\ job.channel \in Channels
  BY JobFields DEF BuildInv, TakeCandidate, SkipCandidate, LeaveChannel
<1>2. /\ job'.ranked = job.ranked /\ job'.semantic = job.semantic
      /\ job'.phase \in {"select", "compact"}
  BY <1>1 DEF TakeCandidate, SkipCandidate, LeaveChannel, Job, Channels
<1> QED BY <1>1, <1>2, RankingStays DEF Early

LEMMA CompactionRanks ==
  ASSUME BuildInv, RankPart,
         \/ KeepObservations \/ TrimObservations \/ AcceptCompaction \/ DropOldestRetained
         \/ DropPreviews \/ DropItem \/ GiveUpSummary \/ CheckRequest
  PROVE  RankPart'
<1>1. job \in Job /\ UNCHANGED req
  BY DEF BuildInv, KeepObservations, TrimObservations, AcceptCompaction, DropOldestRetained,
         DropPreviews, DropItem, GiveUpSummary, CheckRequest
<1>2. job'.ranked = job.ranked /\ job'.semantic = job.semantic /\ job'.phase \notin Early
  <2>1. CASE KeepObservations \/ TrimObservations
    BY <1>1, <2>1 DEF KeepObservations, TrimObservations, Job, Early
  <2>2. CASE AcceptCompaction \/ DropOldestRetained
    BY <1>1, <2>2 DEF AcceptCompaction, DropOldestRetained, Job, Early
  <2>3. CASE DropPreviews \/ DropItem \/ GiveUpSummary
    BY <1>1, <2>3 DEF DropPreviews, DropItem, GiveUpSummary, Shortenable, Job, Early
  <2>4. CASE CheckRequest
    BY <1>1, <2>4 DEF CheckRequest, Job, Early
  <2> QED BY <2>1, <2>2, <2>3, <2>4
<1> QED BY <1>1, <1>2, RankingStays

LEMMA RankPartStep ==
  ASSUME BuildInv, RankPart, [RequestNext]_requestVars
  PROVE  RankPart'
<1>1. CASE UNCHANGED requestVars
  BY <1>1, RankingStays DEF requestVars
<1>2. CASE EndRequest \/ \E r \in Requests : BeginRequest(r)
  BY <1>2, FreshRanks DEF EndRequest, BeginRequest
<1>3. CASE BuildRequest
  BY <1>3, MeasureRanks, RankRanks, SelectionRanks, CompactionRanks DEF BuildRequest
<1> QED BY <1>1, <1>2, <1>3 DEF RequestNext

\* rank_hybrid_documents: for any number of documents and any scores, a document that some
\* ranking in use puts before another one, and none puts after it, is a candidate before it.
THEOREM RankingKeepsAgreementHolds == RequestSpec => []RankingKeepsAgreement
<1>1. RequestInit => RankPart
  BY DEF RequestInit, NoJob, RankPart
<1>2. ASSUME BuildInv, RankPart PROVE RankingKeepsAgreement
  <2> SUFFICES ASSUME NEW c \in Channels,
                      NEW i \in DOMAIN job.ranked[c], NEW j \in DOMAIN job.ranked[c], i < j,
                      \E l \in InUse(job.semantic[c]) :
                        Leads(req.docs[c], l, job.ranked[c][j], job.ranked[c][i])
               PROVE  \E l \in InUse(job.semantic[c]) :
                        Leads(req.docs[c], l, job.ranked[c][i], job.ranked[c][j])
    BY DEF RankingKeepsAgreement, InUse
  <2>1. req \in Requests /\ job \in Job
    BY <1>2 DEF BuildInv
  <2>2. Documents(req.docs[c])
    BY <2>1, RequestFieldsOf, UnitAssumption DEF Documents
  <2>3. job.semantic[c] \in BOOLEAN
    BY <2>1, JobFields
  <2>4. job.ranked[c] \in Orders(req.docs[c], job.semantic[c])
    BY <1>2 DEF RankPart
  <2> QED BY <2>2, <2>3, <2>4, OrdersKeepAgreement
<1>3. BuildInv /\ RankPart /\ [RequestNext]_requestVars => RankPart'
  BY RankPartStep
<1> QED BY BuildInvariant, <1>1, <1>2, <1>3, PTL DEF RequestSpec

=============================================================================
