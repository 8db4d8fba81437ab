--------------------------- MODULE WorkspaceProofs ---------------------------
(***************************************************************************)
(* Proofs about Workspace: what the handlers of the compliance pages keep   *)
(* true of each other's writes, for any rows, handlers and requests.        *)
(***************************************************************************)
EXTENDS Workspace, SequenceTheorems, TLAPS

\* What a request in flight is: an idle handler has nothing, a numbered request is
\* about rows that were inserted, and only the handlers that select the newest draft
\* have one.
JobOK(h) ==
    /\ job[h].op = "idle" => job[h] = Idle
    /\ job[h].op # "idle" => job[h].n > 0
    /\ \A q \in job[h].on : life[q] # "unborn"
    /\ job[h].at # "read" => job[h].draft = 0
    /\ job[h].draft # 0 => job[h].content > 0
    /\ job[h].at = "read" => job[h].op \in ReadingOps
    /\ job[h].op \in ReviewOps => job[h].on = {Focus}

\* The draft a reviewer has read is still there, with the text the reviewer read or
\* one that a person has typed since.
DraftOK(h) ==
    Exists(Focus) /\ job[h].draft # 0 =>
        /\ job[h].draft \in 1..Latest
        /\ \/ drafts[job[h].draft].content = job[h].content
           \/ drafts[job[h].draft].content \in typed

\* Who has not been overtaken has the row and the newest draft as they are.
ReadOK(h) ==
    job[h].op # "idle" /\ Focus \in job[h].on /\ ~job[h].touched =>
        /\ job[h].row = row
        /\ job[h].at = "read" =>
              /\ job[h].draft = Latest
              /\ Latest # 0 => job[h].status = drafts[Latest].status

\* A merge that has not been overtaken has all its rows, with the texts it read, and
\* between its transactions the primary holds every one of them.
MergeOK(h) ==
    job[h].op = "merge" /\ ~job[h].touched =>
        /\ \A q \in job[h].on : Exists(q)
        /\ job[h].at = "loaded" => \A q \in job[h].on : job[h].texts[q] = text[q]
        /\ job[h].at = "written" =>
              \E p \in job[h].on : /\ job[h].primary = {p}
                                   /\ \A q \in job[h].on : text[q] \subseteq text[p]

HandlerInv(h) == JobOK(h) /\ DraftOK(h) /\ ReadOK(h) /\ MergeOK(h)

WorkspaceInv ==
    /\ WorkspaceTypeOK /\ life[Focus] # "unborn"
    /\ \A h \in Handlers : HandlerInv(h)
    /\ NoUncheckedMachineText /\ ApprovedAgrees

-----------------------------------------------------------------------------
Drafts == [version : Nat, content : 1..MaxServed, status : DraftStatuses]

\* The record of an idle handler and the one a request starts with are requests.
LEMMA RequestTypes ==
    /\ Idle \in Requests
    /\ \A op \in Operations, Q \in SUBSET Reqs, seen \in [Reqs -> SUBSET Texts] :
          WorkspaceTypeOK /\ served < MaxServed => Request(op, Q, seen) \in Requests
<1>1. Idle \in Requests
  <2>1. NoText \in [Reqs -> SUBSET Texts]
    BY DEF NoText
  <2>2. [status |-> "NOT_STARTED", mandatory |-> FALSE] \in Rows
    BY DEF Rows, Statuses
  <2>3. 0 \in 0..MaxServed /\ "draft" \in DraftStatuses
    BY WorkspaceAssumption DEF DraftStatuses
  <2>4. "idle" \in Operations
    BY DEF Operations
  <2>5. QED
    BY <2>1, <2>2, <2>3, <2>4 DEF Idle, Requests
<1>2. ASSUME NEW op \in Operations, NEW Q \in SUBSET Reqs, NEW seen \in [Reqs -> SUBSET Texts],
             WorkspaceTypeOK, served < MaxServed
      PROVE  Request(op, Q, seen) \in Requests
  BY <1>2, WorkspaceAssumption DEF Request, Requests, WorkspaceTypeOK, DraftStatuses
<1>3. QED
  BY <1>1, <1>2

\* A request that commits is over or has gone on; the other requests about the rows it
\* wrote are told, and nothing else of them changes.
LEMMA TouchedOthers ==
    ASSUME WorkspaceTypeOK, NEW h \in Handlers, NEW Q, NEW j \in Requests,
           job' = [Touched(h, Q) EXCEPT ![h] = j]
    PROVE  /\ job' \in [Handlers -> Requests] /\ job'[h] = j
           /\ \A g \in Handlers \ {h} :
                /\ job[g].on \cap Q = {} => job'[g] = job[g]
                /\ job[g].on \cap Q # {} => job'[g] = [job[g] EXCEPT !.touched = TRUE]
<1>1. Touched(h, Q) \in [Handlers -> Requests]
  <2>1. \A g \in Handlers : [job[g] EXCEPT !.touched = TRUE] \in Requests
    BY DEF WorkspaceTypeOK, Requests
  <2>2. QED
    BY <2>1 DEF Touched, WorkspaceTypeOK
<1>2. QED
  BY <1>1 DEF Touched

\* Rewriting a draft of a sequence of drafts.
LEMMA DraftRewritten ==
    ASSUME NEW s \in Seq(Drafts), NEW k \in 1..Len(s), NEW e \in Drafts
    PROVE  /\ [s EXCEPT ![k] = e] \in Seq(Drafts) /\ Len([s EXCEPT ![k] = e]) = Len(s)
           /\ \A i \in 1..Len(s) : [s EXCEPT ![k] = e][i] = IF i = k THEN e ELSE s[i]
BY ExceptSeq

\* The newest draft is a draft, and what a draft holds.
LEMMA LatestDraft ==
    /\ WorkspaceTypeOK =>
          Latest \in Nat /\ (Latest # 0 => Latest \in 1..Len(drafts) /\ drafts[Latest] \in Drafts)
    /\ \A d \in Drafts : /\ d.content \in 0..MaxServed /\ d.content > 0
                         /\ d.status \in DraftStatuses /\ d.version \in Nat
<1>1. ASSUME WorkspaceTypeOK
      PROVE  Latest \in Nat
             /\ (Latest # 0 => Latest \in 1..Len(drafts) /\ drafts[Latest] \in Drafts)
  <2>1. drafts \in Seq(Drafts)
    BY <1>1 DEF WorkspaceTypeOK, Drafts
  <2>2. Len(drafts) \in Nat /\ \A i \in 1..Len(drafts) : drafts[i] \in Drafts
    BY <2>1
  <2>3. QED
    BY <2>2 DEF Latest
<1>2. \A d \in Drafts : /\ d.content \in 0..MaxServed /\ d.content > 0
                        /\ d.status \in DraftStatuses /\ d.version \in Nat
  BY WorkspaceAssumption DEF Drafts
<1>3. QED
  BY <1>1, <1>2

\* A handler that has nothing keeps to everything.
LEMMA IdleKeeps ==
    ASSUME NEW h \in Handlers, job'[h] = Idle
    PROVE  HandlerInv(h)'
BY DEF HandlerInv, JobOK, DraftOK, ReadOK, MergeOK, Idle, ReviewOps, ReadingOps

\* A commit to the rows Q leaves the other handlers their facts: those about a row of
\* Q are told, the others see no difference, and what was read of a draft was either
\* left or typed over.
LEMMA OthersKeep ==
    ASSUME WorkspaceInv, NEW h \in Handlers, NEW Q \in SUBSET Reqs, WorkspaceTypeOK',
           \A g \in Handlers \ {h} :
              /\ job[g].on \cap Q = {} => job'[g] = job[g]
              /\ job[g].on \cap Q # {} => job'[g] = [job[g] EXCEPT !.touched = TRUE],
           \A q \in Reqs : life[q] # "unborn" => life'[q] # "unborn",
           \A q \in Reqs \ Q : life[q] # "unborn" => life'[q] = life[q] /\ text'[q] = text[q],
           Focus \notin Q => row' = row /\ drafts' = drafts,
           Exists(Focus)' => Exists(Focus) /\ Len(drafts') >= Len(drafts),
           Exists(Focus)' => \A k \in 1..Len(drafts) :
              \/ drafts'[k].content = drafts[k].content
              \/ drafts'[k].content \in typed',
           typed \subseteq typed'
    PROVE  \A g \in Handlers \ {h} : HandlerInv(g)'
<1> SUFFICES ASSUME NEW g \in Handlers \ {h} PROVE HandlerInv(g)'
  OBVIOUS
<1>0. HandlerInv(g) /\ job[g] \in Requests /\ Focus \in Reqs /\ drafts \in Seq(Drafts)
      /\ drafts' \in Seq(Drafts) /\ (job[g] \in Requests)'
  BY WorkspaceAssumption DEF WorkspaceInv, WorkspaceTypeOK, Drafts
<1>1. CASE job[g].on \cap Q = {}
  <2>0. job'[g] = job[g]
    BY <1>1
  <2>1. JobOK(g)'
    BY <1>0, <2>0 DEF HandlerInv, JobOK, Requests
  <2>2. DraftOK(g)'
    BY <1>0, <2>0 DEF HandlerInv, DraftOK, Latest
  <2>3. ReadOK(g)'
    BY <1>0, <1>1, <2>0 DEF HandlerInv, ReadOK, Latest
  <2>4. MergeOK(g)'
    <3>1. \A q \in job[g].on : life'[q] = life[q] /\ text'[q] = text[q]
      BY <1>0, <1>1 DEF HandlerInv, JobOK, Requests
    <3>2. QED
      BY <1>0, <2>0, <3>1 DEF HandlerInv, MergeOK, Exists
  <2>5. QED
    BY <2>1, <2>2, <2>3, <2>4 DEF HandlerInv
<1>2. CASE job[g].on \cap Q # {}
  <2>0. /\ job'[g] = [job[g] EXCEPT !.touched = TRUE] /\ job'[g].touched
        /\ job[g].op # "idle"
    BY <1>0, <1>2 DEF Requests, HandlerInv, JobOK, Idle
  <2>1. JobOK(g)'
    BY <1>0, <2>0 DEF HandlerInv, JobOK, Requests
  <2>2. DraftOK(g)'
    BY <1>0, <2>0 DEF HandlerInv, DraftOK, Latest, Requests
  <2>3. ReadOK(g)' /\ MergeOK(g)'
    BY <2>0 DEF ReadOK, MergeOK
  <2>4. QED
    BY <2>1, <2>2, <2>3 DEF HandlerInv
<1>3. QED
  BY <1>1, <1>2

\* A request arrives with the rows as they are.
LEMMA ArrivesKeeps ==
    ASSUME WorkspaceInv, NEW h \in Handlers, NEW op \in Operations \ {"idle"},
           NEW Q \in SUBSET Reqs, NEW seen \in [Reqs -> SUBSET Texts],
           Arrives(h, Request(op, Q, seen)), \A q \in Q : Exists(q),
           op \in ReviewOps => Q = {Focus}, op = "merge" => seen = text
    PROVE  WorkspaceInv'
<1>0. /\ WorkspaceTypeOK /\ served < MaxServed /\ UNCHANGED <<rows, vetted, typed, raced>>
      /\ served' = served + 1 /\ job' = [job EXCEPT ![h] = Request(op, Q, seen)]
  BY DEF WorkspaceInv, Arrives
<1>1. Request(op, Q, seen) \in Requests
  BY <1>0, RequestTypes
<1>2. WorkspaceTypeOK'
  BY <1>0, <1>1, WorkspaceAssumption DEF WorkspaceTypeOK, rows
<1>3. /\ job'[h] = Request(op, Q, seen)
      /\ \A g \in Handlers \ {h} : job'[g] = job[g]
  BY <1>0 DEF WorkspaceTypeOK
<1>4. \A g \in Handlers \ {h} : HandlerInv(g)'
  BY <1>0, <1>3 DEF WorkspaceInv, HandlerInv, JobOK, DraftOK, ReadOK, MergeOK, Exists, Latest, rows
<1>5. HandlerInv(h)'
  <2>1. served + 1 > 0
    BY <1>0 DEF WorkspaceTypeOK
  <2>2. JobOK(h)' /\ DraftOK(h)' /\ ReadOK(h)' /\ MergeOK(h)'
    BY <1>0, <1>3, <2>1 DEF JobOK, DraftOK, ReadOK, MergeOK, Request, Exists, rows
  <2>3. QED
    BY <2>2 DEF HandlerInv
<1>6. NoUncheckedMachineText' /\ ApprovedAgrees' /\ life'[Focus] # "unborn"
  BY <1>0 DEF WorkspaceInv, NoUncheckedMachineText, ApprovedAgrees, Exists, Exported,
     Latest, rows
<1>7. QED
  BY <1>2, <1>4, <1>5, <1>6 DEF WorkspaceInv

\* A request that ends without a write, and one that only links evidence.
LEMMA EndsKeeps ==
    ASSUME WorkspaceInv, NEW h \in Handlers, job' = [job EXCEPT ![h] = Idle],
           evidence' \in BOOLEAN,
           UNCHANGED <<life, text, row, drafts, served, vetted, typed, raced>>
    PROVE  WorkspaceInv'
<1>0. WorkspaceTypeOK
  BY DEF WorkspaceInv
<1>1. WorkspaceTypeOK'
  BY <1>0, RequestTypes DEF WorkspaceTypeOK
<1>2. job'[h] = Idle /\ \A g \in Handlers \ {h} : job'[g] = job[g]
  BY <1>0 DEF WorkspaceTypeOK
<1>3. \A g \in Handlers \ {h} : HandlerInv(g)'
  BY <1>2 DEF WorkspaceInv, HandlerInv, JobOK, DraftOK, ReadOK, MergeOK, Exists, Latest
<1>4. HandlerInv(h)'
  BY <1>2, IdleKeeps
<1>5. NoUncheckedMachineText' /\ ApprovedAgrees' /\ life'[Focus] # "unborn"
  BY DEF WorkspaceInv, NoUncheckedMachineText, ApprovedAgrees, Exists, Exported, Latest
<1>6. QED
  BY <1>1, <1>3, <1>4, <1>5 DEF WorkspaceInv

\* A reviewer reads the newest draft.
LEMMA ReadsDraftKeeps ==
    ASSUME WorkspaceInv, NEW h \in Handlers, ReadsDraft(h)
    PROVE  WorkspaceInv'
<1> DEFINE c == IF Latest = 0 THEN 0 ELSE drafts[Latest].content
           s == IF Latest = 0 THEN "draft" ELSE drafts[Latest].status
           j == [job[h] EXCEPT !.at = "read", !.draft = Latest, !.content = c, !.status = s]
<1>0. /\ WorkspaceTypeOK /\ UNCHANGED <<rows, served, vetted, typed, raced>>
      /\ job[h].op \in ReadingOps /\ job[h].at = "loaded" /\ job[h] \in Requests
      /\ drafts \in Seq(Drafts)
  BY DEF WorkspaceInv, WorkspaceTypeOK, ReadsDraft, Drafts
<1>1. job' = [job EXCEPT ![h] = j]
  BY DEF ReadsDraft
<1>2. Latest \in Nat /\ c \in 0..MaxServed /\ s \in DraftStatuses
  <2>1. 0 \in 0..MaxServed /\ "draft" \in DraftStatuses
    BY WorkspaceAssumption DEF DraftStatuses
  <2>2. QED
    BY <1>0, <2>1, LatestDraft
<1>3. /\ j \in Requests /\ j.op = job[h].op /\ j.at = "read" /\ j.draft = Latest
      /\ j.content = c /\ j.status = s /\ j.on = job[h].on /\ j.n = job[h].n
      /\ j.touched = job[h].touched /\ j.row = job[h].row
  BY <1>0, <1>2 DEF Requests
<1> HIDE DEF j
<1>4. job' \in [Handlers -> Requests] /\ job'[h] = j /\ \A g \in Handlers \ {h} : job'[g] = job[g]
  BY <1>0, <1>1, <1>3 DEF WorkspaceTypeOK
<1>5. WorkspaceTypeOK'
  BY <1>0, <1>4 DEF WorkspaceTypeOK, rows
<1>6. \A g \in Handlers \ {h} : HandlerInv(g)'
  BY <1>0, <1>4 DEF WorkspaceInv, HandlerInv, JobOK, DraftOK, ReadOK, MergeOK, Exists, Latest, rows
<1>7. HandlerInv(h)'
  <2>0. JobOK(h) /\ ReadOK(h)
    BY DEF WorkspaceInv, HandlerInv
  <2>1. JobOK(h)'
    <3>1. Latest # 0 => c > 0
      BY <1>0, LatestDraft
    <3>2. QED
      BY <1>0, <1>3, <1>4, <2>0, <3>1 DEF JobOK, ReadingOps, rows, Idle
  <2>2. DraftOK(h)'
    BY <1>0, <1>2, <1>3, <1>4 DEF DraftOK, Latest, rows
  <2>3. ReadOK(h)'
    BY <1>0, <1>3, <1>4, <2>0 DEF ReadOK, Latest, rows
  <2>4. MergeOK(h)'
    BY <1>0, <1>3, <1>4 DEF MergeOK, ReadingOps
  <2>5. QED
    BY <2>1, <2>2, <2>3, <2>4 DEF HandlerInv
<1>8. NoUncheckedMachineText' /\ ApprovedAgrees' /\ life'[Focus] # "unborn"
  BY <1>0 DEF WorkspaceInv, NoUncheckedMachineText, ApprovedAgrees, Exists, Exported,
     Latest, rows
<1>9. QED
  BY <1>5, <1>6, <1>7, <1>8 DEF WorkspaceInv

\* What holds once the rows Q have been committed and the answer given: the types and
\* the facts of every handler, the one that wrote being idle again.
LEMMA AnswersKeeps ==
    ASSUME WorkspaceInv, NEW h \in Handlers, NEW Q \in SUBSET Reqs,
           job' = [Touched(h, Q) EXCEPT ![h] = Idle], served' = served,
           life' \in [Reqs -> {"unborn", "stored", "deleted"}],
           text' \in [Reqs -> SUBSET Texts], row' \in Rows, drafts' \in Seq(Drafts),
           evidence' \in BOOLEAN, vetted' \subseteq 1..MaxServed,
           typed' \subseteq 1..MaxServed, raced' \in BOOLEAN,
           \A q \in Reqs : life[q] # "unborn" => life'[q] # "unborn",
           \A q \in Reqs \ Q : life[q] # "unborn" => life'[q] = life[q] /\ text'[q] = text[q],
           Focus \notin Q => row' = row /\ drafts' = drafts,
           Exists(Focus)' => Exists(Focus) /\ Len(drafts') >= Len(drafts),
           Exists(Focus)' => \A k \in 1..Len(drafts) :
              \/ drafts'[k].content = drafts[k].content
              \/ drafts'[k].content \in typed',
           typed \subseteq typed'
    PROVE  /\ WorkspaceTypeOK' /\ life'[Focus] # "unborn"
           /\ \A g \in Handlers : HandlerInv(g)'
<1>0. WorkspaceTypeOK /\ life[Focus] # "unborn" /\ Focus \in Reqs
  BY WorkspaceAssumption DEF WorkspaceInv
<1>1. /\ job' \in [Handlers -> Requests] /\ job'[h] = Idle
      /\ \A g \in Handlers \ {h} :
           /\ job[g].on \cap Q = {} => job'[g] = job[g]
           /\ job[g].on \cap Q # {} => job'[g] = [job[g] EXCEPT !.touched = TRUE]
  BY <1>0, RequestTypes, TouchedOthers
<1>2. WorkspaceTypeOK'
  BY <1>0, <1>1 DEF WorkspaceTypeOK, Drafts
<1>3. \A g \in Handlers \ {h} : HandlerInv(g)'
  BY <1>1, <1>2, OthersKeep
<1>4. HandlerInv(h)'
  BY <1>1, IdleKeeps
<1>5. QED
  BY <1>0, <1>2, <1>3, <1>4

\* A write of a column that was loaded as it still is sets it.
LEMMA FreshColumn ==
    ASSUME NEW l, NEW v
    PROVE  Column(l, v, l) = v
BY DEF Column

\* A row form is saved.
LEMMA EditRowKeeps ==
    ASSUME WorkspaceInv, NEW h \in Handlers, NEW f \in SUBSET Texts, NEW s \in Statuses,
           NEW m \in BOOLEAN, EditRowCommits(h, f, s, m)
    PROVE  WorkspaceInv'
<1>0. /\ WorkspaceTypeOK /\ job[h] \in Requests /\ HandlerInv(h) /\ Focus \in Reqs
      /\ row \in Rows /\ job[h].row \in Rows /\ drafts \in Seq(Drafts)
  BY WorkspaceAssumption DEF WorkspaceInv, WorkspaceTypeOK, Requests, Drafts
<1>1. PICK q \in job[h].on :
         /\ At(h, "edit_row", "loaded") /\ Exists(q)
         /\ text' = [text EXCEPT ![q] = Column(job[h].texts[q], f, @)]
         /\ row' = IF q # Focus THEN row
                   ELSE [status |-> Column(job[h].row.status, s, row.status),
                         mandatory |-> Column(job[h].row.mandatory, m, row.mandatory)]
         /\ job' = [Touched(h, {q}) EXCEPT ![h] = Idle]
         /\ raced' = (raced \/ (q = Focus /\ (job[h].touched \/ s = "APPROVED")))
         /\ UNCHANGED <<life, drafts, evidence, served, vetted, typed>>
  BY DEF EditRowCommits
<1>2. q \in Reqs
  BY <1>0, <1>1 DEF Requests
<1>3. row' \in Rows
  <2>1. row.status \in Statuses /\ row.mandatory \in BOOLEAN
    BY <1>0 DEF Rows
  <2>2. /\ Column(job[h].row.status, s, row.status) \in Statuses
        /\ Column(job[h].row.mandatory, m, row.mandatory) \in BOOLEAN
    BY <2>1 DEF Column
  <2>3. QED
    BY <1>0, <1>1, <2>2 DEF Rows
<1>4. text' \in [Reqs -> SUBSET Texts] /\ \A r \in Reqs \ {q} : text'[r] = text[r]
  <2>1. Column(job[h].texts[q], f, text[q]) \in SUBSET Texts
    BY <1>0, <1>2 DEF Column, WorkspaceTypeOK
  <2>2. text \in [Reqs -> SUBSET Texts]
    BY <1>0 DEF WorkspaceTypeOK
  <2>3. QED
    BY <1>1, <1>2, <2>1, <2>2
<1>5. raced' \in BOOLEAN
  BY <1>1
<1>6. WorkspaceTypeOK' /\ life'[Focus] # "unborn" /\ \A g \in Handlers : HandlerInv(g)'
  <2>1. {q} \in SUBSET Reqs
    BY <1>2
  <2>2. Focus \notin {q} => row' = row /\ drafts' = drafts
    BY <1>1
  <2>3. UNCHANGED <<life, drafts, evidence, served, vetted, typed>>
    BY <1>1
  <2>4. Exists(Focus)' => Exists(Focus) /\ Len(drafts') >= Len(drafts)
    BY <1>0, <2>3 DEF Exists
  <2>5. /\ life \in [Reqs -> {"unborn", "stored", "deleted"}] /\ evidence \in BOOLEAN
        /\ vetted \subseteq 1..MaxServed /\ typed \subseteq 1..MaxServed
    BY <1>0 DEF WorkspaceTypeOK
  <2>6. QED
    BY <1>0, <1>1, <1>3, <1>4, <1>5, <2>1, <2>2, <2>3, <2>4, <2>5, AnswersKeeps
<1>7. NoUncheckedMachineText'
  BY <1>1 DEF WorkspaceInv, NoUncheckedMachineText
<1>8. ApprovedAgrees'
  <2>1. CASE q # Focus
    BY <1>1, <2>1 DEF WorkspaceInv, ApprovedAgrees, Exists, Exported, Latest
  <2>2. CASE q = Focus /\ (job[h].touched \/ s = "APPROVED")
    BY <1>1, <2>2 DEF ApprovedAgrees
  <2>3. CASE q = Focus /\ ~job[h].touched /\ s # "APPROVED"
    <3>1. job[h].row = row
      BY <1>0, <1>1, <2>3 DEF HandlerInv, ReadOK, At
    <3>2. row'.status = s
      BY <1>1, <2>3, <3>1, FreshColumn
    <3>3. QED
      BY <2>3, <3>2 DEF ApprovedAgrees
  <2>4. QED
    BY <2>1, <2>2, <2>3
<1>9. QED
  BY <1>6, <1>7, <1>8 DEF WorkspaceInv

\* Rows are deleted, with the drafts and links of Focus if it is one of them.
LEMMA DeletesKeeps ==
    ASSUME WorkspaceInv, NEW h \in Handlers, NEW Q \in SUBSET Reqs, Deletes(Q), Answers(h, Q),
           UNCHANGED <<vetted, typed>>
    PROVE  WorkspaceInv'
<1>0. /\ WorkspaceTypeOK /\ Focus \in Reqs /\ drafts \in Seq(Drafts)
      /\ life \in [Reqs -> {"unborn", "stored", "deleted"}]
      /\ text \in [Reqs -> SUBSET Texts]
  BY WorkspaceAssumption DEF WorkspaceInv, WorkspaceTypeOK, Drafts
<1>1. /\ life' = [q \in Reqs |-> IF q \in Q THEN "deleted" ELSE life[q]]
      /\ text' = [q \in Reqs |-> IF q \in Q THEN {} ELSE text[q]]
      /\ drafts' = IF Focus \in Q THEN <<>> ELSE drafts
      /\ evidence' = (evidence /\ Focus \notin Q) /\ row' = row
  BY DEF Deletes
<1>2. /\ job' = [Touched(h, Q) EXCEPT ![h] = Idle] /\ served' = served
      /\ raced' = (raced \/ (Focus \in Q /\ job[h].touched))
  BY DEF Answers
<1>3. life' \in [Reqs -> {"unborn", "stored", "deleted"}] /\ text' \in [Reqs -> SUBSET Texts]
  BY <1>0, <1>1
<1>4. drafts' \in Seq(Drafts) /\ evidence' \in BOOLEAN /\ raced' \in BOOLEAN
  <2>1. <<>> \in Seq(Drafts)
    OBVIOUS
  <2>2. QED
    BY <1>0, <1>1, <1>2, <2>1
<1>5. /\ \A q \in Reqs : life[q] # "unborn" => life'[q] # "unborn"
      /\ \A q \in Reqs \ Q : life'[q] = life[q] /\ text'[q] = text[q]
      /\ Exists(Focus)' => Focus \notin Q
  BY <1>0, <1>1 DEF Exists
<1>6. Exists(Focus)' => Exists(Focus) /\ drafts' = drafts
  BY <1>0, <1>1, <1>5 DEF Exists
<1>7. WorkspaceTypeOK' /\ life'[Focus] # "unborn" /\ \A g \in Handlers : HandlerInv(g)'
  <2>1. Focus \notin Q => row' = row /\ drafts' = drafts
    BY <1>1
  <2>2. Exists(Focus)' => Exists(Focus) /\ Len(drafts') >= Len(drafts)
    BY <1>0, <1>6
  <2>3. /\ row' \in Rows /\ vetted' \subseteq 1..MaxServed /\ typed' \subseteq 1..MaxServed
    BY <1>0, <1>1 DEF WorkspaceTypeOK
  <2>4. QED
    BY <1>2, <1>3, <1>4, <1>5, <1>6, <2>1, <2>2, <2>3, AnswersKeeps
<1>8. NoUncheckedMachineText'
  <2>1. DOMAIN <<>> = {}
    OBVIOUS
  <2>2. CASE Focus \in Q
    BY <1>1, <2>1, <2>2 DEF NoUncheckedMachineText
  <2>3. CASE Focus \notin Q
    BY <1>1, <2>3 DEF WorkspaceInv, NoUncheckedMachineText
  <2>4. QED
    BY <2>2, <2>3
<1>9. ApprovedAgrees'
  BY <1>1, <1>2, <1>6 DEF WorkspaceInv, ApprovedAgrees, Exported, Latest
<1>10. QED
  BY <1>7, <1>8, <1>9 DEF WorkspaceInv

\* A part of a row becomes a new row.
LEMMA SplitKeeps ==
    ASSUME WorkspaceInv, NEW h \in Handlers, NEW part \in SUBSET Texts, NEW new \in Reqs,
           SplitCommits(h, part, new)
    PROVE  WorkspaceInv'
<1>0. /\ WorkspaceTypeOK /\ Focus \in Reqs /\ drafts \in Seq(Drafts)
      /\ life \in [Reqs -> {"unborn", "stored", "deleted"}]
      /\ text \in [Reqs -> SUBSET Texts] /\ job[h] \in Requests /\ JobOK(h)
      /\ life[Focus] # "unborn"
  BY WorkspaceAssumption DEF WorkspaceInv, WorkspaceTypeOK, Drafts, HandlerInv
<1>1. PICK q \in job[h].on :
         /\ life[new] = "unborn" /\ life' = [life EXCEPT ![new] = "stored"]
         /\ text' = [text EXCEPT ![q] = Column(job[h].texts[q], job[h].texts[q] \ part, @),
                                 ![new] = part]
         /\ Answers(h, {q}) /\ UNCHANGED <<row, drafts, evidence, vetted, typed>>
  BY DEF SplitCommits
<1>2. q \in Reqs /\ q # new
  BY <1>0, <1>1 DEF Requests, JobOK
<1>3. text' \in [Reqs -> SUBSET Texts] /\ \A r \in Reqs \ {q, new} : text'[r] = text[r]
  <2>1. Column(job[h].texts[q], job[h].texts[q] \ part, text[q]) \in SUBSET Texts
    BY <1>0, <1>2 DEF Column, Requests
  <2>2. QED
    BY <1>0, <1>1, <1>2, <2>1
<1>4. /\ life' \in [Reqs -> {"unborn", "stored", "deleted"}]
      /\ \A r \in Reqs \ {new} : life'[r] = life[r]
      /\ Exists(Focus)' => Exists(Focus)
  BY <1>0, <1>1 DEF Exists
<1>5. /\ job' = [Touched(h, {q}) EXCEPT ![h] = Idle] /\ served' = served
      /\ raced' = (raced \/ (Focus \in {q} /\ job[h].touched))
  BY <1>1 DEF Answers
<1>6. raced' \in BOOLEAN
  BY <1>5
<1>7. WorkspaceTypeOK' /\ life'[Focus] # "unborn" /\ \A g \in Handlers : HandlerInv(g)'
  <2>1. {q} \in SUBSET Reqs
    BY <1>2
  <2>2. /\ row' \in Rows /\ drafts' \in Seq(Drafts) /\ evidence' \in BOOLEAN
        /\ vetted' \subseteq 1..MaxServed /\ typed' \subseteq 1..MaxServed
        /\ typed \subseteq typed' /\ row' = row /\ drafts' = drafts
    BY <1>0, <1>1 DEF WorkspaceTypeOK
  <2>3. /\ \A r \in Reqs : life[r] # "unborn" => life'[r] # "unborn"
        /\ \A r \in Reqs \ {q} : life[r] # "unborn" => life'[r] = life[r] /\ text'[r] = text[r]
    BY <1>1, <1>3, <1>4
  <2>4. Len(drafts') >= Len(drafts)
    BY <1>0, <2>2
  <2>5. QED
    BY <1>3, <1>4, <1>5, <1>6, <2>1, <2>2, <2>3, <2>4, AnswersKeeps
<1>8. NoUncheckedMachineText'
  BY <1>1 DEF WorkspaceInv, NoUncheckedMachineText
<1>9. ApprovedAgrees'
  BY <1>1, <1>4, <1>5 DEF WorkspaceInv, ApprovedAgrees, Exported, Latest
<1>10. QED
  BY <1>7, <1>8, <1>9 DEF WorkspaceInv

\* What the first transaction of a merge leaves: the primary has the joined text, and
\* if nobody was there in between it contains the text of every row of the merge.
LEMMA MergeWritesEffect ==
    ASSUME WorkspaceInv, NEW h \in Handlers, NEW p \in Reqs, MergeWrites(h, p)
    PROVE  /\ text' \in [Reqs -> SUBSET Texts]
           /\ \A q \in Reqs \ {p} : text'[q] = text[q]
           /\ ~job[h].touched =>
                /\ \A q \in job[h].on : text[q] \subseteq text'[p]
                /\ text[p] \subseteq text'[p]
<1>0. /\ text \in [Reqs -> SUBSET Texts] /\ job[h] \in Requests /\ MergeOK(h)
      /\ job[h].op = "merge" /\ job[h].at = "loaded" /\ p \in job[h].on
      /\ text' = [text EXCEPT ![p] = Joined(h)]
  BY DEF WorkspaceInv, WorkspaceTypeOK, HandlerInv, MergeWrites, At
<1>1. Joined(h) \in SUBSET Texts /\ \A q \in job[h].on : job[h].texts[q] \subseteq Joined(h)
  BY <1>0 DEF Joined, Requests
<1>2. text' \in [Reqs -> SUBSET Texts] /\ \A q \in Reqs \ {p} : text'[q] = text[q]
  BY <1>0, <1>1
<1>3. ASSUME ~job[h].touched
      PROVE  \A q \in job[h].on : text[q] \subseteq text'[p]
  <2>1. \A q \in job[h].on : job[h].texts[q] = text[q]
    BY <1>0, <1>3 DEF MergeOK
  <2>2. text'[p] = Joined(h)
    BY <1>0
  <2>3. QED
    BY <1>1, <2>1, <2>2
<1>4. QED
  BY <1>0, <1>2, <1>3

\* The first transaction of a merge.
LEMMA MergeWritesKeeps ==
    ASSUME WorkspaceInv, NEW h \in Handlers, NEW p \in Reqs, MergeWrites(h, p)
    PROVE  WorkspaceInv'
<1> DEFINE j == [job[h] EXCEPT !.at = "written", !.primary = {p}]
<1>0. /\ WorkspaceTypeOK /\ Focus \in Reqs /\ drafts \in Seq(Drafts) /\ job[h] \in Requests
      /\ HandlerInv(h) /\ job[h].op = "merge" /\ job[h].at = "loaded" /\ p \in job[h].on
      /\ UNCHANGED <<life, row, drafts, evidence, served, vetted, typed>>
      /\ raced' = (raced \/ (p = Focus /\ job[h].touched))
  BY WorkspaceAssumption DEF WorkspaceInv, WorkspaceTypeOK, Drafts, MergeWrites, At
<1>1. /\ j \in Requests /\ j.op = "merge" /\ j.at = "written" /\ j.primary = {p}
      /\ j.on = job[h].on /\ j.n = job[h].n /\ j.touched = job[h].touched
      /\ j.draft = job[h].draft /\ j.row = job[h].row
  BY <1>0 DEF Requests
<1>2. job' = [Touched(h, {p}) EXCEPT ![h] = j]
  <2>1. Touched(h, {p}) = [g \in Handlers |-> Touched(h, {p})[g]] /\ Touched(h, {p})[h] = job[h]
    BY DEF Touched
  <2>2. job' = [Touched(h, {p}) EXCEPT ![h].at = "written", ![h].primary = {p}]
    BY DEF MergeWrites
  <2>3. QED
    BY <2>1, <2>2
<1> HIDE DEF j
<1>3. /\ job' \in [Handlers -> Requests] /\ job'[h] = j
      /\ \A g \in Handlers \ {h} :
           /\ job[g].on \cap {p} = {} => job'[g] = job[g]
           /\ job[g].on \cap {p} # {} => job'[g] = [job[g] EXCEPT !.touched = TRUE]
  BY <1>0, <1>1, <1>2, TouchedOthers
<1>4. WorkspaceTypeOK'
  <2>1. raced' \in BOOLEAN
    BY <1>0
  <2>2. QED
    BY <1>0, <1>3, <2>1, MergeWritesEffect DEF WorkspaceTypeOK
<1>5. \A g \in Handlers \ {h} : HandlerInv(g)'
  <2>1. \A q \in Reqs \ {p} : life'[q] = life[q] /\ text'[q] = text[q]
    BY <1>0, MergeWritesEffect
  <2>2. Len(drafts') >= Len(drafts) /\ {p} \in SUBSET Reqs
    BY <1>0
  <2>3. Exists(Focus)' => Exists(Focus)
    BY <1>0 DEF Exists
  <2>4. QED
    BY <1>0, <1>3, <1>4, <2>1, <2>2, <2>3, OthersKeep
<1>6. HandlerInv(h)'
  <2>1. JobOK(h)' /\ DraftOK(h)' /\ ReadOK(h)'
    BY <1>0, <1>1, <1>3 DEF HandlerInv, JobOK, DraftOK, ReadOK, ReadingOps, ReviewOps
  <2>2. MergeOK(h)'
    <3> SUFFICES ASSUME ~job[h].touched
                 PROVE  /\ \A q \in job[h].on : Exists(q)'
                        /\ \A q \in job[h].on : text'[q] \subseteq text'[p]
      BY <1>0, <1>1, <1>3 DEF MergeOK
    <3>1. \A q \in job[h].on : Exists(q)'
      BY <1>0 DEF HandlerInv, MergeOK, Exists
    <3>2. \A q \in job[h].on : text'[q] \subseteq text'[p]
      BY <1>0, MergeWritesEffect DEF Requests
    <3>3. QED
      BY <3>1, <3>2
  <2>3. QED
    BY <2>1, <2>2 DEF HandlerInv
<1>7. NoUncheckedMachineText' /\ ApprovedAgrees' /\ life'[Focus] # "unborn"
  BY <1>0 DEF WorkspaceInv, NoUncheckedMachineText, ApprovedAgrees, Exists, Exported, Latest
<1>8. QED
  BY <1>4, <1>5, <1>6, <1>7 DEF WorkspaceInv

\* A new draft.
LEMMA DraftCommitsKeeps ==
    ASSUME WorkspaceInv, NEW h \in Handlers, NEW b \in BOOLEAN, DraftCommits(h, b)
    PROVE  WorkspaceInv'
<1> DEFINE s == IF b THEN "NEEDS_EVIDENCE" ELSE "DRAFTED"
           d == [version |-> NextVersion, content |-> job[h].n, status |-> "draft"]
<1>0. /\ WorkspaceTypeOK /\ Focus \in Reqs /\ drafts \in Seq(Drafts) /\ job[h] \in Requests
      /\ HandlerInv(h) /\ row \in Rows /\ Exists(Focus) /\ job[h].op = "draft"
      /\ job[h].at = "loaded" /\ MaxServed \in Nat
      /\ UNCHANGED <<life, text, evidence, vetted, typed>>
      /\ job' = [Touched(h, {Focus}) EXCEPT ![h] = Idle] /\ served' = served
      /\ raced' = (raced \/ (Focus \in {Focus} /\ job[h].touched))
      /\ row' = [row EXCEPT !.status = Column(job[h].row.status, s, row.status)]
      /\ drafts' = Append(drafts, d)
  BY WorkspaceAssumption DEF WorkspaceInv, WorkspaceTypeOK, Drafts, DraftCommits, At, Answers
<1>1. NextVersion \in Nat
  BY <1>0, LatestDraft DEF NextVersion
<1>2. d \in Drafts /\ d.status = "draft"
  <2>1. job[h].n \in 1..MaxServed
    BY <1>0 DEF HandlerInv, JobOK, Requests
  <2>2. QED
    BY <1>1, <2>1 DEF Drafts, DraftStatuses
<1> HIDE DEF d
<1>3. /\ drafts' \in Seq(Drafts) /\ Len(drafts') = Len(drafts) + 1
      /\ \A k \in 1..Len(drafts) : drafts'[k] = drafts[k]
      /\ drafts'[Len(drafts) + 1] = d
  BY <1>0, <1>2
<1>4. row' \in Rows /\ row'.status = Column(job[h].row.status, s, row.status)
  <2>1. Column(job[h].row.status, s, row.status) \in Statuses
    BY <1>0 DEF Column, Rows, Statuses
  <2>2. QED
    BY <1>0, <2>1 DEF Rows
<1>5. raced' \in BOOLEAN
  BY <1>0
<1>6. WorkspaceTypeOK' /\ life'[Focus] # "unborn" /\ \A g \in Handlers : HandlerInv(g)'
  <2>1. {Focus} \in SUBSET Reqs /\ Len(drafts') >= Len(drafts)
    BY <1>0, <1>3
  <2>2. /\ life' \in [Reqs -> {"unborn", "stored", "deleted"}]
        /\ text' \in [Reqs -> SUBSET Texts] /\ evidence' \in BOOLEAN
        /\ vetted' \subseteq 1..MaxServed /\ typed' \subseteq 1..MaxServed
    BY <1>0 DEF WorkspaceTypeOK
  <2>3. QED
    BY <1>0, <1>3, <1>4, <1>5, <2>1, <2>2, AnswersKeeps
<1>7. NoUncheckedMachineText'
  <2>1. DOMAIN drafts = 1..Len(drafts) /\ DOMAIN drafts' = 1..(Len(drafts) + 1)
        /\ Len(drafts) \in Nat
    BY <1>0, <1>3
  <2>2. \A k \in DOMAIN drafts' : k \in DOMAIN drafts \/ k = Len(drafts) + 1
    BY <2>1
  <2>3. QED
    BY <1>0, <1>2, <1>3, <2>1, <2>2 DEF WorkspaceInv, NoUncheckedMachineText
<1>8. ApprovedAgrees'
  <2>1. CASE job[h].touched
    BY <1>0, <2>1 DEF ApprovedAgrees
  <2>2. CASE ~job[h].touched
    <3>1. job[h].row = row
      BY <1>0, <2>2 DEF HandlerInv, ReadOK, JobOK, ReviewOps
    <3>2. row'.status = s
      BY <1>4, <3>1, FreshColumn
    <3>3. QED
      BY <3>2 DEF ApprovedAgrees
  <2>3. QED
    BY <2>1, <2>2
<1>9. QED
  BY <1>6, <1>7, <1>8 DEF WorkspaceInv

\* New text on the draft that was read.
LEMMA EditDraftKeeps ==
    ASSUME WorkspaceInv, NEW h \in Handlers, EditDraftCommits(h)
    PROVE  WorkspaceInv'
<1> DEFINE k == job[h].draft
           e == [drafts[k] EXCEPT !.content = job[h].n]
<1>0. /\ WorkspaceTypeOK /\ Focus \in Reqs /\ drafts \in Seq(Drafts) /\ job[h] \in Requests
      /\ HandlerInv(h) /\ row \in Rows /\ Exists(Focus) /\ job[h].op = "edit_draft"
      /\ job[h].at = "read" /\ k # 0 /\ MaxServed \in Nat
      /\ UNCHANGED <<life, text, evidence, vetted>> /\ typed' = typed \cup {job[h].n}
      /\ job' = [Touched(h, {Focus}) EXCEPT ![h] = Idle] /\ served' = served
      /\ raced' = (raced \/ (Focus \in {Focus} /\ job[h].touched))
      /\ row' = [row EXCEPT !.status = Column(job[h].row.status, "DRAFTED", row.status)]
      /\ drafts' = [drafts EXCEPT ![k] = e]
  BY WorkspaceAssumption DEF WorkspaceInv, WorkspaceTypeOK, Drafts, EditDraftCommits, At,
     Answers, HasDraft
<1>1. k \in 1..Len(drafts) /\ job[h].n \in 1..MaxServed
  BY <1>0 DEF HandlerInv, DraftOK, JobOK, Latest, Requests
<1>2. e \in Drafts /\ e.content = job[h].n
  <2>1. drafts[k] \in Drafts
    BY <1>0, <1>1
  <2>2. QED
    BY <1>1, <2>1 DEF Drafts
<1> HIDE DEF e
<1>3. /\ drafts' \in Seq(Drafts) /\ Len(drafts') = Len(drafts)
      /\ \A i \in 1..Len(drafts) : drafts'[i] = IF i = k THEN e ELSE drafts[i]
  BY <1>0, <1>1, <1>2, DraftRewritten
<1>4. row' \in Rows /\ row'.status = Column(job[h].row.status, "DRAFTED", row.status)
  <2>1. Column(job[h].row.status, "DRAFTED", row.status) \in Statuses
    BY <1>0 DEF Column, Rows, Statuses
  <2>2. QED
    BY <1>0, <2>1 DEF Rows
<1>5. raced' \in BOOLEAN
  BY <1>0
<1>6. WorkspaceTypeOK' /\ life'[Focus] # "unborn" /\ \A g \in Handlers : HandlerInv(g)'
  <2>1. {Focus} \in SUBSET Reqs /\ Len(drafts') >= Len(drafts)
    BY <1>0, <1>3
  <2>2. /\ life' \in [Reqs -> {"unborn", "stored", "deleted"}]
        /\ text' \in [Reqs -> SUBSET Texts] /\ evidence' \in BOOLEAN
        /\ vetted' \subseteq 1..MaxServed /\ typed' \subseteq 1..MaxServed
    BY <1>0, <1>1 DEF WorkspaceTypeOK
  <2>3. \A i \in 1..Len(drafts) : \/ drafts'[i].content = drafts[i].content
                                  \/ drafts'[i].content \in typed'
    BY <1>0, <1>2, <1>3
  <2>4. QED
    BY <1>0, <1>3, <1>4, <1>5, <2>1, <2>2, <2>3, AnswersKeeps
<1>7. NoUncheckedMachineText'
  <2>1. DOMAIN drafts = 1..Len(drafts) /\ DOMAIN drafts' = 1..Len(drafts)
    BY <1>0, <1>3
  <2>2. QED
    BY <1>0, <1>2, <1>3, <2>1 DEF WorkspaceInv, NoUncheckedMachineText
<1>8. ApprovedAgrees'
  <2>1. CASE job[h].touched
    BY <1>0, <2>1 DEF ApprovedAgrees
  <2>2. CASE ~job[h].touched
    <3>1. job[h].row = row
      BY <1>0, <2>2 DEF HandlerInv, ReadOK, JobOK, ReviewOps, ReadingOps
    <3>2. row'.status = "DRAFTED"
      BY <1>4, <3>1, FreshColumn
    <3>3. QED
      BY <3>2 DEF ApprovedAgrees
  <2>3. QED
    BY <2>1, <2>2
<1>9. QED
  BY <1>6, <1>7, <1>8 DEF WorkspaceInv

\* A reviewer's decision.  It may approve only what the reviewer has read: that text is
\* then vetted, or a person has typed over it.
LEMMA DecidesKeeps ==
    ASSUME WorkspaceInv, NEW h \in Handlers, NEW s \in Statuses, NEW d \in DraftStatuses,
           Decides(h, s, d), job[h].op \in ReviewOps,
           vetted \subseteq vetted', vetted' \subseteq 1..MaxServed,
           s = "APPROVED" \/ d = "approved" =>
              /\ s = "APPROVED" /\ d = "approved" /\ job[h].at = "read" /\ HasDraft(h)
              /\ job[h].content \in vetted'
    PROVE  WorkspaceInv'
<1> DEFINE k == job[h].draft
           e == [drafts[k] EXCEPT !.status = Column(job[h].status, d, drafts[k].status)]
<1>0. /\ WorkspaceTypeOK /\ Focus \in Reqs /\ drafts \in Seq(Drafts) /\ job[h] \in Requests
      /\ HandlerInv(h) /\ row \in Rows /\ Exists(Focus) /\ MaxServed \in Nat
      /\ UNCHANGED <<life, text, evidence, typed>>
      /\ job' = [Touched(h, {Focus}) EXCEPT ![h] = Idle] /\ served' = served
      /\ raced' = (raced \/ (Focus \in {Focus} /\ job[h].touched))
      /\ row' = [row EXCEPT !.status = Column(job[h].row.status, s, row.status)]
      /\ drafts' = IF k = 0 THEN drafts ELSE [drafts EXCEPT ![k] = e]
  BY WorkspaceAssumption DEF WorkspaceInv, WorkspaceTypeOK, Drafts, Decides, Answers
<1>1. k # 0 => k \in 1..Len(drafts)
  BY <1>0 DEF HandlerInv, DraftOK, Latest
<1>2. k # 0 => /\ e \in Drafts /\ e.content = drafts[k].content
               /\ e.status = Column(job[h].status, d, drafts[k].status)
  <2> SUFFICES ASSUME k # 0
               PROVE  /\ e \in Drafts /\ e.content = drafts[k].content
                      /\ e.status = Column(job[h].status, d, drafts[k].status)
    OBVIOUS
  <2>1. drafts[k] \in Drafts
    BY <1>0, <1>1
  <2>2. Column(job[h].status, d, drafts[k].status) \in DraftStatuses
    BY <2>1 DEF Column, Drafts
  <2>3. QED
    BY <2>1, <2>2 DEF Drafts
<1> HIDE DEF e
<1>3. /\ drafts' \in Seq(Drafts) /\ Len(drafts') = Len(drafts)
      /\ \A i \in 1..Len(drafts) : drafts'[i] = IF k # 0 /\ i = k THEN e ELSE drafts[i]
  BY <1>0, <1>1, <1>2, DraftRewritten
<1>4. row' \in Rows /\ row'.status = Column(job[h].row.status, s, row.status)
  <2>1. Column(job[h].row.status, s, row.status) \in Statuses
    BY <1>0 DEF Column, Rows
  <2>2. QED
    BY <1>0, <2>1 DEF Rows
<1>5. raced' \in BOOLEAN
  BY <1>0
<1>6. WorkspaceTypeOK' /\ life'[Focus] # "unborn" /\ \A g \in Handlers : HandlerInv(g)'
  <2>1. {Focus} \in SUBSET Reqs /\ Len(drafts') >= Len(drafts)
    BY <1>0, <1>3
  <2>2. /\ life' \in [Reqs -> {"unborn", "stored", "deleted"}]
        /\ text' \in [Reqs -> SUBSET Texts] /\ evidence' \in BOOLEAN
        /\ typed' \subseteq 1..MaxServed
    BY <1>0 DEF WorkspaceTypeOK
  <2>3. \A i \in 1..Len(drafts) : drafts'[i].content = drafts[i].content
    BY <1>2, <1>3
  <2>4. QED
    BY <1>0, <1>3, <1>4, <1>5, <2>1, <2>2, <2>3, AnswersKeeps
<1>7. NoUncheckedMachineText'
  <2> SUFFICES ASSUME NEW i \in 1..Len(drafts), drafts'[i].status = "approved"
               PROVE  drafts'[i].content \in vetted' \cup typed'
    BY <1>0, <1>3 DEF NoUncheckedMachineText
  <2>1. CASE drafts[i].status = "approved"
    <3>1. drafts[i].content \in vetted \cup typed
      BY <1>0, <2>1 DEF WorkspaceInv, NoUncheckedMachineText
    <3>2. QED
      BY <1>0, <1>2, <1>3, <3>1
  <2>2. CASE drafts[i].status # "approved"
    <3>1. k # 0 /\ i = k /\ d = "approved"
      BY <1>2, <1>3, <2>2 DEF Column
    <3>2. drafts[k].content = job[h].content \/ drafts[k].content \in typed
      BY <1>0, <3>1 DEF HandlerInv, DraftOK
    <3>3. QED
      BY <1>0, <1>2, <1>3, <3>1, <3>2
  <2>3. QED
    BY <2>1, <2>2
<1>8. ApprovedAgrees'
  <2>1. CASE job[h].touched
    BY <1>0, <2>1 DEF ApprovedAgrees
  <2>2. CASE ~job[h].touched
    <3>1. job[h].row = row /\ (job[h].at = "read" => k = Latest
                                /\ (Latest # 0 => job[h].status = drafts[Latest].status))
      BY <1>0, <2>2 DEF HandlerInv, ReadOK, JobOK, ReviewOps, ReadingOps
    <3>2. row'.status = s
      BY <1>4, <3>1, FreshColumn
    <3>3. CASE s # "APPROVED"
      BY <3>2, <3>3 DEF ApprovedAgrees
    <3>4. CASE s = "APPROVED"
      <4>1. k = Latest /\ k # 0 /\ d = "approved" /\ job[h].status = drafts[k].status
        BY <3>1, <3>4 DEF HasDraft
      <4>2. drafts'[k] = e /\ e.status = "approved" /\ e.content > 0
        BY <1>1, <1>2, <1>3, <4>1, FreshColumn DEF Drafts
      <4>3. QED
        BY <1>3, <4>1, <4>2 DEF ApprovedAgrees, Exported, Latest
    <3>5. QED
      BY <3>3, <3>4
  <2>3. QED
    BY <2>1, <2>2
<1>9. QED
  BY <1>6, <1>7, <1>8 DEF WorkspaceInv

-----------------------------------------------------------------------------
\* The rows as they are when the pages are opened.
LEMMA WorkspaceInitInv == WorkspaceInit => WorkspaceInv
<1> SUFFICES ASSUME WorkspaceInit PROVE WorkspaceInv
  OBVIOUS
<1> USE WorkspaceAssumption DEF WorkspaceInit
<1>1. Focus \in Reqs /\ life[Focus] = "stored" /\ drafts = <<>>
  OBVIOUS
<1>2. WorkspaceTypeOK
  <2>1. row \in Rows
    BY DEF Rows, Statuses
  <2>2. job \in [Handlers -> Requests]
    BY RequestTypes
  <2>3. life \in [Reqs -> {"unborn", "stored", "deleted"}] /\ text \in [Reqs -> SUBSET Texts]
    BY DEF Texts
  <2>4. drafts \in Seq([version : Nat, content : 1..MaxServed, status : DraftStatuses])
    OBVIOUS
  <2>5. evidence \in BOOLEAN /\ raced \in BOOLEAN
    BY Zenon
  <2>6. vetted \subseteq 1..MaxServed /\ typed \subseteq 1..MaxServed
    BY Zenon
  <2>7. served \in 0..MaxServed
    BY SMT
  <2> HIDE DEF WorkspaceInit
  <2>8. QED
    BY <2>1, <2>2, <2>3, <2>4, <2>5, <2>6, <2>7 DEF WorkspaceTypeOK
<1>3. \A h \in Handlers : HandlerInv(h)
  BY DEF HandlerInv, JobOK, DraftOK, ReadOK, MergeOK, Idle, ReviewOps, ReadingOps
<1>4. DOMAIN drafts = {}
  BY <1>1
<1>5. NoUncheckedMachineText
  BY <1>4 DEF NoUncheckedMachineText
<1>6. ApprovedAgrees
  BY DEF ApprovedAgrees
<1>7. QED
  BY <1>1, <1>2, <1>3, <1>5, <1>6 DEF WorkspaceInv

\* Every step on the matrix keeps the invariant.
LEMMA MatrixKeeps ==
    ASSUME WorkspaceInv, NEW h \in Handlers, MatrixStep(h)
    PROVE  WorkspaceInv'
<1>0. /\ text \in [Reqs -> SUBSET Texts] /\ job[h].on \in SUBSET Reqs
  BY DEF WorkspaceInv, WorkspaceTypeOK, Requests
<1>1. ASSUME NEW q \in Reqs, EditRowLoads(h, q) \/ DeleteRowLoads(h, q) \/ SplitLoads(h, q)
      PROVE  WorkspaceInv'
  <2>1. PICK op \in {"edit_row", "delete_row", "split"} :
           Exists(q) /\ Arrives(h, Request(op, {q}, text))
    BY <1>1 DEF EditRowLoads, DeleteRowLoads, SplitLoads, Loads
  <2>2. op \in Operations \ {"idle"} /\ op \notin ReviewOps /\ op # "merge"
    BY DEF Operations, ReviewOps, ReadingOps
  <2>3. {q} \in SUBSET Reqs /\ \A r \in {q} : Exists(r)
    BY <2>1
  <2>4. QED
    BY <1>0, <2>1, <2>2, <2>3, ArrivesKeeps
<1>2. ASSUME NEW Q \in SUBSET Reqs, MergeLoads(h, Q)
      PROVE  WorkspaceInv'
  <2>1. "merge" \in Operations \ {"idle"} /\ "merge" \notin ReviewOps
    BY DEF Operations, ReviewOps, ReadingOps
  <2>2. QED
    BY <1>0, <1>2, <2>1, ArrivesKeeps DEF MergeLoads, Loads
<1>3. CASE DeleteRowCommits(h)
  BY <1>0, <1>3, DeletesKeeps DEF DeleteRowCommits
<1>4. CASE MergeDeletes(h)
  <2>1. Secondaries(h) \in SUBSET Reqs
    BY <1>0 DEF Secondaries
  <2>2. QED
    BY <1>4, <2>1, DeletesKeeps DEF MergeDeletes
<1>5. CASE MatrixFails(h)
  BY <1>5, EndsKeeps DEF MatrixFails, Ends, rows, WorkspaceInv, WorkspaceTypeOK
<1>6. QED
  BY <1>1, <1>2, <1>3, <1>4, <1>5, EditRowKeeps, MergeWritesKeeps, SplitKeeps DEF MatrixStep

\* Every step on the answer keeps the invariant.
LEMMA ReviewKeeps ==
    ASSUME WorkspaceInv, NEW h \in Handlers, ReviewStep(h)
    PROVE  WorkspaceInv'
<1>0. /\ vetted \subseteq 1..MaxServed /\ job[h] \in Requests /\ JobOK(h)
      /\ Focus \in Reqs /\ evidence \in BOOLEAN /\ MaxServed \in Nat
  BY WorkspaceAssumption DEF WorkspaceInv, WorkspaceTypeOK, HandlerInv
<1>1. ASSUME NEW op \in ReviewOps, ReviewLoads(h, op)
      PROVE  WorkspaceInv'
  <2>1. op \in Operations \ {"idle"} /\ op # "merge"
    BY DEF Operations, ReviewOps, ReadingOps
  <2>2. NoText \in [Reqs -> SUBSET Texts] /\ {Focus} \in SUBSET Reqs
    BY <1>0 DEF NoText
  <2>3. QED
    BY <1>1, <2>1, <2>2, ArrivesKeeps DEF ReviewLoads
<1>2. ASSUME NEW b \in BOOLEAN, ApproveCommits(h, b)
      PROVE  WorkspaceInv'
  <2>1. /\ Decides(h, "APPROVED", "approved") /\ vetted' = vetted \cup {job[h].content}
        /\ job[h].op = "approve" /\ job[h].at = "read" /\ HasDraft(h)
    BY <1>2 DEF ApproveCommits, At
  <2>2. job[h].content \in 1..MaxServed
    BY <1>0, <2>1 DEF JobOK, HasDraft, Requests
  <2>3. /\ "APPROVED" \in Statuses /\ "approved" \in DraftStatuses /\ job[h].op \in ReviewOps
        /\ vetted \subseteq vetted' /\ vetted' \subseteq 1..MaxServed
    BY <1>0, <2>1, <2>2 DEF Statuses, DraftStatuses, ReviewOps, ReadingOps
  <2>4. QED
    BY <2>1, <2>3, DecidesKeeps
<1>3. ASSUME NEW s \in Statuses \ {"APPROVED"}, NEW d \in DraftStatuses \ {"approved"},
             Decides(h, s, d), job[h].op \in ReviewOps, vetted' = vetted
      PROVE  WorkspaceInv'
  BY <1>0, <1>3, DecidesKeeps
<1>4. ASSUME NEW b \in BOOLEAN, ApproveBlocks(h, b)
      PROVE  WorkspaceInv'
  BY <1>3, <1>4 DEF ApproveBlocks, At, Statuses, DraftStatuses, ReviewOps, ReadingOps
<1>5. CASE RejectDraftCommits(h) \/ RejectReviewCommits(h)
  BY <1>3, <1>5 DEF RejectDraftCommits, RejectReviewCommits, At, Statuses, DraftStatuses,
     ReviewOps, ReadingOps
<1>6. CASE ChangesCommits(h) \/ ReopenCommits(h)
  BY <1>3, <1>6 DEF ChangesCommits, ReopenCommits, At, Statuses, DraftStatuses, ReviewOps,
     ReadingOps
<1>7. CASE StartCommits(h) \/ AssignCommits(h)
  BY <1>3, <1>7 DEF StartCommits, AssignCommits, At, Statuses, DraftStatuses, ReviewOps,
     ReadingOps
<1>8. CASE LinkCommits(h)
  BY <1>8, EndsKeeps DEF LinkCommits
<1>9. CASE ReviewEnds(h)
  BY <1>0, <1>9, EndsKeeps DEF ReviewEnds, Ends, rows
<1>10. QED
  BY <1>1, <1>2, <1>4, <1>5, <1>6, <1>7, <1>8, <1>9, ReadsDraftKeeps, DraftCommitsKeeps,
     EditDraftKeeps DEF ReviewStep

\* The inductive invariant of the workspace always holds.
THEOREM WorkspaceInvariant == WorkspaceSpec => []WorkspaceInv
<1>1. WorkspaceInv /\ [WorkspaceNext]_workspaceVars => WorkspaceInv'
  <2> SUFFICES ASSUME WorkspaceInv, [WorkspaceNext]_workspaceVars PROVE WorkspaceInv'
    OBVIOUS
  <2>1. CASE WorkspaceNext
    BY <2>1, MatrixKeeps, ReviewKeeps DEF WorkspaceNext
  <2>2. CASE UNCHANGED workspaceVars
    <3> USE <2>2 DEF workspaceVars, WorkspaceInv
    <3>1. WorkspaceTypeOK' /\ (life[Focus] # "unborn")'
      BY DEF WorkspaceTypeOK
    <3>2. NoUncheckedMachineText' /\ ApprovedAgrees'
      BY DEF NoUncheckedMachineText, ApprovedAgrees, Exists, Exported, Latest
    <3>3. ASSUME NEW h \in Handlers PROVE HandlerInv(h)'
      <4>1. JobOK(h)' /\ MergeOK(h)'
        BY DEF HandlerInv, JobOK, MergeOK, Exists
      <4>2. DraftOK(h)' /\ ReadOK(h)'
        BY DEF HandlerInv, DraftOK, ReadOK, Exists, Latest
      <4>3. QED
        BY <4>1, <4>2 DEF HandlerInv
    <3>4. QED
      BY <3>1, <3>2, <3>3
  <2>3. QED
    BY <2>1, <2>2
<1>2. QED
  BY <1>1, WorkspaceInitInv, PTL DEF WorkspaceSpec

\* Type correctness of the workspace.
THEOREM WorkspaceTypesCorrect == WorkspaceSpec => []WorkspaceTypeOK
<1>1. WorkspaceInv => WorkspaceTypeOK
  BY DEF WorkspaceInv
<1>2. QED
  BY <1>1, WorkspaceInvariant, PTL

\* No machine-written answer is approved that no approval read, however many requests
\* draft, edit and approve at the same time.
THEOREM ApprovedTextVetted == WorkspaceSpec => []NoUncheckedMachineText
<1>1. WorkspaceInv => NoUncheckedMachineText
  BY DEF WorkspaceInv
<1>2. QED
  BY <1>1, WorkspaceInvariant, PTL

\* An APPROVED requirement has its newest answer approved, unless a writer had been
\* overtaken or the status was typed in.
THEOREM ApprovedAnswered == WorkspaceSpec => []ApprovedAgrees
<1>1. WorkspaceInv => ApprovedAgrees
  BY DEF WorkspaceInv
<1>2. QED
  BY <1>1, WorkspaceInvariant, PTL

\* A merge that nobody overtakes loses no text, in either of its transactions.
LEMMA MergeKeepsText ==
    ASSUME WorkspaceInv, NEW h \in Handlers, job[h].op = "merge", ~job[h].touched,
           job'[h] # job[h], ~job'[h].touched, NEW g \in Handlers,
           MatrixStep(g) \/ ReviewStep(g)
    PROVE  Held \subseteq Held'
<1>0. /\ WorkspaceTypeOK /\ job \in [Handlers -> Requests] /\ HandlerInv(h)
      /\ job[h].on \in SUBSET Reqs /\ text \in [Reqs -> SUBSET Texts]
      /\ life \in [Reqs -> {"unborn", "stored", "deleted"}]
  BY DEF WorkspaceInv, WorkspaceTypeOK, Requests
\* Only a step of h itself changes it and leaves it untouched.
<1>1. g = h
  <2> SUFFICES ASSUME g # h PROVE FALSE
    OBVIOUS
  <2>1. ASSUME NEW Q, NEW j, job' = [Touched(g, Q) EXCEPT ![g] = j]
        PROVE  FALSE
    BY <1>0, <2>1 DEF Touched, Requests
  <2>2. ASSUME NEW j, job' = [job EXCEPT ![g] = j]
        PROVE  FALSE
    BY <1>0, <2>2
  <2>3. CASE MatrixStep(g)
    <3>1. ASSUME NEW q \in Reqs, EditRowLoads(g, q) \/ DeleteRowLoads(g, q) \/ SplitLoads(g, q)
          PROVE  FALSE
      BY <2>2, <3>1 DEF EditRowLoads, DeleteRowLoads, SplitLoads, Arrives
    <3>2. ASSUME NEW Q \in SUBSET Reqs, MergeLoads(g, Q)
          PROVE  FALSE
      BY <2>2, <3>2 DEF MergeLoads, Arrives
    <3>3. ASSUME NEW f, NEW s, NEW m, EditRowCommits(g, f, s, m)
          PROVE  FALSE
      BY <2>1, <3>3 DEF EditRowCommits
    <3>4. ASSUME NEW q \in Reqs, MergeWrites(g, q)
          PROVE  FALSE
      BY <1>0, <3>4 DEF MergeWrites, Touched, Requests
    <3>5. ASSUME NEW f, NEW q, SplitCommits(g, f, q)
          PROVE  FALSE
      BY <2>1, <3>5 DEF SplitCommits, Answers
    <3>6. CASE DeleteRowCommits(g) \/ MergeDeletes(g)
      BY <2>1, <3>6 DEF DeleteRowCommits, MergeDeletes, Answers
    <3>7. CASE MatrixFails(g)
      BY <2>2, <3>7 DEF MatrixFails, Ends
    <3>8. QED
      BY <2>3, <3>1, <3>2, <3>3, <3>4, <3>5, <3>6, <3>7 DEF MatrixStep
  <2>4. CASE ReviewStep(g)
    BY <2>1, <2>2, <2>4 DEF ReviewStep, ReviewLoads, Arrives, ReadsDraft, DraftCommits,
       ApproveCommits, ApproveBlocks, EditDraftCommits, RejectDraftCommits, ChangesCommits,
       RejectReviewCommits, ReopenCommits, StartCommits, AssignCommits, Decides, LinkCommits,
       ReviewEnds, Ends, Answers
  <2>5. QED
    BY <2>3, <2>4
<1>2. ASSUME NEW p \in Reqs, MergeWrites(h, p)
      PROVE  Held \subseteq Held'
  <2>1. \A q \in Reqs : text[q] \subseteq text'[q]
    BY <1>2, MergeWritesEffect
  <2>2. life' = life
    BY <1>2 DEF MergeWrites
  <2>3. QED
    BY <2>1, <2>2 DEF Held, Exists
<1>3. CASE MergeDeletes(h)
  <2>1. PICK p \in job[h].on : job[h].primary = {p} /\ \A q \in job[h].on : text[q] \subseteq text[p]
    BY <1>0, <1>3 DEF MergeDeletes, At, HandlerInv, MergeOK
  <2>2. Exists(p) /\ p \in Reqs
    BY <1>0 DEF HandlerInv, MergeOK
  <2>3. \A q \in Reqs : Exists(q) => \E r \in Reqs : Exists(r)' /\ text[q] \subseteq text'[r]
    <3> SUFFICES ASSUME NEW q \in Reqs, Exists(q)
                 PROVE  \E r \in Reqs : Exists(r)' /\ text[q] \subseteq text'[r]
      OBVIOUS
    <3>1. CASE q \in Secondaries(h)
      <4>1. Exists(p)' /\ text'[p] = text[p]
        BY <1>3, <2>1, <2>2 DEF MergeDeletes, Deletes, Secondaries, Exists
      <4>2. QED
        BY <2>1, <2>2, <3>1, <4>1 DEF Secondaries
    <3>2. CASE q \notin Secondaries(h)
      BY <1>3, <3>2 DEF MergeDeletes, Deletes, Exists
    <3>3. QED
      BY <3>1, <3>2
  <2>4. QED
    BY <2>3 DEF Held
<1>4. CASE UNCHANGED <<life, text>>
  BY <1>4 DEF Held, Exists
<1>5. QED
  <2>1. job[h].op \notin {"idle", "edit_row", "delete_row", "split"} \cup ReviewOps
    BY DEF ReviewOps, ReadingOps
  <2>2. CASE MatrixStep(h)
    BY <1>2, <1>3, <1>4, <2>1, <2>2 DEF MatrixStep, EditRowLoads, DeleteRowLoads, SplitLoads,
       MergeLoads, Arrives, EditRowCommits, DeleteRowCommits, SplitCommits, MatrixFails, Ends,
       At, rows
  <2>3. CASE ReviewStep(h)
    BY <1>4, <2>1, <2>3 DEF ReviewStep, ReviewLoads, Arrives, ReadsDraft, DraftCommits,
       ApproveCommits, ApproveBlocks, EditDraftCommits, RejectDraftCommits, ChangesCommits,
       RejectReviewCommits, ReopenCommits, StartCommits, AssignCommits, LinkCommits,
       ReviewEnds, Ends, rows, Decides
  <2>4. QED
    BY <1>1, <2>2, <2>3

\* A merge whose rows nobody else wrote since it read them loses no fragment of text.
THEOREM MergesKeepText == WorkspaceSpec => QuietMergeKeepsText
<1>1. WorkspaceInv /\ [WorkspaceNext]_workspaceVars =>
        [\A h \in Handlers :
            job[h].op = "merge" /\ ~job[h].touched /\ job'[h] # job[h] /\ ~job'[h].touched
            => Held \subseteq Held']_workspaceVars
  BY MergeKeepsText DEF WorkspaceNext
<1>2. QED
  BY <1>1, WorkspaceInvariant, PTL DEF WorkspaceSpec, QuietMergeKeepsText
=============================================================================
