-------------------------- MODULE HeadSuite_proofs --------------------------
(***************************************************************************)
(* The theorems about head test suites, for every number of suites, texts, *)
(* runs, curators and faults: the inductive invariant, that no live or     *)
(* finished run is reaped, and that results are kept.                      *)
(***************************************************************************)
EXTENDS HeadSuiteService, TLAPS

-----------------------------------------------------------------------------
(***************************************************************************)
(* What the parts of the invariant depend on.                              *)
(***************************************************************************)
LEMMA GenFrame ==
    ASSUME GenInv, UNCHANGED <<suite, gen, gate, failure, edit>>
    PROVE  GenInv'
  BY DEF GenInv, OneGeneration, SuiteLanded, GenerationAnswered, EditOpen

LEMMA RunFrame ==
    ASSUME RunInv, UNCHANGED <<run, lock, worker, poll>>
    PROVE  RunInv'
  BY DEF RunInv, LockedRun, HasSuite, Placeholder, DoneIsLast, LiveRunNotReaped, At, Known

LEMMA NothingContradicts == ~Contradiction({})
  BY DEF Contradiction

(* A worker keeps its copy or forgets it. *)
LEMMA CopiesFrame ==
    ASSUME Consistent, UNCHANGED <<suite, edit>>,
           \A r \in Runs : worker'[r].rows \in {worker[r].rows, {}}
    PROVE  Consistent'
  BY NothingContradicts DEF Consistent

(* A fault leaves fewer. *)
LEMMA SpendTypes ==
    ASSUME TypeOK, NEW e \in Faults, Spend(e)
    PROVE  left' \in [Faults -> Nat]
<1>1. left \in [Faults -> Nat] /\ left[e] > 0 /\ left' = [left EXCEPT ![e] = @ - 1]
  BY DEF TypeOK, Spend
<1>2. left[e] - 1 \in Nat
  BY <1>1
<1> QED
  BY <1>1, <1>2

(* What a move of one worker changes. *)
LEMMA GotoMoves ==
    ASSUME TypeOK, NEW r \in Runs, NEW pc \in WorkerPCs, Goto(r, pc)
    PROVE  /\ worker' \in [Runs -> WorkerType]
           /\ worker'[r].pc = pc
           /\ worker'[r].s = worker[r].s
           /\ worker'[r].rows = {}
           /\ \A q \in Runs \ {r} : worker'[q] = worker[q]
  BY DEF TypeOK, Goto, WorkerType

(* A row added, removed or flipped leaves no text both positive and        *)
(* negative (addQueries, updateSuiteRows).                                 *)
LEMMA EditsConsistent ==
    ASSUME NEW rows \in SUBSET Rows, ~Contradiction(rows), NEW new \in Edited(rows)
    PROVE  new \in SUBSET Rows /\ ~Contradiction(new)
<1>1. CASE new = rows
  BY <1>1
<1>2. CASE new \in Updates(rows) /\ ~Contradiction(new)
  <2>1. CASE \E q \in Rows : new = rows \ {q}
    BY <1>2, <2>1
  <2>2. ASSUME NEW q \in Rows \ rows, new = Flipped(rows, q[1], q[2])
        PROVE  new \in SUBSET Rows
    BY <2>2 DEF Flipped, Rows
  <2> QED
    BY <1>2, <2>1, <2>2 DEF Updates
<1>3. ASSUME NEW q \in Rows, new = Added(rows, q[1], q[2])
      PROVE  new \in SUBSET Rows /\ ~Contradiction(new)
  <2>1. q = <<q[1], q[2]>> /\ q[1] \in Texts /\ q[2] \in Kinds
    BY DEF Rows
  <2>2. CASE {q[1]} \X Kinds \cap rows = {}
    <3>1. new = rows \cup {q}
      BY <1>3, <2>1, <2>2 DEF Added
    <3>2. new \in SUBSET Rows
      BY <3>1
    <3>3. ASSUME NEW t \in Texts, {<<t, "positive">>, <<t, "negative">>} \subseteq new
          PROVE  FALSE
      <4>1. <<t, "positive">> \in new /\ <<t, "negative">> \in new
        BY <3>3
      <4>2. CASE t = q[1]
        BY <2>1, <2>2, <3>1, <4>1, <4>2 DEF Kinds
      <4>3. CASE t # q[1]
        <5>1. <<t, "positive">> \in rows /\ <<t, "negative">> \in rows
          BY <2>1, <3>1, <4>1, <4>3
        <5> QED
          BY <5>1 DEF Contradiction
      <4> QED
        BY <4>2, <4>3
    <3> QED
      BY <3>2, <3>3 DEF Contradiction
  <2>3. CASE {q[1]} \X Kinds \cap rows # {}
    BY <1>3, <2>3 DEF Added
  <2> QED
    BY <2>2, <2>3
<1> QED
  BY <1>1, <1>2, <1>3 DEF Edited

(* The classes are assembled without a text in both (generateSuite). *)
LEMMA AssembledConsistent ==
    ASSUME NEW pos \in SUBSET Texts, NEW neg \in SUBSET Texts
    PROVE  Assembled(pos, neg) \in SUBSET Rows /\ ~Contradiction(Assembled(pos, neg))
<1>1. Assembled(pos, neg) \in SUBSET Rows
  BY DEF Assembled, Rows, Kinds
<1>2. ASSUME NEW t \in Texts,
             {<<t, "positive">>, <<t, "negative">>} \subseteq Assembled(pos, neg)
      PROVE  FALSE
  <2>1. <<t, "positive">> \in Assembled(pos, neg) /\ <<t, "negative">> \in Assembled(pos, neg)
    BY <1>2
  <2>2. t \in pos /\ t \in neg \ pos
    BY <2>1 DEF Assembled
  <2> QED
    BY <2>2
<1> QED
  BY <1>1, <1>2 DEF Contradiction

-----------------------------------------------------------------------------
(***************************************************************************)
(* The inductive step, action by action: generations and curators.         *)
(***************************************************************************)

LEMMA ClickKeeps ==
    ASSUME SuiteInv, Click
    PROVE  SuiteInv'
<1>1. TypeOK'
  BY SuiteAssumption DEF SuiteInv, TypeOK, running, Click, generation
<1>2. GenInv'
  BY SuiteAssumption DEF SuiteInv, TypeOK, GenInv, OneGeneration, SuiteLanded,
     GenerationAnswered, EditOpen, Click, generation
<1>3. Consistent'
  BY CopiesFrame DEF SuiteInv, running, Click
<1>4. RunInv'
  BY RunFrame DEF SuiteInv, running, Click
<1> QED
  BY <1>1, <1>2, <1>3, <1>4 DEF SuiteInv

LEMMA RefuseKeeps ==
    ASSUME SuiteInv, Refuse
    PROVE  SuiteInv'
<1>1. TypeOK'
  BY SuiteAssumption DEF SuiteInv, TypeOK, running, Refuse, generation
<1>2. GenInv'
  BY SuiteAssumption DEF SuiteInv, TypeOK, GenInv, OneGeneration, SuiteLanded,
     GenerationAnswered, EditOpen, Refuse, generation
<1>3. Consistent'
  BY CopiesFrame DEF SuiteInv, running, Refuse
<1>4. RunInv'
  BY RunFrame DEF SuiteInv, running, Refuse
<1> QED
  BY <1>1, <1>2, <1>3, <1>4 DEF SuiteInv

LEMMA ReserveKeeps ==
    ASSUME SuiteInv, NEW s \in Suites, Reserve(s)
    PROVE  SuiteInv'
<1>1. TypeOK'
  BY SuiteAssumption DEF SuiteInv, TypeOK, running, Reserve, GenStatus
<1>2. GenInv'
  BY SuiteAssumption DEF SuiteInv, TypeOK, GenInv, OneGeneration, SuiteLanded,
     GenerationAnswered, EditOpen, Reserve, CanReserve, GenStatus
<1>3. Consistent'
  BY CopiesFrame DEF SuiteInv, running, Reserve
<1>4. RunInv'
  BY RunFrame DEF SuiteInv, running, Reserve
<1> QED
  BY <1>1, <1>2, <1>3, <1>4 DEF SuiteInv

LEMMA GenerateLandsKeeps ==
    ASSUME SuiteInv, NEW s \in Suites, GenerateLands(s)
    PROVE  SuiteInv'
<1>1. PICK pos \in SUBSET Texts, neg \in SUBSET Texts :
           suite' = [suite EXCEPT ![s] = Assembled(pos, neg)]
  BY DEF GenerateLands, Land
<1>2. Assembled(pos, neg) \in SUBSET Rows /\ ~Contradiction(Assembled(pos, neg))
  BY AssembledConsistent
<1>3. Assembled(pos, neg) # None
  BY <1>2, SuiteAssumption
<1>4. TypeOK'
  BY <1>1, <1>2 DEF SuiteInv, TypeOK, running, GenerateLands, GenStatus
<1>5. GenInv'
  BY SuiteAssumption, <1>1, <1>2, <1>3 DEF SuiteInv, TypeOK, GenInv, OneGeneration,
     SuiteLanded, GenerationAnswered, EditOpen, GenerateLands, GenStatus
<1>6. Consistent'
  BY <1>1, <1>2, <1>3 DEF SuiteInv, TypeOK, Consistent, running, GenerateLands
<1>7. RunInv'
  BY RunFrame DEF SuiteInv, running, GenerateLands
<1> QED
  BY <1>4, <1>5, <1>6, <1>7 DEF SuiteInv

LEMMA GenerateFailsKeeps ==
    ASSUME SuiteInv, NEW s \in Suites, GenerateFails(s)
    PROVE  SuiteInv'
<1>1. left' \in [Faults -> Nat]
  BY SpendTypes DEF SuiteInv, Faults, GenerateFails
<1>2. \/ UNCHANGED suite
      \/ \E new \in SUBSET Rows :
           suite' = [suite EXCEPT ![s] = new] /\ ~Contradiction(new) /\ new # None
  BY AssembledConsistent, SuiteAssumption DEF GenerateFails, Land
<1>3. TypeOK'
  BY <1>1, <1>2 DEF SuiteInv, TypeOK, GenStatus, running, GenerateFails
<1>4. GenInv'
  BY <1>2, SuiteAssumption DEF SuiteInv, TypeOK, GenInv, OneGeneration, SuiteLanded,
     GenerationAnswered, EditOpen, GenerateFails, GenStatus
<1>5. Consistent'
  BY <1>2 DEF SuiteInv, TypeOK, Consistent, running, GenerateFails
<1>6. RunInv'
  BY RunFrame DEF SuiteInv, running, GenerateFails
<1> QED
  BY <1>3, <1>4, <1>5, <1>6 DEF SuiteInv

LEMMA GenerateEndsKeeps ==
    ASSUME SuiteInv, NEW s \in Suites, GenerateEnds(s)
    PROVE  SuiteInv'
<1>1. /\ gen[s] \in {"landed", "failed"} /\ gate = s
      /\ gate' = None /\ gen' = [gen EXCEPT ![s] = "over"] /\ suite' = suite /\ edit' = edit
      /\ failure' = IF gen[s] = "failed" THEN s ELSE failure
  BY DEF SuiteInv, GenInv, OneGeneration, GenerateEnds, Outcome
<1>2. TypeOK'
  BY SuiteAssumption DEF SuiteInv, TypeOK, running, GenerateEnds, GenStatus, Outcome
<1>3. GenInv'
  <2>1. OneGeneration'
    BY <1>1, SuiteAssumption DEF SuiteInv, TypeOK, GenInv, OneGeneration
  <2>2. SuiteLanded'
    BY <1>1 DEF SuiteInv, TypeOK, GenInv, SuiteLanded
  <2>3. GenerationAnswered'
    <3>1. CASE gen[s] = "failed"
      <4>1. failure = None /\ failure' = s
        BY <1>1, <3>1, SuiteAssumption DEF SuiteInv, GenInv, OneGeneration
      <4>2. ASSUME NEW k \in Suites \ {s}, gen[k] \notin {"new", "gone"}
            PROVE  suite[k] # None
        BY <1>1, <4>1, <4>2, SuiteAssumption DEF SuiteInv, GenInv, GenerationAnswered
      <4> QED
        BY <1>1, <4>1, <4>2 DEF SuiteInv, TypeOK, GenerationAnswered
    <3>2. CASE gen[s] = "landed"
      BY <1>1, <3>2, SuiteAssumption
         DEF SuiteInv, TypeOK, GenInv, OneGeneration, GenerationAnswered, SuiteLanded
    <3> QED
      BY <1>1, <3>1, <3>2
  <2>4. EditOpen'
    BY <1>1 DEF SuiteInv, TypeOK, GenInv, EditOpen
  <2> QED
    BY <2>1, <2>2, <2>3, <2>4 DEF GenInv
<1>4. Consistent'
  BY CopiesFrame DEF SuiteInv, running, GenerateEnds
<1>5. RunInv'
  BY RunFrame DEF SuiteInv, running, GenerateEnds
<1> QED
  BY <1>2, <1>3, <1>4, <1>5 DEF SuiteInv

LEMMA OpenKeeps ==
    ASSUME SuiteInv, NEW c \in Curators, NEW s \in Touched, Open(c, s)
    PROVE  SuiteInv'
<1>1. TypeOK'
  BY SuiteAssumption DEF SuiteInv, TypeOK, generation, running, Open, EditType
<1>2. GenInv'
  BY SuiteAssumption DEF SuiteInv, TypeOK, generation, GenInv, OneGeneration, SuiteLanded,
     GenerationAnswered, EditOpen, Open, EditType
<1>3. Consistent'
  BY NothingContradicts, SuiteAssumption DEF SuiteInv, TypeOK, Consistent, running, Open
<1>4. RunInv'
  BY RunFrame DEF SuiteInv, running, Open
<1> QED
  BY <1>1, <1>2, <1>3, <1>4 DEF SuiteInv

LEMMA ReplaceKeeps ==
    ASSUME SuiteInv, NEW c \in Curators, Replace(c)
    PROVE  SuiteInv'
<1>1. PICK new \in Edited(edit[c].rows) : suite' = [suite EXCEPT ![edit[c].s] = new]
  BY DEF Replace
<1>2. edit[c] \in EditType /\ edit[c].s \in Suites /\ edit[c].rows \in SUBSET Rows
  BY DEF SuiteInv, GenInv, EditOpen, TypeOK, EditType, Replace
<1>3. new \in SUBSET Rows /\ ~Contradiction(new)
  BY <1>1, <1>2, EditsConsistent DEF SuiteInv, Consistent
<1>4. new # None
  BY <1>3, SuiteAssumption
<1>5. NoEdit \in EditType
  BY DEF NoEdit, EditType
<1>6. TypeOK'
  BY <1>1, <1>2, <1>3, <1>5 DEF SuiteInv, TypeOK, generation, running, Replace
<1>7. GenInv'
  BY <1>1, <1>2, <1>4, <1>5 DEF SuiteInv, TypeOK, generation, NoEdit, GenInv, OneGeneration,
     SuiteLanded, GenerationAnswered, EditOpen, Replace
<1>8. Consistent'
  BY <1>1, <1>2, <1>3, NothingContradicts DEF SuiteInv, TypeOK, Consistent, running, NoEdit,
     Replace
<1>9. RunInv'
  BY RunFrame DEF SuiteInv, running, Replace
<1> QED
  BY <1>6, <1>7, <1>8, <1>9 DEF SuiteInv

LEMMA WithdrawKeeps ==
    ASSUME SuiteInv, NEW c \in Curators, Withdraw(c)
    PROVE  SuiteInv'
<1>1. NoEdit \in EditType
  BY DEF NoEdit, EditType
<1>2. TypeOK'
  BY <1>1 DEF SuiteInv, TypeOK, generation, running, Withdraw
<1>3. GenInv'
  BY SuiteAssumption DEF SuiteInv, TypeOK, generation, GenInv, OneGeneration, SuiteLanded,
     GenerationAnswered, EditOpen, Withdraw, NoEdit
<1>4. Consistent'
  BY NothingContradicts DEF SuiteInv, TypeOK, Consistent, running, Withdraw, NoEdit
<1>5. RunInv'
  BY RunFrame DEF SuiteInv, running, Withdraw
<1> QED
  BY <1>2, <1>3, <1>4, <1>5 DEF SuiteInv

LEMMA DeleteKeeps ==
    ASSUME SuiteInv, NEW c \in Curators, NEW s \in Touched, Delete(c, s)
    PROVE  SuiteInv'
<1>1. TypeOK'
  BY SuiteAssumption DEF SuiteInv, TypeOK, generation, running, Delete, EditType, NoEdit
<1>2. GenInv'
  BY SuiteAssumption DEF SuiteInv, TypeOK, generation, GenInv, OneGeneration, SuiteLanded,
     GenerationAnswered, EditOpen, Delete, EditType, NoEdit, GenStatus
<1>3. Consistent'
  BY NothingContradicts, SuiteAssumption DEF SuiteInv, TypeOK, Consistent, running, Delete,
     NoEdit
<1>4. RunInv'
  BY RunFrame DEF SuiteInv, running, Delete
<1> QED
  BY <1>1, <1>2, <1>3, <1>4 DEF SuiteInv

LEMMA RemoveKeeps ==
    ASSUME SuiteInv, NEW c \in Curators, Remove(c)
    PROVE  SuiteInv'
<1>1. NoEdit \in EditType
  BY DEF NoEdit, EditType
<1>2. edit[c].pc = "remove" /\ gen[edit[c].s] \in {"over", "gone"}
  BY DEF SuiteInv, GenInv, EditOpen, Remove
<1>3. edit[c] \in EditType /\ edit[c].s \in Suites
  BY DEF SuiteInv, GenInv, EditOpen, TypeOK, Remove
<1>4. TypeOK'
  <2>1. [edit[c] EXCEPT !.pc = "runs"] \in EditType
    BY <1>3 DEF EditType
  <2>2. \/ edit' = [edit EXCEPT ![c] = NoEdit]
        \/ edit' = [edit EXCEPT ![c] = [edit[c] EXCEPT !.pc = "runs"]]
    BY DEF Remove
  <2>3. edit' \in [Curators -> EditType]
    BY <1>1, <2>1, <2>2 DEF SuiteInv, TypeOK
  <2>4. gen' \in [Suites -> GenStatus] /\ suite' \in [Suites -> (SUBSET Rows) \cup {None}]
    <3>1. /\ gen' = gen \/ gen' = [gen EXCEPT ![edit[c].s] = "gone"]
          /\ suite' = suite \/ suite' = [suite EXCEPT ![edit[c].s] = None]
      BY DEF Remove
    <3> QED
      <4>1. gen' \in [Suites -> GenStatus]
        BY <3>1 DEF SuiteInv, TypeOK, GenStatus
      <4>2. suite' \in [Suites -> (SUBSET Rows) \cup {None}]
        BY <3>1 DEF SuiteInv, TypeOK
      <4> QED
        BY <4>1, <4>2
  <2> QED
    BY <2>4, <2>3 DEF SuiteInv, TypeOK, running, Remove
<1>5. GenInv'
  <2>1. CASE suite[edit[c].s] # None
    <3>1. /\ suite' = [suite EXCEPT ![edit[c].s] = None]
          /\ gen' = [gen EXCEPT ![edit[c].s] = "gone"]
          /\ edit' = [edit EXCEPT ![c].pc = "runs"]
          /\ UNCHANGED <<gate, failure>>
      BY <2>1 DEF Remove
    <3>2. OneGeneration' /\ SuiteLanded' /\ GenerationAnswered'
      BY <1>3, <1>2, <3>1
         DEF SuiteInv, TypeOK, GenInv, OneGeneration, SuiteLanded, GenerationAnswered
    <3>3. EditOpen'
      BY <1>3, <3>1 DEF SuiteInv, TypeOK, GenInv, EditOpen, EditType
    <3> QED
      BY <3>2, <3>3 DEF GenInv
  <2>2. CASE suite[edit[c].s] = None
    <3>1. UNCHANGED <<suite, gen, gate, failure>> /\ edit' = [edit EXCEPT ![c] = NoEdit]
      BY <2>2 DEF Remove
    <3> QED
      BY <3>1 DEF SuiteInv, TypeOK, NoEdit, GenInv, OneGeneration, SuiteLanded,
         GenerationAnswered, EditOpen
  <2> QED
    BY <2>1, <2>2
<1>6. Consistent'
  <2>1. \A k \in Suites : suite'[k] \in {suite[k], None}
    <3>1. suite' = suite \/ suite' = [suite EXCEPT ![edit[c].s] = None]
      BY DEF Remove
    <3> QED
      BY <1>3, <3>1 DEF SuiteInv, TypeOK
  <2>2. \A d \in Curators : edit'[d].rows \in {edit[d].rows, {}}
    BY <1>3 DEF SuiteInv, TypeOK, EditType, NoEdit, Remove
  <2>3. worker' = worker
    BY DEF running, Remove
  <2> QED
    BY <2>1, <2>2, <2>3, NothingContradicts DEF SuiteInv, Consistent
<1>7. RunInv'
  BY RunFrame DEF SuiteInv, running, Remove
<1> QED
  BY <1>4, <1>5, <1>6, <1>7 DEF SuiteInv

LEMMA RemoveRunsKeeps ==
    ASSUME SuiteInv, NEW c \in Curators, RemoveRuns(c)
    PROVE  SuiteInv'
<1>1. NoEdit \in EditType
  BY DEF NoEdit, EditType
<1>2. TypeOK'
  BY <1>1 DEF SuiteInv, TypeOK, RunStatus, generation, RemoveRuns
<1>3. GenInv'
  BY DEF SuiteInv, TypeOK, generation, NoEdit, GenInv, OneGeneration, SuiteLanded,
     GenerationAnswered, EditOpen, RemoveRuns
<1>4. Consistent'
  BY NothingContradicts DEF SuiteInv, TypeOK, Consistent, running, RemoveRuns, NoEdit
<1>5. RunInv'
  BY DEF SuiteInv, TypeOK, RunInv, LockedRun, HasSuite, Placeholder, DoneIsLast,
     LiveRunNotReaped, At, Known, RemoveRuns
<1> QED
  BY <1>2, <1>3, <1>4, <1>5 DEF SuiteInv

LEMMA EditFailsKeeps ==
    ASSUME SuiteInv, NEW c \in Curators, EditFails(c)
    PROVE  SuiteInv'
<1>1. NoEdit \in EditType
  BY DEF NoEdit, EditType
<1>2. left' \in [Faults -> Nat]
  BY SpendTypes DEF SuiteInv, Faults, EditFails
<1>3. TypeOK'
  BY <1>1, <1>2 DEF SuiteInv, TypeOK, generation, running, EditFails
<1>4. GenInv'
  BY DEF SuiteInv, TypeOK, generation, NoEdit, GenInv, OneGeneration, SuiteLanded,
     GenerationAnswered, EditOpen, EditFails
<1>5. Consistent'
  BY NothingContradicts DEF SuiteInv, TypeOK, Consistent, running, EditFails, NoEdit
<1>6. RunInv'
  BY RunFrame DEF SuiteInv, running, EditFails
<1> QED
  BY <1>3, <1>4, <1>5, <1>6 DEF SuiteInv

-----------------------------------------------------------------------------
(***************************************************************************)
(* The inductive step: runs and polls.                                     *)
(***************************************************************************)

LEMMA BeginRunKeeps ==
    ASSUME SuiteInv, NEW r \in Runs, NEW s \in Touched, BeginRun(r, s)
    PROVE  SuiteInv'
<1>1. [NoWorker EXCEPT !.pc = "check", !.s = s] \in WorkerType
  BY SuiteAssumption DEF NoWorker, WorkerType, WorkerPCs
<1>2. /\ worker' \in [Runs -> WorkerType]
      /\ worker'[r].pc = "check" /\ worker'[r].s = s /\ worker'[r].rows = {}
      /\ \A q \in Runs \ {r} : worker'[q] = worker[q]
  BY <1>1 DEF SuiteInv, TypeOK, NoWorker, BeginRun
<1>3. worker[r].pc = "new" /\ s \in Suites
  BY SuiteAssumption DEF At, BeginRun
<1>4. TypeOK'
  BY <1>2, SuiteAssumption DEF SuiteInv, TypeOK, others, generation, BeginRun
<1>5. GenInv'
  BY GenFrame DEF SuiteInv, others, generation, BeginRun
<1>6. Consistent'
  BY <1>2, CopiesFrame DEF SuiteInv, others, BeginRun
<1>7. RunInv'
  BY <1>2, <1>3, SuiteAssumption DEF SuiteInv, TypeOK, RunInv, LockedRun, HasSuite,
     Placeholder, DoneIsLast, LiveRunNotReaped, Working, Known, At, BeginRun
<1> QED
  BY <1>4, <1>5, <1>6, <1>7 DEF SuiteInv

LEMMA SavePlaceholderKeeps ==
    ASSUME SuiteInv, NEW r \in Runs, SavePlaceholder(r)
    PROVE  SuiteInv'
<1>1. /\ worker' \in [Runs -> WorkerType]
      /\ worker'[r].pc = "load" /\ worker'[r].s = worker[r].s /\ worker'[r].rows = {}
      /\ \A q \in Runs \ {r} : worker'[q] = worker[q]
  BY GotoMoves DEF SuiteInv, WorkerPCs, SavePlaceholder
<1>2. TypeOK'
  BY <1>1, SuiteAssumption DEF SuiteInv, TypeOK, RunStatus, others, generation, SavePlaceholder
<1>3. GenInv'
  BY GenFrame DEF SuiteInv, others, generation, SavePlaceholder
<1>4. Consistent'
  BY <1>1, CopiesFrame DEF SuiteInv, others, SavePlaceholder
<1>5. RunInv'
  BY <1>1, SuiteAssumption DEF SuiteInv, TypeOK, RunInv, LockedRun, HasSuite, Placeholder,
     DoneIsLast, LiveRunNotReaped, Working, Known, At, SavePlaceholder
<1> QED
  BY <1>2, <1>3, <1>4, <1>5 DEF SuiteInv

LEMMA PlaceholderUnackedKeeps ==
    ASSUME SuiteInv, NEW r \in Runs, PlaceholderUnacked(r)
    PROVE  SuiteInv'
<1>1. /\ worker' \in [Runs -> WorkerType]
      /\ worker'[r].pc = "lost" /\ worker'[r].s = worker[r].s /\ worker'[r].rows = {}
      /\ \A q \in Runs \ {r} : worker'[q] = worker[q]
  BY GotoMoves DEF SuiteInv, WorkerPCs, PlaceholderUnacked
<1>2. left' \in [Faults -> Nat]
  BY SpendTypes DEF SuiteInv, Faults, PlaceholderUnacked
<1>3. worker[r].s \in Suites
  BY DEF SuiteInv, RunInv, HasSuite, At, PlaceholderUnacked
<1>4. TypeOK'
  BY <1>1, <1>2, SuiteAssumption DEF SuiteInv, TypeOK, RunStatus, Unlock, Free, others,
     generation, PlaceholderUnacked
<1>5. GenInv'
  BY GenFrame DEF SuiteInv, others, generation, PlaceholderUnacked
<1>6. Consistent'
  BY <1>1, CopiesFrame DEF SuiteInv, others, PlaceholderUnacked
<1>7. RunInv'
  BY <1>1, <1>3, SuiteAssumption DEF SuiteInv, TypeOK, RunInv, LockedRun, HasSuite,
     Placeholder, DoneIsLast, LiveRunNotReaped, Working, Known, At, PlaceholderUnacked, Unlock,
     Free
<1> QED
  BY <1>4, <1>5, <1>6, <1>7 DEF SuiteInv

LEMMA WriteFailureKeeps ==
    ASSUME SuiteInv, NEW r \in Runs, WriteFailure(r)
    PROVE  SuiteInv'
<1>1. /\ worker' \in [Runs -> WorkerType]
      /\ worker'[r].pc = "free" /\ worker'[r].s = worker[r].s /\ worker'[r].rows = {}
      /\ \A q \in Runs \ {r} : worker'[q] = worker[q]
  BY GotoMoves DEF SuiteInv, WorkerPCs, WriteFailure
<1>2. TypeOK'
  BY <1>1, SuiteAssumption DEF SuiteInv, TypeOK, RunStatus, others, generation, WriteFailure
<1>3. GenInv'
  BY GenFrame DEF SuiteInv, others, generation, WriteFailure
<1>4. Consistent'
  BY <1>1, CopiesFrame DEF SuiteInv, others, WriteFailure
<1>5. RunInv'
  BY <1>1, SuiteAssumption DEF SuiteInv, TypeOK, RunInv, LockedRun, HasSuite, Placeholder,
     DoneIsLast, LiveRunNotReaped, Working, Known, At, WriteFailure
<1> QED
  BY <1>2, <1>3, <1>4, <1>5 DEF SuiteInv

LEMMA FailureLostKeeps ==
    ASSUME SuiteInv, NEW r \in Runs, FailureLost(r)
    PROVE  SuiteInv'
<1>1. /\ worker' \in [Runs -> WorkerType]
      /\ worker'[r].pc = "free" /\ worker'[r].s = worker[r].s /\ worker'[r].rows = {}
      /\ \A q \in Runs \ {r} : worker'[q] = worker[q]
  BY GotoMoves DEF SuiteInv, WorkerPCs, FailureLost
<1>2. left' \in [Faults -> Nat]
  BY SpendTypes DEF SuiteInv, Faults, FailureLost
<1>3. TypeOK'
  BY <1>1, <1>2, SuiteAssumption DEF SuiteInv, TypeOK, others, generation, FailureLost
<1>4. GenInv'
  BY GenFrame DEF SuiteInv, others, generation, FailureLost
<1>5. Consistent'
  BY <1>1, CopiesFrame DEF SuiteInv, others, FailureLost
<1>6. RunInv'
  BY <1>1, SuiteAssumption DEF SuiteInv, TypeOK, RunInv, LockedRun, HasSuite, Placeholder,
     DoneIsLast, LiveRunNotReaped, Working, Known, At, FailureLost
<1> QED
  BY <1>3, <1>4, <1>5, <1>6 DEF SuiteInv

LEMMA StepFailsKeeps ==
    ASSUME SuiteInv, NEW r \in Runs, StepFails(r)
    PROVE  SuiteInv'
<1>1. /\ worker' \in [Runs -> WorkerType]
      /\ worker'[r].pc = "catch" /\ worker'[r].s = worker[r].s /\ worker'[r].rows = {}
      /\ \A q \in Runs \ {r} : worker'[q] = worker[q]
  BY GotoMoves DEF SuiteInv, WorkerPCs, StepFails
<1>2. left' \in [Faults -> Nat]
  BY SpendTypes DEF SuiteInv, Faults, StepFails
<1>3. TypeOK'
  BY <1>1, <1>2, SuiteAssumption DEF SuiteInv, TypeOK, others, generation, StepFails
<1>4. GenInv'
  BY GenFrame DEF SuiteInv, others, generation, StepFails
<1>5. Consistent'
  BY <1>1, CopiesFrame DEF SuiteInv, others, StepFails
<1>6. RunInv'
  BY <1>1, SuiteAssumption DEF SuiteInv, TypeOK, RunInv, LockedRun, HasSuite, Placeholder,
     DoneIsLast, LiveRunNotReaped, Working, Known, At, StepFails
<1> QED
  BY <1>3, <1>4, <1>5, <1>6 DEF SuiteInv

LEMMA ResultsUnackedKeeps ==
    ASSUME SuiteInv, NEW r \in Runs, ResultsUnacked(r)
    PROVE  SuiteInv'
<1>1. /\ worker' \in [Runs -> WorkerType]
      /\ worker'[r].pc = "catch" /\ worker'[r].s = worker[r].s /\ worker'[r].rows = {}
      /\ \A q \in Runs \ {r} : worker'[q] = worker[q]
  BY GotoMoves DEF SuiteInv, WorkerPCs, ResultsUnacked
<1>2. left' \in [Faults -> Nat]
  BY SpendTypes DEF SuiteInv, Faults, ResultsUnacked
<1>3. TypeOK'
  BY <1>1, <1>2, SuiteAssumption DEF SuiteInv, TypeOK, RunStatus, others, generation,
     ResultsUnacked
<1>4. GenInv'
  BY GenFrame DEF SuiteInv, others, generation, ResultsUnacked
<1>5. Consistent'
  BY <1>1, CopiesFrame DEF SuiteInv, others, ResultsUnacked
<1>6. RunInv'
  BY <1>1, SuiteAssumption DEF SuiteInv, TypeOK, RunInv, LockedRun, HasSuite, Placeholder,
     DoneIsLast, LiveRunNotReaped, Working, Known, At, ResultsUnacked
<1> QED
  BY <1>3, <1>4, <1>5, <1>6 DEF SuiteInv

LEMMA EndRunKeeps ==
    ASSUME SuiteInv, NEW r \in Runs, EndRun(r)
    PROVE  SuiteInv'
<1>1. /\ worker' \in [Runs -> WorkerType]
      /\ worker'[r].pc = "off" /\ worker'[r].s = worker[r].s /\ worker'[r].rows = {}
      /\ \A q \in Runs \ {r} : worker'[q] = worker[q]
  BY GotoMoves DEF SuiteInv, WorkerPCs, EndRun
<1>2. worker[r].s \in Suites
  BY DEF SuiteInv, RunInv, HasSuite, At, EndRun
<1>3. TypeOK'
  BY <1>1, SuiteAssumption DEF SuiteInv, TypeOK, Free, others, generation, EndRun
<1>4. GenInv'
  BY GenFrame DEF SuiteInv, others, generation, EndRun
<1>5. Consistent'
  BY <1>1, CopiesFrame DEF SuiteInv, others, EndRun
<1>6. RunInv'
  BY <1>1, <1>2, SuiteAssumption DEF SuiteInv, TypeOK, RunInv, LockedRun, HasSuite,
     Placeholder, DoneIsLast, LiveRunNotReaped, Working, Known, At, EndRun, Free
<1> QED
  BY <1>3, <1>4, <1>5, <1>6 DEF SuiteInv

LEMMA SaveFailsKeeps ==
    ASSUME SuiteInv, NEW r \in Runs, SaveFails(r)
    PROVE  SuiteInv'
<1>1. NoWorker \in WorkerType
  BY DEF NoWorker, WorkerType, WorkerPCs
<1>2. /\ worker' \in [Runs -> WorkerType]
      /\ worker'[r].pc = "new" /\ worker'[r].rows = {}
      /\ \A q \in Runs \ {r} : worker'[q] = worker[q]
  BY <1>1 DEF SuiteInv, TypeOK, NoWorker, SaveFails
<1>3. left' \in [Faults -> Nat]
  BY SpendTypes DEF SuiteInv, Faults, SaveFails
<1>4. worker[r].s \in Suites
  BY DEF SuiteInv, RunInv, HasSuite, At, SaveFails
<1>5. TypeOK'
  BY <1>2, <1>3, SuiteAssumption DEF SuiteInv, TypeOK, Unlock, Free, others, generation,
     SaveFails
<1>6. GenInv'
  BY GenFrame DEF SuiteInv, others, generation, SaveFails
<1>7. Consistent'
  BY <1>2, CopiesFrame DEF SuiteInv, others, SaveFails
<1>8. RunInv'
  BY <1>2, <1>4, SuiteAssumption DEF SuiteInv, TypeOK, RunInv, LockedRun, HasSuite,
     Placeholder, DoneIsLast, LiveRunNotReaped, Working, Known, At, SaveFails, Unlock, Free
<1> QED
  BY <1>5, <1>6, <1>7, <1>8 DEF SuiteInv

LEMMA PollRunKeeps ==
    ASSUME SuiteInv, NEW r \in Runs, PollRun(r)
    PROVE  SuiteInv'
<1>1. TypeOK'
  BY SuiteAssumption DEF SuiteInv, TypeOK, RunStatus, PollPCs, others, generation, PollRun, LooksDead,
     WorkerType, WorkerPCs
<1>2. GenInv'
  BY GenFrame DEF SuiteInv, others, generation, PollRun
<1>3. Consistent'
  BY CopiesFrame DEF SuiteInv, others, PollRun
<1>4. RunInv'
  BY SuiteAssumption DEF SuiteInv, TypeOK, RunInv, LockedRun, HasSuite, Placeholder,
     DoneIsLast, LiveRunNotReaped, Working, Known, At, PollRun, LooksDead, WorkerType,
     WorkerPCs
<1> QED
  BY <1>1, <1>2, <1>3, <1>4 DEF SuiteInv

LEMMA PollLoadsKeeps ==
    ASSUME SuiteInv, NEW r \in Runs, PollLoads(r)
    PROVE  SuiteInv'
<1>1. TypeOK'
  BY SuiteAssumption DEF SuiteInv, TypeOK, RunStatus, PollPCs, others, generation, PollLoads, AfterLoad
<1>2. GenInv'
  BY GenFrame DEF SuiteInv, others, generation, PollLoads
<1>3. Consistent'
  BY CopiesFrame DEF SuiteInv, others, PollLoads
<1>4. RunInv'
  BY SuiteAssumption DEF SuiteInv, TypeOK, RunInv, LockedRun, HasSuite, Placeholder,
     DoneIsLast, LiveRunNotReaped, Working, Known, At, PollLoads, AfterLoad
<1> QED
  BY <1>1, <1>2, <1>3, <1>4 DEF SuiteInv

LEMMA ReapKeeps ==
    ASSUME SuiteInv, NEW r \in Runs, Reap(r)
    PROVE  SuiteInv'
<1>1. TypeOK'
  BY SuiteAssumption DEF SuiteInv, TypeOK, RunStatus, PollPCs, others, generation, Reap
<1>2. GenInv'
  BY GenFrame DEF SuiteInv, others, generation, Reap
<1>3. Consistent'
  BY CopiesFrame DEF SuiteInv, others, Reap
<1>4. RunInv'
  BY SuiteAssumption DEF SuiteInv, TypeOK, RunInv, LockedRun, HasSuite, Placeholder,
     DoneIsLast, LiveRunNotReaped, Working, Known, At, Reap
<1> QED
  BY <1>1, <1>2, <1>3, <1>4 DEF SuiteInv

LEMMA PollFailsKeeps ==
    ASSUME SuiteInv, NEW r \in Runs, PollFails(r)
    PROVE  SuiteInv'
<1>1. left' \in [Faults -> Nat]
  BY SpendTypes DEF SuiteInv, Faults, PollFails
<1>2. TypeOK'
  BY <1>1, SuiteAssumption DEF SuiteInv, TypeOK, RunStatus, PollPCs, others, generation, PollFails
<1>3. GenInv'
  BY GenFrame DEF SuiteInv, others, generation, PollFails
<1>4. Consistent'
  BY CopiesFrame DEF SuiteInv, others, PollFails
<1>5. RunInv'
  BY SuiteAssumption DEF SuiteInv, TypeOK, RunInv, LockedRun, HasSuite, Placeholder,
     DoneIsLast, LiveRunNotReaped, Working, Known, At, PollFails
<1> QED
  BY <1>2, <1>3, <1>4, <1>5 DEF SuiteInv

LEMMA SweepKeeps ==
    ASSUME SuiteInv, Sweep
    PROVE  SuiteInv'
<1>1. TypeOK'
  BY SuiteAssumption DEF SuiteInv, TypeOK, RunStatus, others, generation, Sweep, Swept
<1>2. GenInv'
  BY GenFrame DEF SuiteInv, others, generation, Sweep
<1>3. Consistent'
  BY CopiesFrame DEF SuiteInv, others, Sweep
<1>4. RunInv'
  BY SuiteAssumption DEF SuiteInv, TypeOK, RunInv, LockedRun, HasSuite, Placeholder,
     DoneIsLast, LiveRunNotReaped, Working, Known, At, Sweep, Swept
<1> QED
  BY <1>1, <1>2, <1>3, <1>4 DEF SuiteInv

LEMMA SweepFailsKeeps ==
    ASSUME SuiteInv, SweepFails
    PROVE  SuiteInv'
<1>1. left' \in [Faults -> Nat]
  BY SpendTypes DEF SuiteInv, Faults, SweepFails
<1>2. TypeOK'
  BY <1>1, SuiteAssumption DEF SuiteInv, TypeOK, RunStatus, others, generation, SweepFails
<1>3. GenInv'
  BY GenFrame DEF SuiteInv, others, generation, SweepFails
<1>4. Consistent'
  BY CopiesFrame DEF SuiteInv, others, SweepFails
<1>5. RunInv'
  BY SuiteAssumption DEF SuiteInv, TypeOK, RunInv, LockedRun, HasSuite, Placeholder,
     DoneIsLast, LiveRunNotReaped, Working, Known, At, SweepFails
<1> QED
  BY <1>2, <1>3, <1>4, <1>5 DEF SuiteInv

LEMMA CheckLockKeeps ==
    ASSUME SuiteInv, NEW r \in Runs, CheckLock(r)
    PROVE  SuiteInv'
<1>1. worker[r].s \in Suites /\ worker[r].pc = "check"
  BY DEF SuiteInv, RunInv, HasSuite, At, CheckLock
<1>2. NoWorker \in WorkerType /\ NoWorker.pc = "new" /\ NoWorker.rows = {}
  BY DEF NoWorker, WorkerType, WorkerPCs
<1>3. CASE lock[worker[r].s] = None
  <2>1. /\ worker' \in [Runs -> WorkerType]
        /\ worker'[r].pc = "save" /\ worker'[r].s = worker[r].s /\ worker'[r].rows = {}
        /\ \A q \in Runs \ {r} : worker'[q] = worker[q]
        /\ lock' = [lock EXCEPT ![worker[r].s] = r]
    BY <1>3, GotoMoves DEF SuiteInv, WorkerPCs, CheckLock
  <2>2. TypeOK'
    BY <1>1, <2>1 DEF SuiteInv, TypeOK, others, generation, CheckLock
  <2>3. GenInv' /\ Consistent'
    BY <2>1, GenFrame, CopiesFrame DEF SuiteInv, others, generation, CheckLock
  <2>4. LockedRun'
    BY <1>1, <1>3, <2>1, SuiteAssumption DEF SuiteInv, TypeOK, RunInv, LockedRun, Working
  <2>5. HasSuite' /\ Placeholder' /\ DoneIsLast' /\ LiveRunNotReaped'
    BY <1>1, <2>1 DEF SuiteInv, TypeOK, RunInv, HasSuite, Placeholder, DoneIsLast,
       LiveRunNotReaped, Known, At, CheckLock
  <2> QED
    BY <2>2, <2>3, <2>4, <2>5 DEF SuiteInv, RunInv
<1>4. CASE lock[worker[r].s] # None
  <2>1. worker' = [worker EXCEPT ![r] = NoWorker] /\ lock' = lock
    BY <1>4 DEF CheckLock
  <2>2. TypeOK'
    BY <1>2, <2>1 DEF SuiteInv, TypeOK, others, generation, CheckLock
  <2>3. GenInv' /\ Consistent'
    <3>1. \A q \in Runs : worker'[q].rows \in {worker[q].rows, {}}
      BY <1>2, <2>1 DEF SuiteInv, TypeOK
    <3> QED
      BY <3>1, GenFrame, CopiesFrame DEF SuiteInv, others, generation, CheckLock
  <2>4. RunInv'
    BY <1>1, <1>2, <2>1, SuiteAssumption
       DEF SuiteInv, TypeOK, RunInv, LockedRun, HasSuite, Placeholder, DoneIsLast,
           LiveRunNotReaped, Working, Known, At, CheckLock
  <2> QED
    BY <2>2, <2>3, <2>4 DEF SuiteInv
<1> QED
  BY <1>3, <1>4

LEMMA LoadSuiteKeeps ==
    ASSUME SuiteInv, NEW r \in Runs, LoadSuite(r)
    PROVE  SuiteInv'
<1>1. worker[r].s \in Suites /\ worker[r].pc = "load"
  BY DEF SuiteInv, RunInv, HasSuite, At, LoadSuite
<1>2. PICK pc \in {"catch", "write", "probe"}, rows \in SUBSET Rows :
          /\ worker' = [worker EXCEPT ![r].pc = pc, ![r].rows = rows]
          /\ rows = {} \/ rows = suite[worker[r].s]
  <2>1. suite[worker[r].s] = None \/ suite[worker[r].s] \in SUBSET Rows
    BY <1>1 DEF SuiteInv, TypeOK
  <2>2. \/ Goto(r, "catch")
        \/ Goto(r, "write")
        \/ /\ suite[worker[r].s] # None
           /\ worker' = [worker EXCEPT ![r].pc = "probe", ![r].rows = suite[worker[r].s]]
    BY DEF LoadSuite
  <2> QED
    BY <2>1, <2>2 DEF Goto
<1>3. /\ worker' \in [Runs -> WorkerType]
      /\ worker'[r].pc = pc /\ worker'[r].s = worker[r].s /\ worker'[r].rows = rows
      /\ \A q \in Runs \ {r} : worker'[q] = worker[q]
  <2> DEFINE w == [worker[r] EXCEPT !.pc = pc, !.rows = rows]
  <2>1. worker[r] \in WorkerType /\ worker \in [Runs -> WorkerType]
    BY DEF SuiteInv, TypeOK
  <2>2. w \in WorkerType /\ w.pc = pc /\ w.s = worker[r].s /\ w.rows = rows
    BY <2>1 DEF WorkerType, WorkerPCs
  <2>3. worker' = [worker EXCEPT ![r] = w]
    BY <1>2, <2>1
  <2> QED
    BY <2>1, <2>2, <2>3
<1>4. TypeOK'
  BY <1>3 DEF SuiteInv, TypeOK, others, generation, LoadSuite
<1>5. GenInv'
  BY GenFrame DEF SuiteInv, others, generation, LoadSuite
<1>6. ~Contradiction(rows)
  BY <1>1, <1>2, NothingContradicts, SuiteAssumption DEF SuiteInv, Consistent
<1>7. Consistent'
  BY <1>3, <1>6 DEF SuiteInv, Consistent, others, LoadSuite
<1>8. RunInv'
  BY <1>3, <1>1 DEF SuiteInv, TypeOK, RunInv, LockedRun, HasSuite, Placeholder, DoneIsLast,
     LiveRunNotReaped, Working, Known, At, LoadSuite
<1> QED
  BY <1>4, <1>5, <1>7, <1>8 DEF SuiteInv

LEMMA SaveVerdictsKeeps ==
    ASSUME SuiteInv, NEW r \in Runs, SaveVerdicts(r)
    PROVE  SuiteInv'
<1>1. worker[r].s \in Suites /\ worker[r].pc = "probe" /\ worker[r].rows \in SUBSET Rows
  BY DEF SuiteInv, TypeOK, WorkerType, RunInv, HasSuite, At, SaveVerdicts
<1>2. ~Contradiction(worker[r].rows)
  BY DEF SuiteInv, Consistent
<1>3. worker[r].rows # None
  BY <1>1, SuiteAssumption
<1>4. PICK pc \in {"write", "catch"} : Goto(r, pc)
  BY DEF SaveVerdicts
<1>5. /\ worker' \in [Runs -> WorkerType]
      /\ worker'[r].pc = pc /\ worker'[r].s = worker[r].s /\ worker'[r].rows = {}
      /\ \A q \in Runs \ {r} : worker'[q] = worker[q]
  BY <1>4, GotoMoves DEF SuiteInv, WorkerPCs
<1>6. \/ suite' = suite
      \/ /\ suite[worker[r].s] # None
         /\ suite' = [suite EXCEPT ![worker[r].s] = worker[r].rows]
  BY DEF SaveVerdicts
<1>7. UNCHANGED <<generation, edit, run, lock, poll, sweeping, left>>
  BY DEF SaveVerdicts
<1>8. TypeOK'
  BY <1>5, <1>1, <1>6, <1>7 DEF SuiteInv, TypeOK, generation
<1>9. \A s \in Suites : suite'[s] = None <=> suite[s] = None
  BY <1>1, <1>3, <1>6 DEF SuiteInv, TypeOK
<1>10. GenInv'
  BY <1>7, <1>9 DEF SuiteInv, GenInv, OneGeneration, SuiteLanded, GenerationAnswered, EditOpen,
     generation
<1>11. Consistent'
  <2>1. \A s \in Suites : suite'[s] \in {suite[s], worker[r].rows}
    BY <1>1, <1>6 DEF SuiteInv, TypeOK
  <2>2. \A s \in Suites : suite'[s] # None => ~Contradiction(suite'[s])
    BY <1>2, <2>1 DEF SuiteInv, Consistent
  <2>3. \A q \in Runs : worker'[q].rows \in {worker[q].rows, {}}
    BY <1>5
  <2>4. edit' = edit
    BY <1>7
  <2> QED
    BY <2>2, <2>3, <2>4, NothingContradicts DEF SuiteInv, Consistent
<1>12. RunInv'
  BY <1>5, <1>1, <1>7 DEF SuiteInv, TypeOK, RunInv, LockedRun, HasSuite, Placeholder,
     DoneIsLast, LiveRunNotReaped, Working, Known, At
<1> QED
  BY <1>8, <1>10, <1>11, <1>12 DEF SuiteInv

LEMMA WriteResultsKeeps ==
    ASSUME SuiteInv, NEW r \in Runs, WriteResults(r)
    PROVE  SuiteInv'
<1>1. PICK pc \in {"free", "catch"} : Goto(r, pc)
  BY DEF WriteResults
<1>2. /\ worker' \in [Runs -> WorkerType]
      /\ worker'[r].pc = pc /\ worker'[r].s = worker[r].s /\ worker'[r].rows = {}
      /\ \A q \in Runs \ {r} : worker'[q] = worker[q]
  BY <1>1, GotoMoves DEF SuiteInv, WorkerPCs
<1>3. worker[r].pc = "write"
  BY DEF WriteResults, At
<1>4. UNCHANGED <<others, lock, poll, sweeping, left>>
  BY DEF WriteResults
<1>5. run' = run \/ run' = [run EXCEPT ![r] = "done"]
  BY DEF WriteResults
<1>6. TypeOK'
  BY <1>2, <1>4, <1>5 DEF SuiteInv, TypeOK, RunStatus, others, generation
<1>7. GenInv' /\ Consistent'
  BY <1>2, <1>4, GenFrame, CopiesFrame DEF SuiteInv, others, generation
<1>8. RunInv'
  BY <1>2, <1>3, <1>4, <1>5 DEF SuiteInv, TypeOK, RunInv, LockedRun, HasSuite, Placeholder,
     DoneIsLast, LiveRunNotReaped, Working, Known, At
<1> QED
  BY <1>6, <1>7, <1>8 DEF SuiteInv

(* What a restart leaves of the workers. *)
LEMMA CrashMoves ==
    ASSUME TypeOK, Crash
    PROVE  /\ worker' \in [Runs -> WorkerType]
           /\ \A r \in Runs : /\ worker'[r].rows \in {worker[r].rows, {}}
                              /\ worker'[r].pc \notin Working \cup {"check"}
                              /\ worker'[r].pc \in {"lost", "off"} => worker'[r].s = worker[r].s
                              /\ worker'[r].pc = "lost" <=> worker[r].pc = "lost"
                              /\ worker'[r].pc = "new" <=> ~Known(r)
<1>1. NoWorker \in WorkerType
  BY DEF NoWorker, WorkerType, WorkerPCs
<1>2. ASSUME NEW r \in Runs
      PROVE  /\ worker'[r] \in WorkerType
             /\ worker'[r].rows \in {worker[r].rows, {}}
             /\ worker'[r].pc \notin Working \cup {"check"}
             /\ worker'[r].pc \in {"lost", "off"} => worker'[r].s = worker[r].s
             /\ worker'[r].pc = "lost" <=> worker[r].pc = "lost"
             /\ worker'[r].pc = "new" <=> ~Known(r)
  <2>1. worker[r] \in WorkerType
    BY DEF TypeOK
  <2>2. worker'[r] = IF worker[r].pc = "lost" THEN worker[r]
                     ELSE IF Known(r) THEN [worker[r] EXCEPT !.pc = "off", !.rows = {}]
                     ELSE NoWorker
    BY DEF Crash, At
  <2>3. CASE worker[r].pc = "lost"
    BY <2>1, <2>2, <2>3 DEF Working, Known
  <2>4. CASE worker[r].pc # "lost" /\ Known(r)
    BY <2>1, <2>2, <2>4 DEF Working, WorkerType, WorkerPCs
  <2>5. CASE worker[r].pc # "lost" /\ ~Known(r)
    BY <1>1, <2>2, <2>5 DEF Working, NoWorker
  <2> QED
    BY <2>3, <2>4, <2>5
<1>3. worker' = [r \in Runs |-> worker'[r]]
  BY DEF Crash
<1> QED
  BY <1>2, <1>3

LEMMA CrashKeeps ==
    ASSUME SuiteInv, Crash
    PROVE  SuiteInv'
<1>1. /\ worker' \in [Runs -> WorkerType]
      /\ \A r \in Runs : /\ worker'[r].rows \in {worker[r].rows, {}}
                         /\ worker'[r].pc \notin Working \cup {"check"}
                         /\ worker'[r].pc \in {"lost", "off"} => worker'[r].s = worker[r].s
                         /\ worker'[r].pc = "lost" <=> worker[r].pc = "lost"
                         /\ worker'[r].pc = "new" <=> ~Known(r)
  BY CrashMoves DEF SuiteInv
<1>2. left' \in [Faults -> Nat]
  BY SpendTypes DEF SuiteInv, Faults, Crash
<1>3. NoEdit \in EditType /\ NoEdit.pc = "idle" /\ NoEdit.rows = {}
  BY DEF NoEdit, EditType
<1>4. TypeOK'
  <2>1. gen' \in [Suites -> GenStatus]
    BY DEF GenStatus, Crash
  <2>2. clicks' \in 0 .. MaxClicks
    <3>1. clicks' = 0 /\ MaxClicks \in Nat
      BY SuiteAssumption DEF Crash
    <3> QED
      BY <3>1
  <2>3. gate' = None /\ failure' = None /\ UNCHANGED <<suite, run>>
    BY DEF Crash
  <2>4. edit' \in [Curators -> EditType] /\ lock' \in [Suites -> Runs \cup {None}]
    BY <1>3 DEF Crash
  <2>5. poll' \in [Runs -> PollPCs] /\ sweeping' \in BOOLEAN
    BY DEF Crash, PollPCs
  <2> QED
    BY <1>1, <1>2, <2>1, <2>2, <2>4, <2>5, <2>3 DEF SuiteInv, TypeOK
<1>5. GenInv'
  <2>1. /\ gate' = None /\ failure' = None /\ suite' = suite
        /\ edit' = [c \in Curators |-> NoEdit]
        /\ \A s \in Suites : gen'[s] = IF suite[s] # None THEN "over"
                                       ELSE IF gen[s] = "new" THEN "new" ELSE "gone"
    BY DEF Crash
  <2>2. OneGeneration'
    BY <2>1, SuiteAssumption DEF OneGeneration
  <2>3. SuiteLanded' /\ GenerationAnswered'
    BY <2>1 DEF SuiteLanded, GenerationAnswered
  <2>4. EditOpen'
    BY <1>3, <2>1 DEF EditOpen
  <2> QED
    BY <2>2, <2>3, <2>4 DEF GenInv
<1>6. Consistent'
  BY <1>1, <1>3, NothingContradicts DEF SuiteInv, Consistent, Crash
<1>7. LockedRun'
  BY <1>1, SuiteAssumption DEF LockedRun, Crash
<1>8. HasSuite' /\ Placeholder' /\ DoneIsLast'
  <2>1. run' = run
    BY DEF Crash
  <2>2. \A r \in Runs : worker'[r].pc \in {"new", "lost", "off"}
    BY <1>1 DEF WorkerType, WorkerPCs, Working
  <2>3. Placeholder'
    BY <1>1, <2>1, <2>2 DEF SuiteInv, RunInv, Placeholder, Known
  <2>4. HasSuite'
    BY <1>1, <2>2 DEF SuiteInv, RunInv, HasSuite, Known, At
  <2>5. DoneIsLast'
    BY <1>1, <2>1, <2>2 DEF SuiteInv, RunInv, DoneIsLast, Placeholder, Known
  <2> QED
    BY <2>3, <2>4, <2>5
<1>9. LiveRunNotReaped'
  <2>1. ASSUME NEW r \in Runs, poll'[r] # "idle"
        PROVE  At(r, "off")' \/ At(r, "lost")'
    <3>1. At(r, "off") \/ At(r, "lost")
      BY <2>1 DEF SuiteInv, RunInv, LiveRunNotReaped, Crash
    <3>2. worker'[r].pc \in {"new", "lost", "off"}
      BY <1>1 DEF WorkerType, WorkerPCs, Working
    <3> QED
      BY <1>1, <3>1, <3>2 DEF Known, At
  <2>2. \A r \in Runs : poll'[r] # "reap"
    BY DEF Crash
  <2> QED
    BY <2>1, <2>2 DEF LiveRunNotReaped
<1> QED
  BY <1>4, <1>5, <1>6, <1>7, <1>8, <1>9 DEF SuiteInv, RunInv

-----------------------------------------------------------------------------
(***************************************************************************)
(* The theorems.                                                           *)
(***************************************************************************)
LEMMA InitSuiteInv == Init => SuiteInv
<1> SUFFICES ASSUME Init PROVE SuiteInv
  OBVIOUS
<1>1. NoEdit \in EditType /\ NoEdit.pc = "idle" /\ NoEdit.rows = {}
  BY DEF NoEdit, EditType
<1>2. NoWorker \in WorkerType /\ NoWorker.pc = "new" /\ NoWorker.rows = {}
  BY DEF NoWorker, WorkerType, WorkerPCs
<1>3. TypeOK
  <2>1. clicks \in 0 .. MaxClicks /\ left \in [Faults -> Nat]
    BY SuiteAssumption DEF Init
  <2>2. edit \in [Curators -> EditType] /\ worker \in [Runs -> WorkerType]
    BY <1>1, <1>2 DEF Init
  <2>3. /\ suite \in [Suites -> (SUBSET Rows) \cup {None}]
        /\ lock \in [Suites -> Runs \cup {None}]
        /\ gen \in [Suites -> GenStatus] /\ run \in [Runs -> RunStatus]
        /\ gate = None /\ failure = None
    BY DEF Init, GenStatus, RunStatus
  <2>4. poll \in [Runs -> PollPCs] /\ sweeping \in BOOLEAN
    BY DEF Init, PollPCs
  <2> QED
    BY <2>1, <2>2, <2>3, <2>4 DEF TypeOK
<1>4. GenInv
  BY <1>1, SuiteAssumption
     DEF Init, GenInv, OneGeneration, SuiteLanded, GenerationAnswered, EditOpen
<1>5. Consistent
  BY <1>1, <1>2, NothingContradicts DEF Init, Consistent
<1>6. RunInv
  BY <1>2, SuiteAssumption
     DEF Init, RunInv, LockedRun, HasSuite, Placeholder, DoneIsLast, LiveRunNotReaped, Working,
         Known, At
<1> QED
  BY <1>3, <1>4, <1>5, <1>6 DEF SuiteInv

LEMMA StepKeepsSuiteInv ==
    ASSUME SuiteInv, [Next]_vars
    PROVE  SuiteInv'
<1>1. CASE GenerateNext
  <2>1. CASE Click \/ Refuse
    BY <2>1, ClickKeeps, RefuseKeeps
  <2>2. ASSUME NEW s \in Suites, Reserve(s) \/ GenerateStep(s)
        PROVE  SuiteInv'
    BY <2>2, ReserveKeeps, GenerateLandsKeeps, GenerateFailsKeeps, GenerateEndsKeeps
       DEF GenerateStep
  <2> QED
    BY <1>1, <2>1, <2>2 DEF GenerateNext
<1>2. CASE CuratorNext
  <2>1. ASSUME NEW c \in Curators, EditStep(c)
        PROVE  SuiteInv'
    BY <2>1, ReplaceKeeps, WithdrawKeeps, RemoveKeeps, RemoveRunsKeeps, EditFailsKeeps
       DEF EditStep
  <2>2. ASSUME NEW c \in Curators, NEW s \in Touched, Open(c, s) \/ Delete(c, s)
        PROVE  SuiteInv'
    BY <2>2, OpenKeeps, DeleteKeeps
  <2> QED
    BY <1>2, <2>1, <2>2 DEF CuratorNext
<1>3. CASE RunNext
  <2>1. ASSUME NEW r \in Runs, RunStep(r)
        PROVE  SuiteInv'
    <3>1. CASE CheckLock(r) \/ SavePlaceholder(r) \/ SaveFails(r) \/ PlaceholderUnacked(r)
      BY <3>1, CheckLockKeeps, SavePlaceholderKeeps, SaveFailsKeeps, PlaceholderUnackedKeeps
    <3>2. CASE LoadSuite(r) \/ SaveVerdicts(r) \/ WriteResults(r) \/ ResultsUnacked(r)
      BY <3>2, LoadSuiteKeeps, SaveVerdictsKeeps, WriteResultsKeeps, ResultsUnackedKeeps
    <3>3. CASE StepFails(r) \/ WriteFailure(r) \/ FailureLost(r) \/ EndRun(r)
      BY <3>3, StepFailsKeeps, WriteFailureKeeps, FailureLostKeeps, EndRunKeeps
    <3> QED
      BY <2>1, <3>1, <3>2, <3>3 DEF RunStep
  <2>2. ASSUME NEW r \in Runs, NEW s \in Touched, BeginRun(r, s)
        PROVE  SuiteInv'
    BY <2>2, BeginRunKeeps
  <2> QED
    BY <1>3, <2>1, <2>2 DEF RunNext
<1>4. CASE PollNext
  <2>1. ASSUME NEW r \in Runs, PollRun(r) \/ PollStep(r)
        PROVE  SuiteInv'
    BY <2>1, PollRunKeeps, PollLoadsKeeps, ReapKeeps, PollFailsKeeps DEF PollStep
  <2> QED
    BY <1>4, <2>1 DEF PollNext
<1>5. CASE Crash \/ Sweep \/ SweepFails
  BY <1>5, CrashKeeps, SweepKeeps, SweepFailsKeeps
<1>6. CASE UNCHANGED vars
  <2>1. TypeOK'
    BY <1>6 DEF SuiteInv, TypeOK, vars
  <2>2. GenInv' /\ RunInv' /\ Consistent'
    BY <1>6, GenFrame, RunFrame, CopiesFrame DEF SuiteInv, vars
  <2> QED
    BY <2>1, <2>2 DEF SuiteInv
<1> QED
  BY <1>1, <1>2, <1>3, <1>4, <1>5, <1>6 DEF Next

(* The inductive invariant: one generation at a time, a suite without      *)
(* contradictions, the lock with the worker it belongs to.                 *)
THEOREM SuiteInvariant == Spec => []SuiteInv
<1>1. SuiteInv /\ [Next]_vars => SuiteInv'
  BY StepKeepsSuiteInv
<1> QED
  BY InitSuiteInv, <1>1, PTL DEF Spec

(* A poll of a generated suite always has an answer (getSuite).            *)
THEOREM PollsAreAnswered == Spec => []GenerationAnswered
<1>1. SuiteInv => GenerationAnswered
  BY DEF SuiteInv, GenInv
<1> QED
  BY SuiteInvariant, <1>1, PTL

(* No poll fails a run whose worker lives, or that has results, although   *)
(* its look at the lock, its read and its write are three moments.         *)
THEOREM NoLiveRunReaped == Spec => []LiveRunNotReaped
<1>1. SuiteInv => LiveRunNotReaped
  BY DEF SuiteInv, RunInv
<1> QED
  BY SuiteInvariant, <1>1, PTL

LEMMA StepKeepsResults ==
    ASSUME SuiteInv, [Next]_vars, NEW r \in Runs, run[r] = "done"
    PROVE  run'[r] \in {"done", "gone"} \/ WriteFailure(r)
<1>1. run[r] # "none" /\ Known(r)
  BY DEF SuiteInv, RunInv, Placeholder
<1>2. CASE GenerateNext
  BY <1>2 DEF GenerateNext, Click, Refuse, Reserve, GenerateStep, GenerateLands, GenerateFails,
     GenerateEnds, running
<1>3. CASE CuratorNext
  BY <1>3 DEF CuratorNext, EditStep, Open, Replace, Withdraw, Delete, Remove, RemoveRuns,
     EditFails, running
<1>4. ASSUME NEW q \in Runs, RunStep(q)
      PROVE  run'[r] \in {"done", "gone"} \/ WriteFailure(r)
  <2>1. CASE CheckLock(q) \/ LoadSuite(q) \/ SaveVerdicts(q) \/ SaveFails(q) \/ StepFails(q)
                \/ FailureLost(q) \/ EndRun(q)
    BY <2>1 DEF CheckLock, LoadSuite, SaveVerdicts, SaveFails, StepFails, FailureLost, EndRun
  <2>2. CASE SavePlaceholder(q) \/ PlaceholderUnacked(q)
    BY <1>1, <2>2 DEF SavePlaceholder, PlaceholderUnacked, At, Known, SuiteInv, TypeOK
  <2>3. CASE WriteResults(q) \/ ResultsUnacked(q)
    BY <2>3 DEF WriteResults, ResultsUnacked, SuiteInv, TypeOK
  <2>4. CASE WriteFailure(q)
    BY <2>4 DEF WriteFailure, SuiteInv, TypeOK
  <2> QED
    BY <1>4, <2>1, <2>2, <2>3, <2>4 DEF RunStep
<1>5. CASE \E q \in Runs, s \in Touched : BeginRun(q, s)
  BY <1>5 DEF BeginRun
<1>6. ASSUME NEW q \in Runs, PollRun(q) \/ PollStep(q)
      PROVE  run'[r] = "done"
  <2>1. CASE Reap(q)
    BY <2>1 DEF Reap, SuiteInv, TypeOK, RunInv, LiveRunNotReaped
  <2>2. CASE PollRun(q) \/ PollLoads(q) \/ PollFails(q)
    BY <2>2 DEF PollRun, PollLoads, PollFails
  <2> QED
    BY <1>6, <2>1, <2>2 DEF PollStep
<1>7. CASE Crash \/ Sweep \/ SweepFails
  BY <1>7 DEF Crash, Sweep, SweepFails, Swept
<1>8. CASE UNCHANGED vars
  BY <1>8 DEF vars
<1> QED
  BY <1>2, <1>3, <1>4, <1>5, <1>6, <1>7, <1>8 DEF Next, RunNext, PollNext

(* Results are kept by every poll and by the boot sweep.                   *)
THEOREM ResultsAreKept == Spec => ResultsStay
<1>1. SuiteInv /\ [Next]_vars =>
        [\A r \in Runs : run[r] = "done" => run'[r] \in {"done", "gone"} \/ WriteFailure(r)]_vars
  BY StepKeepsResults
<1> QED
  BY SuiteInvariant, <1>1, PTL DEF Spec, ResultsStay
=============================================================================
