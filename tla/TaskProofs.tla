----------------------------- MODULE TaskProofs -----------------------------
(***************************************************************************)
(* Proofs about the handlers of the background runtime: what it makes of a *)
(* task row, the prepared and the remote downloads, and the encodings of a *)
(* file.                                                                   *)
(***************************************************************************)
EXTENDS Encoding, PreparedDownloads, RemoteDownloads, FiniteSetTheorems, WellFoundedInduction,
        TLAPS

-----------------------------------------------------------------------------
(* A task row: what the runtime makes of it stays a task row, and only a   *)
(* run that is under way can end it.                                       *)
Under == {"running", "cancel_requested"}
TaskStates == TaskOver \cup TaskOpen \cup {"none"}

LEMMA TaskNames ==
    /\ TaskStates = {"succeeded", "failed", "canceled", "queued", "held", "running",
                     "cancel_requested", "none"}
    /\ TaskRows = [st : TaskStates, runs : 0..TaskRuns, commit : BOOLEAN]
    /\ NoTaskRow \in TaskRows /\ NewTaskRow \in TaskRows
    /\ NewTaskRow.st = "queued" /\ NoTaskRow.st = "none"
    /\ ~NewTaskRow.commit /\ ~NoTaskRow.commit
  BY TaskRunsAssumption DEF TaskStates, TaskOver, TaskOpen, TaskRows, NoTaskRow, NewTaskRow

LEMMA RowChange ==
    ASSUME NEW t \in TaskRows, NEW s \in TaskStates
    PROVE  /\ [t EXCEPT !.st = s] \in TaskRows
           /\ [t EXCEPT !.st = s].st = s
           /\ [t EXCEPT !.st = s].commit = t.commit
  BY TaskNames

LEMMA TaskClaimed ==
    ASSUME NEW t \in TaskRows, Claimable(t)
    PROVE  Claimed(t) \in TaskRows /\ Claimed(t).st = "running" /\ ~Claimed(t).commit
           /\ t.st = "queued"
  BY TaskNames, TaskRunsAssumption DEF Claimable, Claimed

LEMMA TaskFinished ==
    ASSUME NEW t \in TaskRows, NEW how
    PROVE  /\ FinishedRow(t, how) \in TaskRows
           /\ t.st \notin Under => FinishedRow(t, how).st = t.st
           /\ t.st \in Under /\ how # "ok" => FinishedRow(t, how).st # "succeeded"
           /\ t.st \in Under => FinishedRow(t, how).st \notin Under \cup {"none"}
           /\ FinishedRow(t, how).commit = t.commit
<1> DEFINE s == IF t.st \notin {"running", "cancel_requested"} THEN t.st
                ELSE CASE how = "ok" ->
                              IF t.st = "cancel_requested" /\ ~ t.commit THEN "canceled" ELSE "succeeded"
                       [] how = "canceled" -> "canceled"
                       [] how = "interrupted" /\ t.runs < TaskRuns -> "queued"
                       [] how = "transient" /\ t.runs < TaskRuns ->
                              IF t.st = "cancel_requested" THEN "held" ELSE "queued"
                       [] OTHER -> "failed"
<1>1. FinishedRow(t, how) = [t EXCEPT !.st = s]
  BY DEF FinishedRow
<1>2. t.st \notin Under => s = t.st
  BY DEF Under
<1>3. t.st \in Under => s \in {"canceled", "succeeded", "queued", "held", "failed"}
  BY DEF Under
<1>4. t.st \in Under /\ how # "ok" => s # "succeeded"
  BY DEF Under
<1>5. s \in TaskStates
  BY <1>2, <1>3, TaskNames
<1> HIDE DEF s
<1> QED
  BY <1>1, <1>2, <1>3, <1>4, <1>5, RowChange DEF Under

LEMMA TaskCanceled ==
    ASSUME NEW t \in TaskRows
    PROVE  /\ CanceledRow(t) \in TaskRows /\ CanceledRow(t).commit = t.commit
           /\ t.st \in Under <=> CanceledRow(t).st \in Under
           /\ CanceledRow(t).st = "succeeded" <=> t.st = "succeeded"
           /\ CanceledRow(t).st = "none" <=> t.st = "none"
           /\ t.st # "running" => CanceledRow(t).st # "running"
           /\ CanceledRow(t).st \notin {"queued", "running"}
<1> DEFINE s == CASE t.st \in {"queued", "held"} -> "canceled"
                  [] t.st = "running" -> "cancel_requested"
                  [] OTHER -> t.st
<1>1. CanceledRow(t) = [t EXCEPT !.st = s]
  BY DEF CanceledRow
<1>2. s \in TaskStates /\ (t.st \in Under <=> s \in Under) /\ (s = "succeeded" <=> t.st = "succeeded")
      /\ (s = "none" <=> t.st = "none") /\ s \notin {"queued", "running"}
  BY TaskNames DEF Under
<1> HIDE DEF s
<1> QED
  BY <1>1, <1>2, RowChange

LEMMA TaskRetried ==
    ASSUME NEW t \in TaskRows
    PROVE  /\ RetriedRow(t) \in TaskRows
           /\ \/ RetriedRow(t) = t /\ t.st \notin {"failed", "canceled"}
              \/ RetriedRow(t).st = "queued" /\ ~RetriedRow(t).commit /\ t.st \in {"failed", "canceled"}
  BY TaskNames DEF RetriedRow

LEMMA TaskRecovered ==
    ASSUME NEW t \in TaskRows
    PROVE  /\ RecoveredRow(t) \in TaskRows /\ RecoveredRow(t).commit = t.commit
           /\ RecoveredRow(t).st \notin Under
           /\ t.st \notin Under => RecoveredRow(t).st = t.st
           /\ RecoveredRow(t).st = "succeeded" <=> t.st = "succeeded"
           /\ RecoveredRow(t).st = "none" <=> t.st = "none"
<1> DEFINE s == IF Committing(t) THEN "failed"
                ELSE CASE t.st = "cancel_requested" -> "canceled"
                       [] t.st = "running" -> IF t.runs < TaskRuns THEN "queued" ELSE "failed"
                       [] OTHER -> t.st
<1>1. RecoveredRow(t) = [t EXCEPT !.st = s]
  BY DEF RecoveredRow
<1>2. /\ s \in TaskStates /\ s \notin Under /\ (t.st \notin Under => s = t.st)
      /\ (s = "succeeded" <=> t.st = "succeeded") /\ (s = "none" <=> t.st = "none")
  BY TaskNames DEF Under, Committing
<1> HIDE DEF s
<1> QED
  BY <1>1, <1>2, RowChange

-----------------------------------------------------------------------------
(* The largest of finitely many numbers, by the least size of a set of     *)
(* numbers that has none.                                                  *)
LEMMA LeastOf ==
    ASSUME NEW R, IsWellFoundedOn(R, Nat), \A x, y \in Nat : x < y => <<x, y>> \in R,
           NEW T, T \subseteq Nat, T # {}
    PROVE  \E n \in T : \A m \in T : n <= m
<1>1. \E n \in T : \A m \in T : ~(<<m, n>> \in R)
  BY WFMin, ZenonT(120)
<1>2. PICK n \in T : \A m \in T : ~(<<m, n>> \in R)
  BY <1>1
<1>3. ASSUME NEW m \in T PROVE n <= m
  <2>1. n \in Nat /\ m \in Nat /\ ~(m < n)
    BY <1>2
  <2> QED
    BY <2>1
<1> QED
  BY <1>3

LEMMA LeastNumber ==
    ASSUME NEW T, T \subseteq Nat, T # {}
    PROVE  \E n \in T : \A m \in T : n <= m
<1> DEFINE R == OpToRel(<, Nat)
<1>1. IsWellFoundedOn(R, Nat)
  BY NatLessThanWellFounded, Zenon
<1>2. \A x, y \in Nat : x < y => <<x, y>> \in R
  BY DEF OpToRel
<1> HIDE DEF R
<1> QED
  BY <1>1, <1>2, LeastOf

-----------------------------------------------------------------------------
(* The preparations.  What their rows are made of, and what one row keeps   *)
(* while sw are the rows a sweep has listed.                                *)
PrepRow == [st : {"queued", "preparing", "ready", "failed", "canceled", "expired", "none", "purged"},
            linked : BOOLEAN, out : BOOLEAN, aged : BOOLEAN, task : TaskRows,
            pc : {"idle", "start", "process", "assemble", "publish", "after"},
            ctx : {"live", "canceled", "interrupted"}, had : BOOLEAN,
            err : {"ok", "transient", "permanent"},
            file : BOOLEAN, old : BOOLEAN, pulled : BOOLEAN]

PrepKeeps(r, listed) ==
    /\ r.pc \in {"process", "assemble", "publish"} => r.st # "ready"
    /\ r.pc = "publish" => ~ r.old
    /\ r.pc = "publish" /\ r.st = "preparing" /\ ~ r.pulled => r.file
    /\ r.st = "ready" => r.out
    /\ r.st = "ready" /\ ~ r.aged /\ ~ r.pulled => r.file /\ (listed => ~ r.old)

PrepInv ==
    /\ prep \in [Preps -> PrepRow]
    /\ \A i \in Preps : PrepKeeps(prep[i], i \in sweep)

LEMMA OneRow ==
    ASSUME PrepInv, NEW i \in Preps, NEW r \in PrepRow, PrepKeeps(r, i \in sweep),
           prep' = [prep EXCEPT ![i] = r], sweep' = sweep
    PROVE  PrepInv'
  BY DEF PrepInv, PrepKeeps

(* A new task row changes nothing that a row keeps.                         *)
LEMMA TaskOfRow ==
    ASSUME NEW r \in PrepRow, NEW listed \in BOOLEAN, PrepKeeps(r, listed), NEW t \in TaskRows
    PROVE  [r EXCEPT !.task = t] \in PrepRow /\ PrepKeeps([r EXCEPT !.task = t], listed)
  BY DEF PrepRow, PrepKeeps

LEMMA RowReturns ==
    ASSUME NEW r \in PrepRow, NEW listed \in BOOLEAN, PrepKeeps(r, listed), NEW how
    PROVE  PrepareReturns(r, how) \in PrepRow /\ PrepKeeps(PrepareReturns(r, how), listed)
<1> DEFINE t == FinishedRow(r.task, how)
<1>1. t \in TaskRows
  BY TaskFinished DEF PrepRow
<1>2. PrepareReturns(r, how) = [r EXCEPT !.task = t, !.pc = "idle", !.ctx = "live", !.had = FALSE, !.err = "ok"]
  BY DEF PrepareReturns
<1> HIDE DEF t
<1>3. /\ PrepareReturns(r, how) \in PrepRow /\ PrepareReturns(r, how).st = r.st
      /\ PrepareReturns(r, how).pc = "idle" /\ PrepareReturns(r, how).out = r.out
      /\ PrepareReturns(r, how).aged = r.aged /\ PrepareReturns(r, how).file = r.file
      /\ PrepareReturns(r, how).old = r.old /\ PrepareReturns(r, how).pulled = r.pulled
  BY <1>1, <1>2 DEF PrepRow
<1> QED
  BY <1>3 DEF PrepKeeps

LEMMA RowStopped ==
    ASSUME NEW r \in PrepRow, NEW listed \in BOOLEAN, PrepKeeps(r, listed), NEW how \in {"canceled", "interrupted"}
    PROVE  /\ StoppedTask(r, how) \in PrepRow /\ PrepKeeps(StoppedTask(r, how), listed)
           /\ StoppedPrep(r, how) \in PrepRow /\ PrepKeeps(StoppedPrep(r, how), listed)
<1>1. [r EXCEPT !.ctx = how] \in PrepRow /\ PrepKeeps([r EXCEPT !.ctx = how], listed)
  BY DEF PrepRow, PrepKeeps
<1> QED
  BY <1>1 DEF StoppedTask, StoppedPrep

LEMMA RowCanceled ==
    ASSUME NEW r \in PrepRow, NEW listed \in BOOLEAN, PrepKeeps(r, listed), NEW had \in BOOLEAN
    PROVE  /\ CancelDownloadJob(r, had) \in PrepRow /\ PrepKeeps(CancelDownloadJob(r, had), listed)
           /\ CancelDownloadJob(r, had).st # "ready" /\ CancelDownloadJob(r, had).pc = r.pc
<1> DEFINE f == r.file /\ ~ had
<1>0. f \in BOOLEAN
  OBVIOUS
<1>1. CASE r.st \in ActivePreparation
  <2>1. CancelDownloadJob(r, had) = [r EXCEPT !.st = "canceled", !.out = FALSE, !.file = f]
    BY <1>1 DEF CancelDownloadJob
  <2> HIDE DEF f
  <2>2. /\ CancelDownloadJob(r, had) \in PrepRow /\ CancelDownloadJob(r, had).st = "canceled"
        /\ CancelDownloadJob(r, had).pc = r.pc /\ CancelDownloadJob(r, had).old = r.old
    BY <1>0, <2>1 DEF PrepRow
  <2> QED
    BY <2>2 DEF PrepKeeps
<1>2. CASE r.st \notin ActivePreparation
  <2>1. CancelDownloadJob(r, had) = [r EXCEPT !.file = f]
    BY <1>2 DEF CancelDownloadJob
  <2>0. r.st \notin {"ready", "preparing"}
    BY <1>2 DEF ActivePreparation
  <2> HIDE DEF f
  <2>2. /\ CancelDownloadJob(r, had) \in PrepRow /\ CancelDownloadJob(r, had).st = r.st
        /\ CancelDownloadJob(r, had).pc = r.pc /\ CancelDownloadJob(r, had).old = r.old
    BY <1>0, <2>1 DEF PrepRow
  <2> QED
    BY <2>0, <2>2 DEF PrepKeeps
<1> QED
  BY <1>1, <1>2

LEMMA RowFailed ==
    ASSUME NEW r \in PrepRow, NEW listed \in BOOLEAN, PrepKeeps(r, listed), r.st # "ready",
           NEW err \in {"transient", "permanent"}
    PROVE  FailDownloadJob(r, err) \in PrepRow /\ PrepKeeps(FailDownloadJob(r, err), listed)
<1> DEFINE s == IF r.st = "preparing" THEN "failed" ELSE r.st
<1>1. FailDownloadJob(r, err) = [r EXCEPT !.st = s, !.err = err, !.pc = "after"]
  BY DEF FailDownloadJob
<1>2. s \in {"queued", "ready", "failed", "canceled", "expired", "none", "purged"} /\ s # "ready"
  BY DEF PrepRow
<1> HIDE DEF s
<1>3. FailDownloadJob(r, err) \in PrepRow /\ FailDownloadJob(r, err).st = s /\ FailDownloadJob(r, err).pc = "after"
  BY <1>1, <1>2 DEF PrepRow
<1> QED
  BY <1>2, <1>3 DEF PrepKeeps

(* The handler, step by step.                                               *)
LEMMA HandlerKeeps ==
    ASSUME PrepInv, NEW i \in Preps,
           \/ PrepareClaimed(i) \/ PrepareStarts(i) \/ ProcessPreparation(i) \/ Assemble(i)
           \/ PublishPreparation(i) \/ PreparationReturns(i)
    PROVE  PrepInv'
<1> DEFINE r == prep[i]
           l == i \in sweep
<1>0. r \in PrepRow /\ l \in BOOLEAN /\ PrepKeeps(r, l) /\ r.task \in TaskRows /\ r.had \in BOOLEAN
  BY DEF PrepInv, PrepRow
<1>1. ASSUME NEW q \in PrepRow, PrepKeeps(q, l), OnlyPrep(i, q) PROVE PrepInv'
  BY <1>1, OneRow DEF OnlyPrep
<1> HIDE DEF l
<1>2. CASE PrepareClaimed(i)
  <2> DEFINE t == Claimed(r.task)
             q == [r EXCEPT !.task = t, !.pc = "start"]
  <2>1. t \in TaskRows /\ OnlyPrep(i, q)
    BY <1>0, <1>2, TaskClaimed DEF PrepareClaimed
  <2> HIDE DEF t
  <2>2. q \in PrepRow /\ PrepKeeps(q, l)
    <3> HIDE DEF r
    <3> QED
      BY <1>0, <2>1 DEF PrepRow, PrepKeeps
  <2> HIDE DEF q
  <2> QED
    BY <1>1, <2>1, <2>2
<1>3. CASE PrepareStarts(i)
  <2> DEFINE h == r.had \/ r.out
             q == [r EXCEPT !.st = "preparing", !.linked = TRUE, !.pc = "process", !.had = h]
  <2>1. \/ \E how \in {"canceled", "permanent", "ok", "transient"} : OnlyPrep(i, PrepareReturns(prep[i], how))
        \/ OnlyPrep(i, q)
    BY <1>3, Zenon DEF PrepareStarts
  <2>2. h \in BOOLEAN
    OBVIOUS
  <2> HIDE DEF h
  <2>3. q \in PrepRow /\ PrepKeeps(q, l)
    <3> HIDE DEF r
    <3>1. q \in PrepRow /\ q.st = "preparing" /\ q.pc = "process"
      BY <1>0, <2>2 DEF PrepRow
    <3> QED
      BY <3>1 DEF PrepKeeps
  <2> HIDE DEF q
  <2>4. ASSUME NEW how \in {"canceled", "permanent", "ok", "transient"}, OnlyPrep(i, PrepareReturns(prep[i], how))
        PROVE  PrepInv'
    BY <1>0, <1>1, <2>4, RowReturns
  <2> QED
    BY <1>1, <2>1, <2>3, <2>4
<1>4. CASE ProcessPreparation(i)
  <2>0. r.pc = "process" /\ r.st # "ready"
    BY <1>0, <1>4 DEF ProcessPreparation, Preparing, PrepKeeps
  <2> DEFINE c == CancelDownloadJob(r, r.had)
             q1 == [c EXCEPT !.pc = "after"]
             q2 == [r EXCEPT !.file = FALSE, !.pc = "assemble"]
  <2>1. OnlyPrep(i, q1) \/ OnlyPrep(i, FailDownloadJob(r, "permanent")) \/ OnlyPrep(i, q2)
    BY <1>4 DEF ProcessPreparation
  <2>2. c \in PrepRow /\ PrepKeeps(c, l) /\ c.st # "ready"
    BY <1>0, RowCanceled
  <2>3. q2 \in PrepRow /\ PrepKeeps(q2, l)
    <3> HIDE DEF r
    <3> QED
      BY <1>0, <2>0 DEF PrepRow, PrepKeeps
  <2> HIDE DEF c, q2
  <2>4. q1 \in PrepRow /\ PrepKeeps(q1, l)
    BY <2>2 DEF PrepRow, PrepKeeps
  <2> HIDE DEF q1
  <2>5. FailDownloadJob(r, "permanent") \in PrepRow /\ PrepKeeps(FailDownloadJob(r, "permanent"), l)
    BY <1>0, <2>0, RowFailed
  <2> HIDE DEF r
  <2> QED
    BY <1>1, <2>1, <2>3, <2>4, <2>5
<1>5. CASE Assemble(i)
  <2>0. r.pc = "assemble" /\ r.st # "ready"
    BY <1>0, <1>5 DEF Assemble, Preparing, PrepKeeps
  <2> DEFINE q1 == [r EXCEPT !.pc = "after"]
             q2 == [r EXCEPT !.file = TRUE, !.old = FALSE, !.pulled = FALSE, !.pc = "publish"]
  <2>1. OnlyPrep(i, q1) \/ OnlyPrep(i, q2) \/ \E err \in {"transient", "permanent"} : OnlyPrep(i, FailDownloadJob(r, err))
    BY <1>5 DEF Assemble
  <2>2. q1 \in PrepRow /\ PrepKeeps(q1, l) /\ q2 \in PrepRow /\ PrepKeeps(q2, l)
    <3> HIDE DEF r
    <3> QED
      BY <1>0, <2>0 DEF PrepRow, PrepKeeps
  <2>3. ASSUME NEW err \in {"transient", "permanent"}, OnlyPrep(i, FailDownloadJob(r, err)) PROVE PrepInv'
    BY <1>0, <1>1, <2>0, <2>3, RowFailed
  <2> HIDE DEF q1, q2
  <2> QED
    BY <1>1, <2>1, <2>2, <2>3
<1>6. CASE PublishPreparation(i)
  <2>0. r.pc = "publish" /\ r.st # "ready" /\ ~ r.old /\ (r.st = "preparing" /\ ~ r.pulled => r.file)
    BY <1>0, <1>6 DEF PublishPreparation, Preparing, PrepKeeps
  <2> DEFINE q1 == [r EXCEPT !.st = "ready", !.out = TRUE, !.aged = FALSE, !.pc = "after"]
             q2 == [r EXCEPT !.file = FALSE, !.pc = "after"]
  <2>1. (r.st = "preparing" /\ OnlyPrep(i, q1)) \/ OnlyPrep(i, q2)
    BY <1>6 DEF PublishPreparation
  <2>2. q2 \in PrepRow /\ PrepKeeps(q2, l)
    <3> HIDE DEF r
    <3> QED
      BY <1>0, <2>0 DEF PrepRow, PrepKeeps
  <2>3. r.st = "preparing" => q1 \in PrepRow /\ PrepKeeps(q1, l)
    <3> HIDE DEF r
    <3> QED
      BY <1>0, <2>0 DEF PrepRow, PrepKeeps
  <2> HIDE DEF q1, q2
  <2> QED
    BY <1>1, <2>1, <2>2, <2>3
<1>7. CASE PreparationReturns(i)
  <2> DEFINE c == CancelDownloadJob(r, r.had)
             how == CASE r.st = "ready" -> "ok" [] r.st = "canceled" -> "canceled"
                      [] r.st = "purged" -> "transient" [] OTHER -> r.err
  <2>1. OnlyPrep(i, PrepareReturns(c, r.ctx)) \/ OnlyPrep(i, PrepareReturns(r, how))
    BY <1>7, Zenon DEF PreparationReturns
  <2>2. c \in PrepRow /\ PrepKeeps(c, l)
    BY <1>0, RowCanceled
  <2> HIDE DEF how, c
  <2>3. /\ PrepareReturns(c, r.ctx) \in PrepRow /\ PrepKeeps(PrepareReturns(c, r.ctx), l)
        /\ PrepareReturns(r, how) \in PrepRow /\ PrepKeeps(PrepareReturns(r, how), l)
    BY <1>0, <2>2, RowReturns
  <2> HIDE DEF r
  <2> QED
    BY <1>1, <2>1, <2>3
<1> QED
  BY <1>2, <1>3, <1>4, <1>5, <1>6, <1>7
(* The other actions.  Each replaces some rows by what the helpers make of  *)
(* them, so every row is again of the kind it was.                          *)
ReaperRow == [pc : {"idle", "remove", "record", "cancel"}, row : 0..MaxPreparations, out : BOOLEAN]
PreparedInv == PrepInv /\ reaper \in ReaperRow

LEMMA RowAt ==
    ASSUME PrepInv, NEW k, NEW q, prep' = [prep EXCEPT ![k] = q], sweep' = sweep,
           k \in Preps => q \in PrepRow /\ PrepKeeps(q, k \in sweep)
    PROVE  PrepInv'
<1>1. CASE k \in Preps
  BY <1>1, OneRow
<1>2. CASE k \notin Preps
  <2>1. prep' = prep
    BY <1>2 DEF PrepInv
  <2> QED
    BY <2>1 DEF PrepInv
<1> QED
  BY <1>1, <1>2

LEMMA RowKept ==
    ASSUME PrepInv, NEW i \in Preps
    PROVE  prep[i] \in PrepRow /\ PrepKeeps(prep[i], i \in sweep)
  BY DEF PrepInv

LEMMA RequestsKeep ==
    ASSUME PrepInv, CreateDownloadJob \/ PrepareEnqueue \/ PrepareLink
    PROVE  PrepInv'
<1>1. CASE CreateDownloadJob
  <2>1. \/ prep' = prep
        \/ \E i \in Preps : prep[i].st = "none" /\ prep' = [prep EXCEPT ![i].st = "queued"]
    BY <1>1 DEF CreateDownloadJob
  <2>0. sweep' = sweep
    BY <1>1 DEF CreateDownloadJob
  <2>2. CASE prep' = prep
    BY <2>0, <2>2 DEF PrepInv
  <2>3. ASSUME NEW i \in Preps, prep[i].st = "none", prep' = [prep EXCEPT ![i].st = "queued"]
        PROVE  PrepInv'
    <3> DEFINE r == prep[i]
               l == i \in sweep
    <3>1. r \in PrepRow /\ PrepKeeps(r, l) /\ l \in BOOLEAN /\ r.st = "none"
      BY <2>3, RowKept
    <3>2. prep' = [prep EXCEPT ![i] = [r EXCEPT !.st = "queued"]]
      BY <2>3
    <3> HIDE DEF r, l
    <3>3. [r EXCEPT !.st = "queued"] \in PrepRow /\ PrepKeeps([r EXCEPT !.st = "queued"], l)
      BY <3>1 DEF PrepRow, PrepKeeps
    <3> QED
      BY <2>0, <3>2, <3>3, RowAt DEF l
  <2> QED
    BY <2>1, <2>2, <2>3
<1>2. CASE PrepareEnqueue
  <2> DEFINE k == asks.row
             t == IF prep[k].task.st = "none" THEN NewTaskRow ELSE prep[k].task
             q == [prep[k] EXCEPT !.task = t]
  <2>1. prep' = [prep EXCEPT ![k] = q] /\ sweep' = sweep
    BY <1>2 DEF PrepareEnqueue
  <2>2. ASSUME k \in Preps PROVE q \in PrepRow /\ PrepKeeps(q, k \in sweep)
    <3>1. prep[k] \in PrepRow /\ PrepKeeps(prep[k], k \in sweep)
      BY <2>2, RowKept
    <3>2. t \in TaskRows
      BY <3>1, TaskRunsAssumption DEF PrepRow, TaskRows, NewTaskRow, TaskOpen
    <3>3. (k \in sweep) \in BOOLEAN
      OBVIOUS
    <3> HIDE DEF t, k
    <3>4. q \in PrepRow
      BY <3>1, <3>2, <3>3, TaskOfRow
    <3> QED
      BY <3>1, <3>2, <3>3, <3>4, TaskOfRow
  <2> HIDE DEF q, k
  <2> QED
    BY <2>1, <2>2, RowAt
<1>3. CASE PrepareLink
  <2> DEFINE k == asks.row
             q == [prep[k] EXCEPT !.linked = TRUE]
  <2>1. prep' = [prep EXCEPT ![k] = q] /\ sweep' = sweep
    BY <1>3 DEF PrepareLink
  <2>2. ASSUME k \in Preps PROVE q \in PrepRow /\ PrepKeeps(q, k \in sweep)
    <3>1. prep[k] \in PrepRow /\ PrepKeeps(prep[k], k \in sweep)
      BY <2>2, RowKept
    <3> HIDE DEF k
    <3> QED
      BY <3>1 DEF PrepRow, PrepKeeps
  <2> HIDE DEF q, k
  <2> QED
    BY <2>1, <2>2, RowAt
<1> QED
  BY <1>1, <1>2, <1>3

LEMMA AgesKeep ==
    ASSUME PrepInv, NEW i \in Preps, Ages(i) \/ FileAges(i) \/ Purge(i)
    PROVE  PrepInv'
<1> DEFINE r == prep[i]
           l == i \in sweep
<1>1. r \in PrepRow /\ PrepKeeps(r, l) /\ l \in BOOLEAN
  BY RowKept
<1>2. \/ r.st = "ready" /\ OnlyPrep(i, [r EXCEPT !.aged = TRUE, !.old = TRUE])
      \/ ~ l /\ r.pc # "publish" /\ OnlyPrep(i, [r EXCEPT !.old = TRUE])
      \/ OnlyPrep(i, [r EXCEPT !.st = "purged"])
  BY DEF Ages, FileAges, Purge, Preparing
<1>3. \E q \in PrepRow : PrepKeeps(q, l) /\ OnlyPrep(i, q)
  <2> HIDE DEF r, l
  <2>1. r.st = "ready" => [r EXCEPT !.aged = TRUE, !.old = TRUE] \in PrepRow
                       /\ PrepKeeps([r EXCEPT !.aged = TRUE, !.old = TRUE], l)
    BY <1>1 DEF PrepRow, PrepKeeps
  <2>2. ~ l /\ r.pc # "publish" => [r EXCEPT !.old = TRUE] \in PrepRow /\ PrepKeeps([r EXCEPT !.old = TRUE], l)
    BY <1>1 DEF PrepRow, PrepKeeps
  <2>3. [r EXCEPT !.st = "purged"] \in PrepRow /\ PrepKeeps([r EXCEPT !.st = "purged"], l)
    BY <1>1 DEF PrepRow, PrepKeeps
  <2> DEFINE q1 == [r EXCEPT !.aged = TRUE, !.old = TRUE]
             q2 == [r EXCEPT !.old = TRUE]
             q3 == [r EXCEPT !.st = "purged"]
  <2> HIDE DEF q1, q2, q3
  <2> QED
    BY <1>2, <2>1, <2>2, <2>3 DEF q1, q2, q3
<1> QED
  BY <1>3, OneRow DEF OnlyPrep

LEMMA ReaperKeeps ==
    ASSUME PreparedInv, RemoveExpired \/ RecordExpired \/ CancelInvalid
    PROVE  PrepInv'
<1> DEFINE k == reaper.row
           r == prep[k]
<1>0. /\ k \in Preps => r \in PrepRow /\ PrepKeeps(r, k \in sweep)
      /\ reaper.out \in BOOLEAN /\ (k \in sweep) \in BOOLEAN /\ PrepInv /\ sweep' = sweep
  BY RowKept DEF PreparedInv, ReaperRow, RemoveExpired, RecordExpired, CancelInvalid
<1>1. CASE RemoveExpired
  <2> DEFINE q == [r EXCEPT !.file = FALSE, !.pulled = TRUE]
  <2>1. prep' = [prep EXCEPT ![k] = q]
    <3>1. prep' = [prep EXCEPT ![k].file = FALSE, ![k].pulled = TRUE]
      BY <1>1 DEF RemoveExpired
    <3> HIDE DEF k
    <3> QED
      BY <1>0, <3>1 DEF PrepInv
  <2>2. k \in Preps => q \in PrepRow /\ PrepKeeps(q, k \in sweep)
    <3> HIDE DEF r, k
    <3> QED
      BY <1>0 DEF PrepRow, PrepKeeps
  <2> HIDE DEF q, k
  <2> QED
    BY <1>0, <2>1, <2>2, RowAt
<1>2. CASE RecordExpired
  <2> DEFINE s == IF r.st = "purged" THEN r.st ELSE "expired"
             q == [r EXCEPT !.st = s, !.out = FALSE]
  <2>1. prep' = [prep EXCEPT ![k] = q]
    <3>1. prep' = [prep EXCEPT ![k].st = s, ![k].out = FALSE]
      BY <1>2 DEF RecordExpired
    <3> HIDE DEF k
    <3> QED
      BY <1>0, <3>1 DEF PrepInv
  <2>2. k \in Preps => q \in PrepRow /\ PrepKeeps(q, k \in sweep)
    <3>1. s \in {"purged", "expired"}
      OBVIOUS
    <3> HIDE DEF r, k, s
    <3> QED
      BY <1>0, <3>1 DEF PrepRow, PrepKeeps
  <2> HIDE DEF q, k
  <2> QED
    BY <1>0, <2>1, <2>2, RowAt
<1>3. CASE CancelInvalid
  <2> DEFINE p == StoppedPrep(r, "canceled")
             q == CancelDownloadJob(p, reaper.out)
  <2>1. prep' = [prep EXCEPT ![k] = q]
    BY <1>3 DEF CancelInvalid
  <2>2. k \in Preps => q \in PrepRow /\ PrepKeeps(q, k \in sweep)
    <3> HIDE DEF r, k
    <3>1. k \in Preps => p \in PrepRow /\ PrepKeeps(p, k \in sweep)
      BY <1>0, RowStopped
    <3> HIDE DEF p
    <3> QED
      BY <1>0, <3>1, RowCanceled
  <2> HIDE DEF q, k
  <2> QED
    BY <1>0, <2>1, <2>2, RowAt
<1> QED
  BY <1>1, <1>2, <1>3

LEMMA SweepKeeps ==
    ASSUME PrepInv, SweepReads \/ \E i \in Preps : SweepRemoves(i)
    PROVE  PrepInv'
<1>1. CASE SweepReads
  BY <1>1 DEF PrepInv, PrepKeeps, SweepReads, ReferencedFiles
<1>2. ASSUME NEW i \in Preps, SweepRemoves(i) PROVE PrepInv'
  <2> DEFINE f == prep[i].file /\ ~ prep[i].old
             q == [prep[i] EXCEPT !.file = f]
  <2>1. prep' = [prep EXCEPT ![i] = q] /\ sweep' = sweep \ {i} /\ i \in sweep
    BY <1>2 DEF SweepRemoves
  <2>2. f \in BOOLEAN /\ prep[i] \in PrepRow /\ PrepKeeps(prep[i], TRUE)
    BY <2>1, RowKept
  <2>3. f = (prep[i].file /\ ~ prep[i].old)
    OBVIOUS
  <2> HIDE DEF f
  <2>4. q \in PrepRow /\ PrepKeeps(q, FALSE)
    BY <2>2, <2>3 DEF PrepRow, PrepKeeps
  <2> HIDE DEF q
  <2>5. \A j \in Preps : prep'[j] \in PrepRow /\ PrepKeeps(prep'[j], j \in sweep')
    <3> TAKE j \in Preps
    <3>1. CASE j = i
      BY <2>1, <2>4, <3>1 DEF PrepInv, PrepKeeps
    <3>2. CASE j # i
      BY <2>1, <3>2 DEF PrepInv
    <3> QED
      BY <3>1, <3>2
  <2> QED
    BY <2>1, <2>5 DEF PrepInv
<1> QED
  BY <1>1, <1>2

LEMMA JobsKeep ==
    ASSUME PrepInv, \/ \E i \in Preps : CancelPreparation(i) \/ RetryPreparation(i)
                    \/ DisableDownloads \/ PreparerStops \/ PreparerCrash
    PROVE  PrepInv'
<1>0. ASSUME NEW i \in Preps
      PROVE  /\ prep[i] \in PrepRow /\ PrepKeeps(prep[i], i \in sweep) /\ (i \in sweep) \in BOOLEAN
             /\ prep[i].task \in TaskRows
  BY <1>0, RowKept DEF PrepRow
<1>1. ASSUME NEW i \in Preps PROVE CanceledPrep(prep[i]) \in PrepRow /\ PrepKeeps(CanceledPrep(prep[i]), i \in sweep)
  <2> DEFINE l == i \in sweep
             s == StoppedTask(prep[i], "canceled")
             t == CanceledRow(s.task)
  <2>1. s \in PrepRow /\ PrepKeeps(s, l) /\ l \in BOOLEAN
    BY <1>0, RowStopped
  <2>2. CanceledPrep(prep[i]) = [s EXCEPT !.task = t]
    BY DEF CanceledPrep
  <2> HIDE DEF s, l
  <2>3. t \in TaskRows
    BY <2>1, TaskCanceled DEF PrepRow
  <2> HIDE DEF t
  <2>4. [s EXCEPT !.task = t] \in PrepRow /\ PrepKeeps([s EXCEPT !.task = t], l)
    BY <2>1, <2>3, TaskOfRow
  <2> QED
    BY <2>2, <2>4 DEF l
<1>2. ASSUME NEW i \in Preps, CancelPreparation(i) PROVE PrepInv'
  BY <1>1, <1>2, OneRow DEF CancelPreparation, OnlyPrep
<1>3. ASSUME NEW i \in Preps, RetryPreparation(i) PROVE PrepInv'
  <2> DEFINE t == RetriedRow(prep[i].task)
             q == [prep[i] EXCEPT !.task = t]
             l == i \in sweep
  <2>1. t \in TaskRows
    BY <1>0, TaskRetried
  <2>2. OnlyPrep(i, q)
    BY <1>3 DEF RetryPreparation
  <2>4. prep[i] \in PrepRow /\ PrepKeeps(prep[i], l) /\ l \in BOOLEAN
    BY <1>0
  <2> HIDE DEF t, l
  <2>3. q \in PrepRow /\ PrepKeeps(q, l)
    BY <2>1, <2>4, TaskOfRow
  <2> QED
    BY <2>2, <2>3, OneRow DEF OnlyPrep, l
<1>4. CASE DisableDownloads
  <2>1. /\ prep' = [i \in Preps |-> IF prep[i].task.st \in TaskOpen THEN CanceledPrep(prep[i]) ELSE prep[i]]
        /\ sweep' = sweep
    BY <1>4 DEF DisableDownloads
  <2>2. \A i \in Preps : prep'[i] = CanceledPrep(prep[i]) \/ prep'[i] = prep[i]
    BY <2>1
  <2>3. ASSUME NEW i \in Preps PROVE prep'[i] \in PrepRow /\ PrepKeeps(prep'[i], i \in sweep')
    BY <1>0, <1>1, <2>1, <2>2
  <2> QED
    BY <2>1, <2>3 DEF PrepInv
<1>5. CASE PreparerStops
  <2>1. prep' = [i \in Preps |-> StoppedTask(prep[i], "interrupted")] /\ sweep' = sweep
    BY <1>5 DEF PreparerStops
  <2>2. ASSUME NEW i \in Preps PROVE prep'[i] \in PrepRow /\ PrepKeeps(prep'[i], i \in sweep')
    <3> DEFINE l == i \in sweep
    <3>1. prep[i] \in PrepRow /\ PrepKeeps(prep[i], l) /\ l \in BOOLEAN
      BY <1>0
    <3> HIDE DEF l
    <3>2. StoppedTask(prep[i], "interrupted") \in PrepRow /\ PrepKeeps(StoppedTask(prep[i], "interrupted"), l)
      BY <3>1, RowStopped
    <3> QED
      BY <2>1, <3>2 DEF l
  <2> QED
    BY <2>1, <2>2 DEF PrepInv
<1>6. CASE PreparerCrash
  <2> DEFINE q(i) == [prep[i] EXCEPT !.task = RecoveredRow(prep[i].task), !.pc = "idle",
                                     !.ctx = "live", !.had = FALSE, !.err = "ok"]
  <2>1. prep' = [i \in Preps |-> q(i)] /\ sweep' = {}
    BY <1>6 DEF PreparerCrash
  <2>2. ASSUME NEW i \in Preps PROVE q(i) \in PrepRow /\ PrepKeeps(q(i), FALSE)
    <3> DEFINE t == RecoveredRow(prep[i].task)
               l == i \in sweep
    <3>1. t \in TaskRows
      BY <1>0, TaskRecovered
    <3>2. prep[i] \in PrepRow /\ PrepKeeps(prep[i], l) /\ l \in BOOLEAN
      BY <1>0
    <3> HIDE DEF t, l
    <3>3. /\ q(i) \in PrepRow /\ q(i).pc = "idle" /\ q(i).st = prep[i].st /\ q(i).out = prep[i].out
          /\ q(i).aged = prep[i].aged /\ q(i).file = prep[i].file /\ q(i).pulled = prep[i].pulled
      BY <3>1, <3>2 DEF PrepRow, t
    <3> QED
      BY <3>2, <3>3 DEF PrepKeeps
  <2> HIDE DEF q
  <2>3. \A i \in Preps : (i \in sweep') = FALSE /\ prep'[i] = q(i)
    BY <2>1
  <2> QED
    BY <2>1, <2>2, <2>3 DEF PrepInv
<1> QED
  BY <1>2, <1>3, <1>4, <1>5, <1>6

LEMMA ReaperTyped ==
    ASSUME PreparedInv, [PreparedNext]_preparedVars
    PROVE  reaper' \in ReaperRow
<1>0. reaper \in ReaperRow /\ 0 \in 0..MaxPreparations
  BY PreparedAssumption DEF PreparedInv
<1>1. CASE UNCHANGED reaper
  BY <1>0, <1>1
<1>2. CASE reaper' = NoReaper
  BY <1>0, <1>2 DEF ReaperRow, NoReaper
<1>3. ASSUME NEW i \in Preps, ReapExpired(i) \/ ReapInvalid(i) PROVE reaper' \in ReaperRow
  <2>1. prep[i].out \in BOOLEAN /\ i \in 0..MaxPreparations
    BY PreparedAssumption DEF PreparedInv, PrepInv, PrepRow, Preps
  <2> QED
    BY <1>3, <2>1 DEF ReapExpired, ReapInvalid, ReaperRow
<1>4. CASE RemoveExpired
  BY <1>0, <1>4 DEF RemoveExpired, ReaperRow
<1>5. \/ UNCHANGED reaper \/ reaper' = NoReaper \/ RemoveExpired
      \/ \E i \in Preps : ReapExpired(i) \/ ReapInvalid(i)
  <2>1. ASSUME NEW i \in Preps,
               \/ PrepareClaimed(i) \/ PrepareStarts(i) \/ ProcessPreparation(i) \/ Assemble(i)
               \/ PublishPreparation(i) \/ PreparationReturns(i) \/ Ages(i) \/ FileAges(i)
               \/ Purge(i) \/ CancelPreparation(i) \/ RetryPreparation(i)
        PROVE  UNCHANGED reaper
    <3>1. ASSUME NEW r, OnlyPrep(i, r) PROVE UNCHANGED reaper
      BY <3>1 DEF OnlyPrep
    <3>2. CASE PrepareClaimed(i)
      BY <3>1, <3>2, Zenon DEF PrepareClaimed
    <3>3. CASE PrepareStarts(i)
      BY <3>1, <3>3, Zenon DEF PrepareStarts
    <3>4. CASE ProcessPreparation(i)
      BY <3>1, <3>4, Zenon DEF ProcessPreparation
    <3>5. CASE Assemble(i)
      BY <3>1, <3>5, Zenon DEF Assemble
    <3>6. CASE PublishPreparation(i)
      BY <3>1, <3>6, Zenon DEF PublishPreparation
    <3>7. CASE PreparationReturns(i)
      BY <3>1, <3>7, Zenon DEF PreparationReturns
    <3>8. CASE Ages(i)
      BY <3>1, <3>8, Zenon DEF Ages
    <3>9. CASE FileAges(i)
      BY <3>1, <3>9, Zenon DEF FileAges
    <3>10. CASE Purge(i)
      BY <3>1, <3>10, Zenon DEF Purge
    <3>11. CASE CancelPreparation(i)
      BY <3>1, <3>11, Zenon DEF CancelPreparation
    <3>12. CASE RetryPreparation(i)
      BY <3>1, <3>12, Zenon DEF RetryPreparation
    <3> QED
      BY <2>1, <3>2, <3>3, <3>4, <3>5, <3>6, <3>7, <3>8, <3>9, <3>10, <3>11, <3>12
  <2>2. ASSUME \/ CreateDownloadJob \/ PrepareEnqueue \/ PrepareLink \/ DeleteLink \/ SweepReads
               \/ DisableDownloads \/ EnableDownloads \/ PreparerStops
               \/ \E i \in Preps : SweepRemoves(i)
        PROVE  UNCHANGED reaper
    BY <2>2, Zenon DEF CreateDownloadJob, PrepareEnqueue, PrepareLink, DeleteLink, SweepReads,
       DisableDownloads, EnableDownloads, PreparerStops, SweepRemoves
  <2>3. ASSUME RecordExpired \/ CancelInvalid \/ PreparerCrash PROVE reaper' = NoReaper
    BY <2>3, Zenon DEF RecordExpired, CancelInvalid, PreparerCrash
  <2>4. CASE UNCHANGED preparedVars
    BY <2>4 DEF preparedVars
  <2> QED
    BY <2>1, <2>2, <2>3, <2>4, Zenon DEF PreparedNext
<1> QED
  BY <1>1, <1>2, <1>3, <1>4, <1>5

LEMMA PreparedStep == PreparedInv /\ [PreparedNext]_preparedVars => PreparedInv'
<1> SUFFICES ASSUME PreparedInv, [PreparedNext]_preparedVars PROVE PrepInv'
  BY ReaperTyped DEF PreparedInv
<1>0. PrepInv
  BY DEF PreparedInv
<1>1. CASE UNCHANGED <<prep, sweep>>
  BY <1>0, <1>1 DEF PrepInv
<1>2. ASSUME \/ UNCHANGED preparedVars \/ DeleteLink \/ EnableDownloads
             \/ \E i \in Preps : ReapExpired(i) \/ ReapInvalid(i)
      PROVE  UNCHANGED <<prep, sweep>>
  BY <1>2, Zenon DEF preparedVars, DeleteLink, EnableDownloads, ReapExpired, ReapInvalid
<1> QED
  BY <1>0, <1>1, <1>2, RequestsKeep, HandlerKeeps, AgesKeep, ReaperKeeps, SweepKeeps, JobsKeep, Zenon
     DEF PreparedNext

LEMMA PreparedInitial == PreparedInit => PreparedInv
<1> SUFFICES ASSUME PreparedInit PROVE PreparedInv
  OBVIOUS
<1>1. NewPreparation \in PrepRow /\ PrepKeeps(NewPreparation, FALSE)
  BY TaskNames DEF NewPreparation, PrepRow, PrepKeeps
<1>2. \A i \in Preps : prep[i] = NewPreparation /\ (i \in sweep) = FALSE
  BY DEF PreparedInit
<1> HIDE DEF NewPreparation
<1>3. prep = [i \in Preps |-> NewPreparation] /\ reaper = NoReaper
  BY DEF PreparedInit
<1>4. reaper \in ReaperRow
  BY <1>3, PreparedAssumption DEF NoReaper, ReaperRow
<1> QED
  BY <1>1, <1>2, <1>3, <1>4 DEF PreparedInv, PrepInv

(* What a link offers as ready to download is there: whatever was swept,    *)
(* canceled, retried or interrupted, the file of a ready preparation whose  *)
(* time has not run out exists, unless an expiry that had begun before it   *)
(* was prepared again took it.                                              *)
THEOREM ReadyPreparationsHaveTheirFile == PreparedSpec => []ReadyHasFile
<1>1. PreparedInv => ReadyHasFile
  BY DEF PreparedInv, PrepInv, PrepKeeps, ReadyHasFile
<1> QED
  BY <1>1, PreparedInitial, PreparedStep, PTL DEF PreparedSpec

-----------------------------------------------------------------------------
(* The remote downloads.  Create requests exclude one another, so the row   *)
(* that one of them makes is the only one that is not deleted, but for the  *)
(* rows that a Save writes back, which are in resaved; only the handler     *)
(* completes a row, that of its job; and the job, once it is made, stays    *)
(* the job of its row.                                                      *)
DownloadRow == [st : RemoteStatuses, linked : BOOLEAN]
FetchPcs == {"idle", "start", "loaded", "process", "copy", "commit", "import", "imported", "drop", "after"}
FetchRows == [pc : FetchPcs, st : {"pending", "downloading", "importing"},
              ctx : {"live", "canceled", "interrupted"},
              err : {"ok", "canceled", "transient", "permanent"}]
CreatePcs == {"idle", "row", "enqueue", "link", "answered", "refused"}
CreateRows == [pc : CreatePcs, row : Nat, linked : BOOLEAN]
CancelRows == [pc : {"idle", "cancel", "project", "load", "ask", "save"}, row : Nat,
               st : RemoteStatuses, linked : BOOLEAN]
RetryRows == [pc : {"idle", "reset", "reopen"}, row : Nat, linked : BOOLEAN]
JobRows == [task : TaskRows, of : Nat]
VideoRows == [keyed : BOOLEAN, loose : BOOLEAN]
FetchWorks == {"loaded", "process", "copy", "commit", "import", "imported", "drop"}

RemoteShape ==
    /\ rows \in Seq(DownloadRow) /\ job \in JobRows /\ video \in VideoRows /\ fetch \in FetchRows
    /\ creators \in [Creators -> CreateRows]

(* The job: it is of a row as soon as it is there, and only that row is     *)
(* linked to it or completed.  The row that is worked on is not completed.  *)
JobsInv ==
    /\ job.of \in 0..Len(rows)
    /\ job.of = 0 => job.task.st = "none" /\ fetch.pc = "idle"
    /\ fetch.pc \in FetchWorks => rows[job.of].st # "completed"
    /\ fetch.pc = "imported" => video.keyed
    /\ \A i \in DOMAIN rows : rows[i].linked => job.of = i
    /\ \A i \in DOMAIN rows : rows[i].st = "completed" => job.of = i /\ video.keyed

(* The requests that cancel, retry and delete are for rows there are.       *)
RequestsInv ==
    /\ canceling \in CancelRows /\ retrying \in RetryRows /\ deleting \in Nat
    /\ canceling.pc # "idle" => /\ canceling.row \in DOMAIN rows
                                /\ canceling.linked => job.of = canceling.row
    /\ retrying.pc # "idle" => retrying.row \in DOMAIN rows
    /\ deleting # 0 => deleting \in DOMAIN rows

(* The create requests.                                                     *)
CreatesInv ==
    /\ \A i, j \in Rows \ resaved : i = j
    /\ \A c \in Creators :
        /\ creators[c].pc \in {"row", "enqueue", "link"} => createMu = {c}
        /\ creators[c].pc = "row" => Rows \ resaved = {}
        /\ creators[c].pc \in {"enqueue", "link", "answered"} => creators[c].row \in DOMAIN rows
        /\ creators[c].pc = "enqueue" /\ creators[c].linked /\ creators[c].row \in Rows \ resaved
           => rows[creators[c].row].linked
        /\ creators[c].pc = "link" => job.of = creators[c].row
        /\ creators[c].pc = "answered" /\ creators[c].row \in Rows \ resaved
           => rows[creators[c].row].linked

RemoteInv == RemoteShape /\ JobsInv /\ RequestsInv /\ CreatesInv

(* At most one row is written, and a row that is back, or lost its link,    *)
(* is in resaved.                                                           *)
Written(i, s, l) ==
    /\ rows' \in Seq(DownloadRow) /\ Len(rows') = Len(rows) /\ DOMAIN rows' = DOMAIN rows
    /\ \A j \in DOMAIN rows : j # i => rows'[j].st = rows[j].st /\ rows'[j].linked = rows[j].linked
    /\ \/ rows'[i].st = s /\ rows'[i].linked = l
       \/ rows'[i].st = rows[i].st /\ rows'[i].linked = rows[i].linked
    /\ resaved \subseteq resaved'
    /\ rows[i].st = "deleted" /\ rows'[i].st # "deleted" => i \in resaved'
    /\ rows[i].linked /\ ~ rows'[i].linked => i \in resaved'

LEMMA RowWritten ==
    ASSUME rows \in Seq(DownloadRow), NEW i \in DOMAIN rows, NEW s \in RemoteStatuses, NEW l \in BOOLEAN,
           SaveRow(i, s, l) \/ UpdateRow(i, s, l), rows[i].linked /\ ~ l => SaveRow(i, s, l)
    PROVE  Written(i, s, l)
<1> DEFINE r == [st |-> s, linked |-> l]
<1>1. r \in DownloadRow /\ r.st = s /\ r.linked = l
  BY DEF DownloadRow
<1>2. \A j \in DOMAIN rows : rows[j] \in DownloadRow
  OBVIOUS
<1>3. rows[i].linked \in BOOLEAN
  BY <1>2 DEF DownloadRow
<1> HIDE DEF r
<1>4. ASSUME rows' = [rows EXCEPT ![i] = r]
      PROVE  /\ rows' \in Seq(DownloadRow) /\ Len(rows') = Len(rows) /\ DOMAIN rows' = DOMAIN rows
             /\ \A j \in DOMAIN rows : j # i => rows'[j] = rows[j]
             /\ rows'[i].st = s /\ rows'[i].linked = l
  BY <1>1, <1>4
<1>5. CASE SaveRow(i, s, l)
  <2>1. /\ rows' = [rows EXCEPT ![i] = r] /\ resaved \subseteq resaved'
        /\ i \notin Rows \/ (rows[i].linked /\ ~ l) => i \in resaved'
    BY <1>5 DEF SaveRow, r
  <2> QED
    BY <1>4, <2>1 DEF Written, Rows
<1>6. CASE UpdateRow(i, s, l) /\ (l \/ ~ rows[i].linked)
  <2>1. /\ resaved' = resaved
        /\ \/ rows' = [rows EXCEPT ![i] = r] /\ rows[i].st # "deleted"
           \/ rows' = rows
    BY <1>6 DEF UpdateRow, Rows, r
  <2> QED
    BY <1>4, <1>6, <2>1 DEF Written
<1> QED
  BY <1>3, <1>5, <1>6

LEMMA RowsUnwritten ==
    ASSUME rows \in Seq(DownloadRow), NEW i \in DOMAIN rows, UNCHANGED <<rows, resaved>>
    PROVE  /\ rows[i].st \in RemoteStatuses /\ rows[i].linked \in BOOLEAN
           /\ Written(i, rows[i].st, rows[i].linked)
<1>1. rows[i] \in DownloadRow
  OBVIOUS
<1> QED
  BY <1>1 DEF Written, DownloadRow

LEMMA CreatesKept ==
    ASSUME RemoteShape, CreatesInv, UNCHANGED createVars, job'.of = job.of,
           NEW i \in DOMAIN rows, NEW s, NEW l, Written(i, s, l)
    PROVE  CreatesInv'
<1>1. /\ Rows' \ resaved' \subseteq Rows \ resaved
      /\ \A j \in Rows' \ resaved' : rows[j].linked => rows'[j].linked
  BY DEF Rows, Written
<1>2. creators' = creators /\ createMu' = createMu /\ DOMAIN rows' = DOMAIN rows
  BY DEF createVars, Written
<1> QED
  BY <1>1, <1>2 DEF CreatesInv

(* What the handler and the requests do to a row.                           *)
LEMMA RowMoves ==
    ASSUME RemoteInv, NEW i \in DOMAIN rows, NEW s \in RemoteStatuses, NEW l \in BOOLEAN,
           Written(i, s, l), l => job.of = i,
           job' \in JobRows, fetch' \in FetchRows, video' \in VideoRows,
           job'.of = job.of, job.of = 0 => job'.task.st = "none" /\ fetch'.pc = "idle",
           fetch'.pc \in FetchWorks => rows[job.of].st # "completed" /\ (i = job.of => s # "completed"),
           fetch'.pc = "imported" => video'.keyed,
           s = "completed" => i = job.of /\ video'.keyed,
           job.of # 0 /\ rows[job.of].st = "completed" /\ video.keyed => video'.keyed,
           RequestsInv', UNCHANGED createVars
    PROVE  RemoteInv'
<1>1. CreatesInv'
  BY CreatesKept DEF RemoteInv
<1>2. RemoteShape'
  BY DEF RemoteInv, RemoteShape, Written, createVars
<1>3. \A j \in DOMAIN rows : /\ rows[j].linked => job.of = j
                             /\ rows[j].st = "completed" => job.of = j /\ video.keyed
      /\ job.of \in 0..Len(rows) /\ DOMAIN rows = 1..Len(rows) /\ Len(rows) \in Nat
  BY DEF RemoteInv, RemoteShape, JobsInv
<1>4. job'.of \in 0..Len(rows')
  BY <1>3 DEF Written
<1>5. \A j \in DOMAIN rows' : rows'[j].linked => job'.of = j
  BY <1>3 DEF Written
<1>6. \A j \in DOMAIN rows' : rows'[j].st = "completed" => job'.of = j /\ video'.keyed
  BY <1>3 DEF Written
<1>7. fetch'.pc \in FetchWorks => rows'[job'.of].st # "completed"
  <2>1. fetch'.pc \in FetchWorks => job.of \in DOMAIN rows
    BY <1>3 DEF FetchWorks
  <2> QED
    BY <2>1 DEF Written
<1> QED
  BY <1>1, <1>2, <1>4, <1>5, <1>6, <1>7 DEF RemoteInv, JobsInv

LEMMA RemoteKnown ==
    ASSUME RemoteInv
    PROVE  /\ rows \in Seq(DownloadRow) /\ DOMAIN rows = 1..Len(rows) /\ Len(rows) \in Nat
           /\ job \in JobRows /\ job.task \in TaskRows /\ fetch \in FetchRows
           /\ video \in VideoRows /\ video.keyed \in BOOLEAN
           /\ job.of \in 0..Len(rows)
           /\ job.of # 0 => job.of \in DOMAIN rows
           /\ job.of = 0 => job.task.st = "none" /\ fetch.pc = "idle"
           /\ \A j \in DOMAIN rows : rows[j].st \in RemoteStatuses /\ rows[j].linked \in BOOLEAN
           /\ \A j \in DOMAIN rows : /\ rows[j].linked => job.of = j
                                     /\ rows[j].st = "completed" => job.of = j /\ video.keyed
           /\ fetch.pc \in FetchWorks => rows[job.of].st # "completed"
           /\ fetch.pc = "imported" => video.keyed
<1>1. /\ rows \in Seq(DownloadRow) /\ job \in JobRows /\ fetch \in FetchRows /\ video \in VideoRows
  BY DEF RemoteInv, RemoteShape
<1>2. job.task \in TaskRows /\ DOMAIN rows = 1..Len(rows) /\ Len(rows) \in Nat /\ video.keyed \in BOOLEAN
  BY <1>1 DEF JobRows, VideoRows
<1>3. \A j \in DOMAIN rows : rows[j] \in DownloadRow
  BY <1>1
<1>4. \A j \in DOMAIN rows : rows[j].st \in RemoteStatuses /\ rows[j].linked \in BOOLEAN
  BY <1>3 DEF DownloadRow
<1>5. /\ job.of \in 0..Len(rows)
      /\ job.of = 0 => job.task.st = "none" /\ fetch.pc = "idle"
      /\ \A j \in DOMAIN rows : /\ rows[j].linked => job.of = j
                                /\ rows[j].st = "completed" => job.of = j /\ video.keyed
      /\ fetch.pc \in FetchWorks => rows[job.of].st # "completed"
      /\ fetch.pc = "imported" => video.keyed
  BY DEF RemoteInv, JobsInv
<1>6. job.of # 0 => job.of \in DOMAIN rows
  BY <1>2, <1>5
<1> QED
  BY <1>1, <1>2, <1>4, <1>5, <1>6

LEMMA JobTask ==
    ASSUME NEW t \in TaskRows, job \in JobRows
    PROVE  /\ [job EXCEPT !.task = t] \in JobRows /\ [job EXCEPT !.task = t].of = job.of
           /\ [job EXCEPT !.task = t].task = t
  BY DEF JobRows

LEMMA RequestsKept ==
    ASSUME RemoteInv, UNCHANGED requestVars, DOMAIN rows' = DOMAIN rows, job'.of = job.of
    PROVE  RequestsInv'
  BY DEF RemoteInv, RequestsInv, requestVars

(* The rows are left alone.                                                 *)
LEMMA RowsStay ==
    ASSUME RemoteInv, UNCHANGED <<rows, resaved>>,
           job' \in JobRows, fetch' \in FetchRows,
           job'.of = job.of, job.of = 0 => job'.task.st = "none" /\ fetch'.pc = "idle",
           fetch'.pc \in FetchWorks => rows[job.of].st # "completed",
           fetch'.pc = "imported" => video.keyed,
           video' = video, RequestsInv', UNCHANGED createVars
    PROVE  RemoteInv'
<1>1. CreatesInv'
  BY DEF RemoteInv, CreatesInv, Rows, createVars
<1>2. RemoteShape' /\ JobsInv'
  BY DEF RemoteInv, RemoteShape, JobsInv, createVars
<1> QED
  BY <1>1, <1>2 DEF RemoteInv

(* The handler, step by step.                                               *)
LEMMA FetchMoves ==
    ASSUME RemoteInv, fetch.pc # "idle", NEW s \in RemoteStatuses, NEW l \in BOOLEAN,
           Written(job.of, s, l),
           job' \in JobRows, job'.of = job.of, fetch' \in FetchRows, video' \in VideoRows,
           UNCHANGED <<createVars, requestVars>>,
           fetch'.pc \in FetchWorks => rows[job.of].st # "completed" /\ s # "completed",
           fetch'.pc = "imported" => video'.keyed,
           s = "completed" => video'.keyed,
           video.keyed /\ ~ video'.keyed => rows[job.of].st # "completed"
    PROVE  RemoteInv'
<1>1. job.of # 0 /\ job.of \in DOMAIN rows
  BY RemoteKnown
<1>2. RequestsInv'
  BY RequestsKept DEF Written
<1>3. video'.keyed \in BOOLEAN
  BY DEF VideoRows
<1> QED
  BY <1>1, <1>2, <1>3, RowMoves

LEMMA Returned ==
    ASSUME RemoteInv, NEW how, FetchReturns(how)
    PROVE  job' \in JobRows /\ job'.of = job.of /\ fetch' \in FetchRows /\ fetch'.pc = "idle"
<1> DEFINE t == FinishedRow(job.task, how)
<1>1. t \in TaskRows /\ job' = [job EXCEPT !.task = t] /\ fetch' = NoFetch
  BY RemoteKnown, TaskFinished DEF FetchReturns
<1> HIDE DEF t
<1> QED
  BY <1>1, RemoteKnown, JobTask DEF NoFetch, FetchRows, FetchPcs

LEMMA Fetching ==
    ASSUME RemoteInv, NEW pc \in FetchPcs, Fetches(pc)
    PROVE  fetch' \in FetchRows /\ fetch'.pc = pc
  BY RemoteKnown DEF Fetches, FetchRows

LEMMA Ended ==
    ASSUME RemoteInv, fetch.pc # "idle", NEW s \in RemoteStatuses,
           NEW err \in {"ok", "canceled", "transient", "permanent"}, DownloadEnds(s, err)
    PROVE  Written(job.of, s, TRUE) /\ fetch' \in FetchRows /\ fetch'.pc = "after"
<1>1. Written(job.of, s, TRUE)
  BY RemoteKnown, RowWritten DEF DownloadEnds
<1> QED
  BY <1>1, RemoteKnown DEF DownloadEnds, FetchRows, FetchPcs

(* The handler returns.                                                     *)
LEMMA ReturnKeeps ==
    ASSUME RemoteInv, fetch.pc # "idle", \E how : FetchReturns(how), UNCHANGED <<rows, resaved>>,
           UNCHANGED <<video, createVars, requestVars>>
    PROVE  RemoteInv'
<1>1. job' \in JobRows /\ job'.of = job.of /\ fetch' \in FetchRows /\ fetch'.pc = "idle"
  BY Returned
<1>2. RequestsInv'
  BY <1>1, RequestsKept
<1> QED
  BY <1>1, <1>2, RowsStay, RemoteKnown DEF FetchWorks

LEMMA FetchBegins ==
    ASSUME RemoteInv,
           RemoteFetchClaimed \/ RemoteFetchEndsEarly \/ RemoteFetchLoads \/ RemoteFetchStarts
    PROVE  RemoteInv'
<1> USE RemoteKnown
<1>1. CASE RemoteFetchClaimed
  <2> DEFINE t == Claimed(job.task)
  <2>1. t \in TaskRows /\ job.task.st = "queued"
    BY <1>1, TaskClaimed DEF RemoteFetchClaimed
  <2>2. job.of # 0
    BY <2>1
  <2>3. /\ job' = [job EXCEPT !.task = t] /\ Fetches("start") /\ "start" \in FetchPcs
        /\ UNCHANGED <<rows, resaved, video, createVars, requestVars>>
    BY <1>1 DEF RemoteFetchClaimed, FetchPcs
  <2> HIDE DEF t
  <2>4. job' \in JobRows /\ job'.of = job.of
    BY <2>1, <2>3, JobTask
  <2>5. fetch' \in FetchRows /\ fetch'.pc = "start"
    BY <2>3, Fetching
  <2>6. RequestsInv'
    BY <2>3, <2>4, RequestsKept
  <2> QED
    BY <2>2, <2>3, <2>4, <2>5, <2>6, RowsStay DEF FetchWorks
<1>2. CASE RemoteFetchEndsEarly
  <2>1. fetch.pc # "idle" /\ UNCHANGED <<rows, resaved, video, createVars, requestVars>>
        /\ \E how : FetchReturns(how)
    BY <1>2, Zenon DEF RemoteFetchEndsEarly
  <2> QED
    BY <2>1, ReturnKeeps
<1>3. CASE RemoteFetchLoads
  <2>1. /\ fetch.pc # "idle" /\ rows[job.of].st # "completed"
        /\ UNCHANGED <<rows, resaved, job, video, createVars, requestVars>>
    BY <1>3 DEF RemoteFetchLoads, FetchRow
  <2>2. PICK st \in {"importing", "downloading"} : fetch' = [fetch EXCEPT !.pc = "loaded", !.st = st]
    BY <1>3 DEF RemoteFetchLoads
  <2>3. fetch' \in FetchRows /\ fetch'.pc = "loaded"
    BY <2>2 DEF FetchRows, FetchPcs
  <2>4. RequestsInv'
    BY <2>1, RequestsKept
  <2> QED
    BY <2>1, <2>3, <2>4, RowsStay
<1>4. CASE RemoteFetchStarts
  <2>1. fetch.pc = "loaded" /\ UNCHANGED <<video, createVars, requestVars>>
    BY <1>4 DEF RemoteFetchStarts
  <2>2. CASE (\E how : FetchReturns(how)) /\ UNCHANGED <<rows, resaved>>
    BY <2>1, <2>2, ReturnKeeps
  <2>3. CASE /\ Fetches("process") /\ job' = job
             /\ UpdateRow(job.of, IF fetch.st = "importing" THEN FetchRow ELSE fetch.st, TRUE)
    <3> DEFINE s == IF fetch.st = "importing" THEN FetchRow ELSE fetch.st
    <3>1. rows[job.of].st # "completed" /\ job.of \in DOMAIN rows
      BY <2>1 DEF FetchWorks
    <3>2. s \in RemoteStatuses /\ s # "completed"
      BY <3>1 DEF FetchRow, FetchRows, RemoteStatuses
    <3>3. UpdateRow(job.of, s, TRUE)
      BY <2>3
    <3> HIDE DEF s
    <3>4. Written(job.of, s, TRUE)
      BY <3>1, <3>2, <3>3, RowWritten
    <3>5. fetch' \in FetchRows /\ fetch'.pc = "process"
      BY <2>3, Fetching DEF FetchPcs
    <3> QED
      BY <2>1, <2>3, <3>1, <3>2, <3>4, <3>5, FetchMoves
  <2> QED
    BY <1>4, <2>2, <2>3, Zenon DEF RemoteFetchStarts
<1> QED
  BY <1>1, <1>2, <1>3, <1>4

(* The row is saved with an end, or it is left alone.                       *)
LEMMA EndsKeep ==
    ASSUME RemoteInv, fetch.pc \in FetchWorks, NEW s \in RemoteStatuses, s # "completed" \/ video'.keyed,
           NEW err \in {"ok", "canceled", "transient", "permanent"}, DownloadEnds(s, err),
           job' = job, video' \in VideoRows, UNCHANGED <<createVars, requestVars>>
    PROVE  RemoteInv'
<1>1. fetch.pc # "idle" /\ rows[job.of].st # "completed"
  BY RemoteKnown DEF FetchWorks
<1>2. Written(job.of, s, TRUE) /\ fetch' \in FetchRows /\ fetch'.pc = "after"
  BY <1>1, Ended
<1> QED
  BY <1>1, <1>2, FetchMoves, RemoteKnown DEF FetchWorks

LEMMA RowUntouched ==
    ASSUME RemoteInv, fetch.pc \in FetchWorks, NEW pc \in FetchPcs, Fetches(pc), UNCHANGED <<rows, resaved>>,
           pc = "imported" => video'.keyed,
           job' \in JobRows, job'.of = job.of, video' \in VideoRows,
           UNCHANGED <<createVars, requestVars>>
    PROVE  RemoteInv'
<1>1. /\ job.of \in DOMAIN rows /\ rows[job.of].st # "completed" /\ fetch.pc # "idle"
      /\ rows \in Seq(DownloadRow)
  BY RemoteKnown DEF FetchWorks
<1>2. /\ rows[job.of].st \in RemoteStatuses /\ rows[job.of].linked \in BOOLEAN
      /\ Written(job.of, rows[job.of].st, rows[job.of].linked)
  BY <1>1, RowsUnwritten
<1>3. fetch' \in FetchRows /\ fetch'.pc = pc
  BY Fetching
<1> QED
  BY <1>1, <1>2, <1>3, FetchMoves

LEMMA FetchGoesOn ==
    ASSUME RemoteInv, ProcessDownload \/ CopyRemoteBody \/ CommitImport \/ ImportRemoteTemp
    PROVE  RemoteInv'
<1> USE RemoteKnown
<1>1. CASE ProcessDownload
  <2>1. /\ fetch.pc \in FetchWorks /\ UNCHANGED <<job, video, createVars, requestVars>>
        /\ \/ DownloadEnds("canceled", "canceled")
           \/ video.keyed /\ DownloadEnds("completed", "ok")
           \/ Fetches("import") /\ UNCHANGED <<rows, resaved>>
           \/ Fetches("copy") /\ UNCHANGED <<rows, resaved>>
    BY <1>1 DEF ProcessDownload, FinishCanceled, FetchWorks
  <2> QED
    BY <2>1, EndsKeep, RowUntouched DEF FetchPcs, RemoteStatuses, RemoteDownloadTerminal
<1>2. CASE CopyRemoteBody
  <2>1. /\ fetch.pc \in FetchWorks /\ UNCHANGED <<job, video, createVars, requestVars>>
        /\ \/ DownloadEnds("canceled", "canceled")
           \/ \E err \in {"transient", "permanent"} : DownloadEnds("failed", err)
           \/ UpdateStatus(job.of, "importing") /\ Fetches("commit")
    BY <1>2, Zenon DEF CopyRemoteBody, FinishCanceled, FetchWorks
  <2>2. CASE DownloadEnds("canceled", "canceled")
    BY <2>1, <2>2, EndsKeep DEF RemoteStatuses, RemoteDownloadTerminal
  <2>3. ASSUME NEW err \in {"transient", "permanent"}, DownloadEnds("failed", err) PROVE RemoteInv'
    BY <2>1, <2>3, EndsKeep DEF RemoteStatuses, RemoteDownloadTerminal
  <2>4. CASE UpdateStatus(job.of, "importing") /\ Fetches("commit")
    <3>1. job.of \in DOMAIN rows /\ rows[job.of].st # "completed" /\ fetch.pc # "idle"
          /\ rows[job.of].linked \in BOOLEAN
      BY <2>1 DEF FetchWorks
    <3>2. UpdateRow(job.of, "importing", rows[job.of].linked) /\ "importing" \in RemoteStatuses
      BY <2>4 DEF UpdateStatus, RemoteStatuses
    <3>3. Written(job.of, "importing", rows[job.of].linked)
      BY <3>1, <3>2, RowWritten
    <3>4. fetch' \in FetchRows /\ fetch'.pc = "commit"
      BY <2>4, Fetching DEF FetchPcs
    <3> QED
      BY <2>1, <3>1, <3>2, <3>3, <3>4, FetchMoves
  <2> QED
    BY <2>1, <2>2, <2>3, <2>4
<1>3. CASE CommitImport
  <2>1. fetch.pc \in FetchWorks /\ UNCHANGED <<video, createVars, requestVars>>
    BY <1>3 DEF CommitImport, FetchWorks
  <2>2. CASE job' = [job EXCEPT !.task.commit = TRUE] /\ Fetches("import") /\ UNCHANGED <<rows, resaved>>
    <3>1. job' \in JobRows /\ job'.of = job.of
      <4>1. [job.task EXCEPT !.commit = TRUE] \in TaskRows
        BY DEF TaskRows
      <4>2. job' = [job EXCEPT !.task = [job.task EXCEPT !.commit = TRUE]]
        BY <2>2
      <4> QED
        BY <4>1, <4>2, JobTask
    <3> QED
      BY <2>1, <2>2, <3>1, RowUntouched DEF FetchPcs
  <2>3. CASE job' = job /\ DownloadEnds("canceled", "canceled")
    BY <2>1, <2>3, EndsKeep DEF RemoteStatuses, RemoteDownloadTerminal
  <2> QED
    BY <1>3, <2>2, <2>3, Zenon DEF CommitImport, FinishCanceled
<1>4. CASE ImportRemoteTemp
  <2>1. /\ fetch.pc \in FetchWorks /\ UNCHANGED <<job, createVars, requestVars>>
        /\ \/ video' = [video EXCEPT !.keyed = TRUE] /\ Fetches("imported") /\ UNCHANGED <<rows, resaved>>
           \/ DownloadEnds("failed", "permanent") /\ video' = video
    BY <1>4 DEF ImportRemoteTemp, FetchWorks
  <2>2. [video EXCEPT !.keyed = TRUE] \in VideoRows /\ [video EXCEPT !.keyed = TRUE].keyed
    BY DEF VideoRows
  <2> QED
    BY <2>1, <2>2, EndsKeep, RowUntouched DEF FetchPcs, RemoteStatuses, RemoteDownloadTerminal
<1> QED
  BY <1>1, <1>2, <1>3, <1>4

LEMMA FetchEnds ==
    ASSUME RemoteInv, CompleteRemoteImport \/ DeleteImportedRemoteLink \/ RemoteFetchReturns
    PROVE  RemoteInv'
<1> USE RemoteKnown
<1>1. CASE CompleteRemoteImport
  <2> DEFINE v == [keyed |-> FALSE, loose |-> TRUE]
  <2>1. /\ fetch.pc \in FetchWorks /\ video.keyed /\ UNCHANGED <<job, createVars, requestVars>>
        /\ \/ video' = v /\ Fetches("drop") /\ UNCHANGED <<rows, resaved>>
           \/ video' = video /\ DownloadEnds("completed", "ok")
           \/ video' = video /\ DownloadEnds("failed", "permanent")
    BY <1>1 DEF CompleteRemoteImport, DropImport, FetchWorks
  <2>2. v \in VideoRows
    BY DEF VideoRows
  <2> HIDE DEF v
  <2> QED
    BY <2>1, <2>2, EndsKeep, RowUntouched DEF FetchPcs, RemoteStatuses, RemoteDownloadTerminal
<1>2. CASE DeleteImportedRemoteLink
  <2>1. /\ fetch.pc \in FetchWorks /\ UNCHANGED <<job, createVars, requestVars>>
        /\ video' = [video EXCEPT !.loose = FALSE] \/ video' = video
        /\ DownloadEnds("canceled", "canceled")
    BY <1>2 DEF DeleteImportedRemoteLink, FinishCanceled, FetchWorks
  <2>2. video' \in VideoRows
    BY <2>1 DEF VideoRows
  <2> QED
    BY <2>1, <2>2, EndsKeep DEF RemoteStatuses, RemoteDownloadTerminal
<1>3. CASE RemoteFetchReturns
  <2>1. /\ fetch.pc = "after" /\ UNCHANGED <<video, createVars, requestVars>>
        /\ UpdateStatus(job.of, "canceled") \/ UNCHANGED <<rows, resaved>>
        /\ \E how : FetchReturns(how)
    BY <1>3, Zenon DEF RemoteFetchReturns
  <2>2. job' \in JobRows /\ job'.of = job.of /\ fetch' \in FetchRows /\ fetch'.pc = "idle"
    BY <2>1, Returned
  <2>3. CASE UNCHANGED <<rows, resaved>>
    BY <2>1, <2>3, ReturnKeeps
  <2>4. CASE UpdateStatus(job.of, "canceled")
    <3>1. job.of \in DOMAIN rows /\ fetch.pc # "idle" /\ rows[job.of].linked \in BOOLEAN
      BY <2>1
    <3>2. UpdateRow(job.of, "canceled", rows[job.of].linked) /\ "canceled" \in RemoteStatuses
      BY <2>4 DEF UpdateStatus, RemoteStatuses, RemoteDownloadTerminal
    <3>3. Written(job.of, "canceled", rows[job.of].linked)
      BY <3>1, <3>2, RowWritten
    <3> QED
      BY <2>1, <2>2, <3>1, <3>2, <3>3, FetchMoves DEF FetchWorks
  <2> QED
    BY <2>1, <2>3, <2>4
<1> QED
  BY <1>1, <1>2, <1>3

(* The requests that cancel, retry, delete and disable.                     *)
LEMMA FetchStopped ==
    ASSUME RemoteInv, NEW how \in {"canceled", "interrupted"}
    PROVE  StoppedFetch(how) \in FetchRows /\ StoppedFetch(how).pc = fetch.pc
  BY RemoteKnown DEF StoppedFetch, FetchRows

LEMMA JobGoesOn ==
    ASSUME RemoteInv, NEW t \in TaskRows, job.task.st = "none" => t.st = "none",
           job' = [job EXCEPT !.task = t]
    PROVE  /\ job' \in JobRows /\ job'.of = job.of
           /\ job.of = 0 => job'.task.st = "none"
  BY RemoteKnown, JobTask

(* A request changes one row, and completes none.                           *)
LEMMA RequestWrites ==
    ASSUME RemoteInv, NEW i \in DOMAIN rows, NEW s \in RemoteStatuses, NEW l \in BOOLEAN,
           SaveRow(i, s, l) \/ UpdateRow(i, s, l), rows[i].linked /\ ~ l => SaveRow(i, s, l),
           s # "completed" \/ s = rows[i].st, l => job.of = i,
           UNCHANGED <<job, fetch, video, createVars>>,
           DOMAIN rows' = DOMAIN rows => RequestsInv'
    PROVE  RemoteInv'
<1>1. Written(i, s, l)
  BY RowWritten, RemoteKnown
<1>2. RequestsInv'
  BY <1>1 DEF Written
<1>3. s = "completed" => i = job.of /\ video'.keyed
  BY RemoteKnown
<1>4. fetch'.pc \in FetchWorks => rows[job.of].st # "completed" /\ (i = job.of => s # "completed")
  BY RemoteKnown
<1> QED
  BY <1>1, <1>2, <1>3, <1>4, RowMoves, RemoteKnown

LEMMA NoRequests ==
    /\ NoCancel \in CancelRows /\ NoCancel.pc = "idle" /\ NoRetry \in RetryRows /\ NoRetry.pc = "idle"
  BY DEF NoCancel, CancelRows, NoRetry, RetryRows, RemoteStatuses

(* A request goes on, or ends.                                              *)
LEMMA CancelGoesOn ==
    ASSUME RemoteInv, canceling' = NoCancel \/ (canceling' \in CancelRows /\ canceling.pc # "idle"
                          /\ canceling'.row = canceling.row /\ canceling'.linked = canceling.linked),
           UNCHANGED <<retrying, deleting>>, job'.of = job.of, DOMAIN rows' = DOMAIN rows
    PROVE  RequestsInv'
  BY NoRequests DEF RemoteInv, RequestsInv

LEMMA CancelLoads ==
    ASSUME RemoteInv, NEW i \in DOMAIN rows,
           NEW pc \in {"idle", "cancel", "project", "load", "ask", "save"},
           canceling' = LoadedForCancel(i, pc),
           UNCHANGED <<rows, job, retrying, deleting>>
    PROVE  RequestsInv'
<1>1. i \in Nat /\ rows[i].st \in RemoteStatuses /\ rows[i].linked \in BOOLEAN
      /\ (rows[i].linked => job.of = i)
  BY RemoteKnown
<1>2. /\ canceling' \in CancelRows /\ canceling'.row = i /\ canceling'.linked = rows[i].linked
  BY <1>1 DEF LoadedForCancel, CancelRows
<1> QED
  BY <1>1, <1>2 DEF RemoteInv, RequestsInv

LEMMA CancelsKeep ==
    ASSUME RemoteInv, \/ CancelRemoteDownload \/ CancelRemoteJob \/ ProjectCancel
                      \/ LoadUnlinked \/ AskForCancel \/ SaveCanceled
    PROVE  RemoteInv'
<1> USE RemoteKnown
<1>0. /\ canceling \in CancelRows
      /\ canceling.pc # "idle" => /\ canceling.row \in DOMAIN rows
                                  /\ canceling.linked => job.of = canceling.row
  BY DEF RemoteInv, RequestsInv
<1>1. CASE CancelRemoteDownload
  <2>1. PICK i \in Rows : canceling' = LoadedForCancel(i, IF rows[i].linked THEN "cancel" ELSE "load")
    BY <1>1 DEF CancelRemoteDownload
  <2>2. UNCHANGED <<rows, job, video, fetch, resaved, createVars, retrying, deleting>>
    BY <1>1 DEF CancelRemoteDownload, otherThanCancel
  <2>3. RequestsInv'
    BY <2>1, <2>2, CancelLoads DEF Rows
  <2> QED
    BY <2>2, <2>3, RowsStay
<1>2. CASE CancelRemoteJob
  <2> DEFINE t == CanceledRow(job.task)
             f == StoppedFetch("canceled")
             n == [canceling EXCEPT !.pc = "project"]
  <2>1. /\ canceling.pc = "cancel"
        /\ UNCHANGED <<rows, resaved, video, createVars, retrying, deleting>>
        /\ \/ job' = [job EXCEPT !.task = t] /\ fetch' = f /\ canceling' = n
           \/ canceling' = NoCancel /\ UNCHANGED <<job, fetch>>
    BY <1>2 DEF CancelRemoteJob, otherThanCancel
  <2>2. t \in TaskRows /\ (job.task.st = "none" => t.st = "none") /\ f \in FetchRows /\ f.pc = fetch.pc
    BY TaskCanceled, FetchStopped
  <2>3. n \in CancelRows /\ n.row = canceling.row /\ n.linked = canceling.linked
    BY <1>0 DEF CancelRows
  <2> HIDE DEF t, f, n
  <2>4. CASE job' = [job EXCEPT !.task = t] /\ fetch' = f /\ canceling' = n
    <3>1. job' \in JobRows /\ job'.of = job.of /\ (job.of = 0 => job'.task.st = "none")
      BY <2>2, <2>4, JobGoesOn
    <3>2. RequestsInv'
      BY <2>1, <2>3, <2>4, <3>1, CancelGoesOn
    <3> QED
      BY <2>1, <2>2, <2>4, <3>1, <3>2, RowsStay
  <2>5. CASE canceling' = NoCancel /\ UNCHANGED <<job, fetch>>
    <3>1. RequestsInv'
      BY <2>1, <2>5, CancelGoesOn
    <3> QED
      BY <2>1, <2>5, <3>1, RowsStay
  <2> QED
    BY <2>1, <2>4, <2>5
<1>3. CASE ProjectCancel
  <2> DEFINE i == canceling.row
             s == CASE canceling.st = "pending" /\ rows[i].st = "pending" -> "canceled"
                    [] canceling.st # "pending" /\ rows[i].st \in {"downloading", "importing"} -> "canceling"
                    [] OTHER -> rows[i].st
  <2>1. /\ canceling.pc = "project" /\ canceling' = NoCancel /\ UpdateRow(i, s, rows[i].linked)
        /\ UNCHANGED <<job, video, fetch, createVars, retrying, deleting>>
    BY <1>3 DEF ProjectCancel, UpdateStatus, otherThanCancel
  <2>2. i \in DOMAIN rows /\ rows[i].st \in RemoteStatuses /\ rows[i].linked \in BOOLEAN
    BY <1>0, <2>1
  <2>3. s \in RemoteStatuses /\ (s # "completed" \/ s = rows[i].st)
    BY <2>2 DEF RemoteStatuses, RemoteDownloadTerminal
  <2>4. DOMAIN rows' = DOMAIN rows => RequestsInv'
    BY <2>1, CancelGoesOn
  <2> HIDE DEF i, s
  <2> QED
    BY <2>1, <2>2, <2>3, <2>4, RequestWrites
<1>4. CASE LoadUnlinked
  <2>1. /\ canceling.pc # "idle"
        /\ \/ canceling' = NoCancel
           \/ \E pc \in {"save", "ask"} : canceling' = LoadedForCancel(canceling.row, pc)
        /\ UNCHANGED <<rows, job, video, fetch, resaved, createVars, retrying, deleting>>
    BY <1>4 DEF LoadUnlinked, otherThanCancel
  <2>2. RequestsInv'
    BY <1>0, <2>1, CancelGoesOn, CancelLoads
  <2> QED
    BY <2>1, <2>2, RowsStay
<1>5. CASE AskForCancel
  <2> DEFINE i == canceling.row
  <2>1. /\ canceling.pc = "ask" /\ canceling' = [canceling EXCEPT !.pc = "save"]
        /\ UpdateRow(i, "canceling", rows[i].linked) /\ "canceling" \in RemoteStatuses
        /\ UNCHANGED <<job, video, fetch, createVars, retrying, deleting>>
    BY <1>5 DEF AskForCancel, UpdateStatus, otherThanCancel, RemoteStatuses
  <2>2. i \in DOMAIN rows /\ rows[i].linked \in BOOLEAN
    BY <1>0, <2>1
  <2>3. canceling' \in CancelRows /\ canceling'.row = i /\ canceling'.linked = canceling.linked
    BY <1>0, <2>1 DEF CancelRows
  <2>4. DOMAIN rows' = DOMAIN rows => RequestsInv'
    BY <2>1, <2>3, CancelGoesOn
  <2> HIDE DEF i
  <2> QED
    BY <2>1, <2>2, <2>4, RequestWrites
<1>6. CASE SaveCanceled
  <2> DEFINE i == canceling.row
             l == canceling.linked
  <2>1. /\ canceling.pc = "save" /\ canceling' = NoCancel /\ SaveRow(i, "canceled", l)
        /\ "canceled" \in RemoteStatuses
        /\ UNCHANGED <<job, video, fetch, createVars, retrying, deleting>>
    BY <1>6 DEF SaveCanceled, otherThanCancel, RemoteStatuses, RemoteDownloadTerminal
  <2>2. i \in DOMAIN rows /\ l \in BOOLEAN /\ (l => job.of = i)
    BY <1>0, <2>1 DEF CancelRows
  <2>4. DOMAIN rows' = DOMAIN rows => RequestsInv'
    BY <2>1, CancelGoesOn
  <2> HIDE DEF i, l
  <2> QED
    BY <2>1, <2>2, <2>4, RequestWrites
<1> QED
  BY <1>1, <1>2, <1>3, <1>4, <1>5, <1>6

LEMMA RetriesKeep ==
    ASSUME RemoteInv, RetryRemoteDownload \/ ResetRemoteDownload \/ RetryRemoteJob
    PROVE  RemoteInv'
<1> USE RemoteKnown
<1>0. /\ retrying \in RetryRows /\ (retrying.pc # "idle" => retrying.row \in DOMAIN rows)
  BY DEF RemoteInv, RequestsInv
<1>1. ASSUME DOMAIN rows' = DOMAIN rows, job'.of = job.of, UNCHANGED <<canceling, deleting>>,
             retrying' \in RetryRows, retrying'.pc # "idle" => retrying'.row \in DOMAIN rows
      PROVE  RequestsInv'
  BY <1>1 DEF RemoteInv, RequestsInv
<1>2. CASE RetryRemoteDownload
  <2>1. PICK i \in Rows : retrying' = [pc |-> "reset", row |-> i, linked |-> rows[i].linked]
    BY <1>2 DEF RetryRemoteDownload
  <2>2. UNCHANGED <<rows, job, video, fetch, createVars, canceling, deleting, resaved>>
    BY <1>2 DEF RetryRemoteDownload
  <2>3. i \in DOMAIN rows /\ i \in Nat /\ rows[i].linked \in BOOLEAN
    BY DEF Rows
  <2>4. retrying' \in RetryRows /\ retrying'.row = i
    BY <2>1, <2>3 DEF RetryRows
  <2>5. RequestsInv'
    BY <1>1, <2>2, <2>3, <2>4
  <2> QED
    BY <2>2, <2>5, RowsStay
<1>3. CASE ResetRemoteDownload
  <2> DEFINE i == retrying.row
  <2>1. /\ retrying.pc = "reset" /\ UpdateRow(i, "pending", rows[i].linked) /\ "pending" \in RemoteStatuses
        /\ retrying' = NoRetry \/ retrying' = [retrying EXCEPT !.pc = "reopen"]
        /\ UNCHANGED <<job, video, fetch, createVars, canceling, deleting>>
    BY <1>3 DEF ResetRemoteDownload, UpdateStatus, RemoteStatuses
  <2>2. i \in DOMAIN rows /\ rows[i].linked \in BOOLEAN
    BY <1>0, <2>1
  <2>3. retrying' \in RetryRows /\ (retrying'.pc # "idle" => retrying'.row \in DOMAIN rows)
    BY <1>0, <2>1, <2>2, NoRequests DEF RetryRows
  <2>4. DOMAIN rows' = DOMAIN rows => RequestsInv'
    BY <1>1, <2>1, <2>3
  <2> HIDE DEF i
  <2> QED
    BY <2>1, <2>2, <2>4, RequestWrites
<1>4. CASE RetryRemoteJob
  <2> DEFINE t == RetriedRow(job.task)
  <2>1. /\ UNCHANGED <<rows, resaved, video, fetch, createVars, canceling, deleting>>
        /\ retrying' = NoRetry
        /\ job' = job \/ job' = [job EXCEPT !.task = t]
    BY <1>4 DEF RetryRemoteJob
  <2>2. t \in TaskRows /\ (job.task.st = "none" => t.st = "none")
    BY TaskRetried
  <2> HIDE DEF t
  <2>3. job' \in JobRows /\ job'.of = job.of /\ (job.of = 0 => job'.task.st = "none")
    BY <2>1, <2>2, JobGoesOn
  <2>4. RequestsInv'
    BY <1>1, <2>1, <2>3, NoRequests
  <2> QED
    BY <2>1, <2>3, <2>4, RowsStay
<1> QED
  BY <1>2, <1>3, <1>4

LEMMA DeletesKeep ==
    ASSUME RemoteInv, DeleteRemoteDownload \/ DeleteLoadedDownload \/ ClearRemoteDownloads
    PROVE  RemoteInv'
<1> USE RemoteKnown
<1>0. deleting \in Nat /\ (deleting # 0 => deleting \in DOMAIN rows)
  BY DEF RemoteInv, RequestsInv
<1>1. ASSUME DOMAIN rows' = DOMAIN rows, job'.of = job.of, UNCHANGED <<canceling, retrying>>,
             deleting' \in DOMAIN rows \cup {0}
      PROVE  RequestsInv'
  BY <1>1 DEF RemoteInv, RequestsInv
<1>2. CASE DeleteRemoteDownload
  <2>1. /\ UNCHANGED <<rows, job, video, fetch, createVars, canceling, retrying, resaved>>
        /\ deleting' \in DOMAIN rows
    BY <1>2 DEF DeleteRemoteDownload, Rows
  <2>2. RequestsInv'
    BY <1>1, <2>1
  <2> QED
    BY <2>1, <2>2, RowsStay
<1>3. ASSUME NEW i \in DOMAIN rows, UpdateStatus(i, "deleted"),
             UNCHANGED <<job, video, fetch, createVars, canceling, retrying>>,
             deleting' \in DOMAIN rows \cup {0}
      PROVE  RemoteInv'
  <2>1. /\ UpdateRow(i, "deleted", rows[i].linked) /\ "deleted" \in RemoteStatuses
        /\ rows[i].linked \in BOOLEAN
    BY <1>3 DEF UpdateStatus, RemoteStatuses
  <2>2. DOMAIN rows' = DOMAIN rows => RequestsInv'
    BY <1>1, <1>3
  <2> QED
    BY <1>3, <2>1, <2>2, RequestWrites
<1>4. CASE DeleteLoadedDownload
  BY <1>0, <1>3, <1>4 DEF DeleteLoadedDownload
<1>5. CASE ClearRemoteDownloads
  BY <1>0, <1>3, <1>5 DEF ClearRemoteDownloads, Rows, requestVars
<1> QED
  BY <1>2, <1>4, <1>5

LEMMA StopsKeep ==
    ASSUME RemoteInv, DisableRemoteDownloads \/ EnableRemoteDownloads \/ RemoteStops
    PROVE  RemoteInv'
<1> USE RemoteKnown
<1> DEFINE t == CanceledRow(job.task)
<1>1. /\ UNCHANGED <<rows, resaved, video, createVars, requestVars>>
      /\ job' = job \/ job' = [job EXCEPT !.task = t]
      /\ fetch' = fetch \/ \E how \in {"canceled", "interrupted"} : fetch' = StoppedFetch(how)
  BY Zenon DEF DisableRemoteDownloads, EnableRemoteDownloads, RemoteStops
<1>2. fetch' \in FetchRows /\ fetch'.pc = fetch.pc
  BY <1>1, FetchStopped
<1>3. t \in TaskRows /\ (job.task.st = "none" => t.st = "none")
  BY TaskCanceled
<1> HIDE DEF t
<1>4. job' \in JobRows /\ job'.of = job.of /\ (job.of = 0 => job'.task.st = "none")
  BY <1>1, <1>3, JobGoesOn
<1>5. RequestsInv'
  BY <1>1, <1>4, RequestsKept
<1> QED
  BY <1>1, <1>2, <1>4, <1>5, RowsStay

LEMMA RemoteCrashes == RemoteInv /\ RemoteCrash => RemoteInv'
<1> SUFFICES ASSUME RemoteInv, RemoteCrash PROVE RemoteInv'
  OBVIOUS
<1> DEFINE t == RecoveredRow(job.task)
<1>1. /\ fetch' = NoFetch /\ job' = [job EXCEPT !.task = t]
      /\ canceling' = NoCancel /\ retrying' = NoRetry /\ deleting' = 0
      /\ creators' = [c \in Creators |-> NoCreate] /\ UNCHANGED <<rows, resaved, video>>
  BY DEF RemoteCrash
<1>2. t \in TaskRows /\ (job.task.st = "none" => t.st = "none")
  BY RemoteKnown, TaskRecovered
<1> HIDE DEF t
<1>3. job' \in JobRows /\ job'.of = job.of /\ (job.of = 0 => job'.task.st = "none")
  BY <1>1, <1>2, JobGoesOn
<1>4. /\ NoFetch \in FetchRows /\ NoFetch.pc = "idle" /\ NoCreate \in CreateRows /\ NoCreate.pc = "idle"
  BY DEF NoFetch, NoCreate, FetchRows, FetchPcs, CreateRows, CreatePcs
<1>5. RemoteShape'
  BY <1>1, <1>3, <1>4 DEF RemoteInv, RemoteShape
<1>6. JobsInv'
  BY <1>1, <1>3, <1>4 DEF RemoteInv, JobsInv, FetchWorks
<1>7. \A c \in Creators : creators'[c].pc = "idle"
  BY <1>1, <1>4
<1>8. CreatesInv'
  BY <1>1, <1>7 DEF RemoteInv, CreatesInv, Rows
<1>9. RequestsInv'
  BY <1>1, NoRequests DEF RemoteInv, RequestsInv
<1> QED
  BY <1>5, <1>6, <1>8, <1>9 DEF RemoteInv

(* The create requests.                                                     *)
LEMMA CreatorMoves ==
    ASSUME RemoteInv, NEW c \in Creators, NEW r \in CreateRows,
           creators' = [creators EXCEPT ![c] = r]
    PROVE  /\ creators' \in [Creators -> CreateRows] /\ creators'[c] = r
           /\ \A d \in Creators : d # c => creators'[d] = creators[d]
  BY DEF RemoteInv, RemoteShape

LEMMA CreatorRow ==
    ASSUME RemoteInv, NEW c \in Creators, NEW pc \in CreatePcs
    PROVE  /\ creators[c] \in CreateRows
           /\ [creators[c] EXCEPT !.pc = pc] \in CreateRows
           /\ [creators[c] EXCEPT !.pc = pc].pc = pc
           /\ [creators[c] EXCEPT !.pc = pc].row = creators[c].row
<1>1. creators[c] \in CreateRows
  BY DEF RemoteInv, RemoteShape
<1> QED
  BY <1>1 DEF CreateRows

(* Every other request waits while one is in the section.                   *)
LEMMA OthersWait ==
    ASSUME RemoteInv, NEW c \in Creators, createMu = {} \/ createMu = {c}, NEW d \in Creators, d # c
    PROVE  creators[d].pc \notin {"row", "enqueue", "link"}
  BY DEF RemoteInv, CreatesInv

LEMMA InspectKeeps ==
    ASSUME RemoteInv, NEW c \in Creators, CreateInspect(c) \/ Replays(c)
    PROVE  RemoteInv'
<1>0. UNCHANGED <<rows, job, video, fetch, requestVars, resaved>>
  BY DEF CreateInspect, InspectRows, Replays
<1>1. JobsInv' /\ RequestsInv'
  BY <1>0 DEF RemoteInv, JobsInv, RequestsInv, requestVars
<1>2. ASSUME NEW r \in CreateRows, creators' = [creators EXCEPT ![c] = r],
             createMu' = createMu \/ (createMu = {} /\ createMu' = {c}),
             r.pc \in {"row", "enqueue", "link"} => createMu = {} /\ createMu' = {c},
             r.pc = "row" => Rows = {},
             r.pc = "enqueue" => r.row \in DOMAIN rows /\ r.linked = rows[r.row].linked,
             r.pc \notin {"link", "answered"}
      PROVE  RemoteInv'
  <2>1. /\ creators' \in [Creators -> CreateRows] /\ creators'[c] = r
        /\ \A d \in Creators : d # c => creators'[d] = creators[d]
    BY <1>2, CreatorMoves
  <2>2. \A d \in Creators : d # c /\ createMu = {} => creators[d].pc \notin {"row", "enqueue", "link"}
    BY OthersWait
  <2>3. RemoteShape'
    BY <1>0, <2>1 DEF RemoteInv, RemoteShape
  <2>4. CreatesInv'
    BY <1>0, <1>2, <2>1, <2>2 DEF RemoteInv, CreatesInv, Rows
  <2> QED
    BY <1>1, <2>3, <2>4 DEF RemoteInv
<1>3. CASE CreateInspect(c)
  <2>1. createMu = {} /\ InspectRows(c)
    BY <1>3 DEF CreateInspect, Nobody
  <2>2. CASE Rows = {} /\ creators' = [creators EXCEPT ![c].pc = "row"] /\ createMu' = {c}
    BY <1>2, <2>1, <2>2, CreatorRow DEF CreatePcs
  <2>3. ASSUME NEW i \in Rows, createMu' = {c},
               creators' = [creators EXCEPT ![c] = [pc |-> "enqueue", row |-> i, linked |-> rows[i].linked]]
        PROVE  RemoteInv'
    <3> DEFINE r == [pc |-> "enqueue", row |-> i, linked |-> rows[i].linked]
    <3>0. i \in Nat /\ i \in DOMAIN rows /\ rows[i].linked \in BOOLEAN
      BY RemoteKnown DEF Rows
    <3>1. r \in CreateRows /\ r.pc = "enqueue" /\ r.row = i /\ r.linked = rows[i].linked
      BY <3>0 DEF CreateRows, CreatePcs
    <3>2. creators' = [creators EXCEPT ![c] = r]
      BY <2>3
    <3> HIDE DEF r
    <3> QED
      BY <1>2, <2>1, <2>3, <3>0, <3>1, <3>2
  <2>4. CASE creators' = [creators EXCEPT ![c].pc = "refused"] /\ createMu' = createMu
    BY <1>2, <2>4, CreatorRow DEF CreatePcs
  <2> QED
    BY <2>1, <2>2, <2>3, <2>4 DEF InspectRows
<1>4. CASE Replays(c)
  <2>1. NoCreate \in CreateRows /\ NoCreate.pc = "idle"
    BY DEF NoCreate, CreateRows, CreatePcs
  <2>2. creators' = [creators EXCEPT ![c] = NoCreate] /\ createMu' = createMu
    BY <1>4 DEF Replays
  <2> QED
    BY <1>2, <2>1, <2>2
<1> QED
  BY <1>3, <1>4

LEMMA CreateRowKeeps ==
    ASSUME RemoteInv, NEW c \in Creators, CreateRow(c)
    PROVE  RemoteInv'
<1> DEFINE n == Len(rows) + 1
           r == [pc |-> "enqueue", row |-> n, linked |-> FALSE]
<1>1. /\ creators[c].pc = "row" /\ rows' = Append(rows, NewDownload)
      /\ UNCHANGED <<job, video, fetch, createMu, requestVars, resaved>>
  BY DEF CreateRow
<1>2. rows \in Seq(DownloadRow) /\ NewDownload \in DownloadRow
  BY DEF RemoteInv, RemoteShape, NewDownload, DownloadRow, RemoteStatuses
<1>3. NewDownload.st = "pending" /\ ~ NewDownload.linked
  BY DEF NewDownload
<1> HIDE DEF NewDownload
<1>4. /\ rows' \in Seq(DownloadRow) /\ Len(rows') = n /\ n \in Nat /\ DOMAIN rows' = 1..n
      /\ DOMAIN rows = 1..Len(rows) /\ Len(rows) \in Nat
      /\ \A j \in DOMAIN rows : rows'[j] = rows[j]
      /\ rows'[n] = NewDownload
  BY <1>1, <1>2
<1>5. creators' = [creators EXCEPT ![c] = r]
  BY <1>4 DEF CreateRow
<1>6. r \in CreateRows /\ r.pc = "enqueue" /\ r.row = n /\ ~ r.linked
  BY <1>4 DEF CreateRows, CreatePcs
<1> HIDE DEF r
<1>7. /\ creators' \in [Creators -> CreateRows] /\ creators'[c] = r
      /\ \A d \in Creators : d # c => creators'[d] = creators[d]
  BY <1>5, <1>6, CreatorMoves
<1>8. createMu = {c} /\ Rows \ resaved = {}
  BY <1>1 DEF RemoteInv, CreatesInv
<1>9. \A d \in Creators : d # c => creators[d].pc \notin {"row", "enqueue", "link"}
  BY <1>8, OthersWait
<1>10. DOMAIN rows' = DOMAIN rows \cup {n} /\ n \notin DOMAIN rows
  BY <1>4
<1>11. Rows' \ resaved' \subseteq {n}
  <2>1. \A j \in DOMAIN rows : rows[j].st = "deleted" \/ j \in resaved
    BY <1>8 DEF Rows
  <2> QED
    BY <1>1, <1>3, <1>4, <1>10, <2>1 DEF Rows
<1>12. RemoteShape'
  BY <1>1, <1>4, <1>7 DEF RemoteInv, RemoteShape
<1>13. JobsInv'
  <2>1. job'.of \in 0..Len(rows')
    BY <1>1, <1>4 DEF RemoteInv, JobsInv
  <2>2. \A j \in DOMAIN rows' : rows'[j].linked => job'.of = j
    BY <1>1, <1>3, <1>4, <1>10 DEF RemoteInv, JobsInv
  <2>3. \A j \in DOMAIN rows' : rows'[j].st = "completed" => job'.of = j /\ video'.keyed
    BY <1>1, <1>3, <1>4, <1>10 DEF RemoteInv, JobsInv
  <2>5. fetch'.pc \in FetchWorks => rows'[job'.of].st # "completed"
    BY <1>1, <1>4, RemoteKnown DEF FetchWorks
  <2>6. /\ job'.of = 0 => job'.task.st = "none" /\ fetch'.pc = "idle"
        /\ fetch'.pc = "imported" => video'.keyed
    BY <1>1 DEF RemoteInv, JobsInv
  <2> QED
    BY <2>1, <2>2, <2>3, <2>5, <2>6 DEF JobsInv
<1>15. RequestsInv'
  BY <1>1, <1>10 DEF RemoteInv, RequestsInv, requestVars
<1>14. CreatesInv'
  <2>1. \A i, j \in Rows' \ resaved' : i = j
    BY <1>11
  <2>2. ASSUME NEW d \in Creators, d # c
        PROVE  /\ creators'[d].pc \notin {"row", "enqueue", "link"}
               /\ creators'[d].pc = "answered"
                  => /\ creators'[d].row \in DOMAIN rows'
                     /\ creators'[d].row \notin Rows' \ resaved'
    <3>1. creators'[d] = creators[d] /\ creators[d].pc \notin {"row", "enqueue", "link"}
      BY <1>7, <1>9, <2>2
    <3>2. creators[d].pc = "answered" => creators[d].row \in DOMAIN rows
      BY DEF RemoteInv, CreatesInv
    <3> QED
      BY <1>10, <1>11, <3>1, <3>2
  <2>3. creators'[c].pc = "enqueue" /\ creators'[c].row \in DOMAIN rows' /\ ~ creators'[c].linked /\ createMu' = {c}
    BY <1>1, <1>6, <1>7, <1>8, <1>10
  <2> QED
    BY <2>1, <2>2, <2>3 DEF CreatesInv
<1> QED
  BY <1>12, <1>13, <1>14, <1>15 DEF RemoteInv

LEMMA EnqueueKeeps ==
    ASSUME RemoteInv, NEW c \in Creators, RemoteEnqueue(c)
    PROVE  RemoteInv'
<1> DEFINE i == creators[c].row
<1>1. creators[c].pc = "enqueue" /\ UNCHANGED <<rows, video, fetch, requestVars, resaved>>
  BY DEF RemoteEnqueue
<1>2. /\ createMu = {c} /\ i \in DOMAIN rows /\ i # 0
      /\ creators[c].linked /\ i \in Rows \ resaved => rows[i].linked
  BY <1>1, RemoteKnown DEF RemoteInv, CreatesInv
<1>3. \A d \in Creators : d # c => creators[d].pc \notin {"row", "enqueue", "link"}
  BY <1>2, OthersWait
<1>4. ASSUME NEW pc \in {"answered", "refused", "link"}, creators' = [creators EXCEPT ![c].pc = pc],
             job' \in JobRows, JobsInv', createMu' = {c} \/ pc # "link",
             pc = "answered" /\ i \in Rows \ resaved => rows[i].linked, pc = "link" => job'.of = i,
             RequestsInv'
      PROVE  RemoteInv'
  <2> DEFINE r == [creators[c] EXCEPT !.pc = pc]
  <2>1. r \in CreateRows /\ r.pc = pc /\ r.row = i /\ creators' = [creators EXCEPT ![c] = r]
    BY <1>4, CreatorRow DEF CreatePcs
  <2> HIDE DEF r
  <2>2. /\ creators' \in [Creators -> CreateRows] /\ creators'[c] = r
        /\ \A d \in Creators : d # c => creators'[d] = creators[d]
    BY <2>1, CreatorMoves
  <2>3. RemoteShape'
    BY <1>1, <1>4, <2>2 DEF RemoteInv, RemoteShape
  <2>4. CreatesInv'
    BY <1>1, <1>2, <1>3, <1>4, <2>1, <2>2 DEF RemoteInv, CreatesInv, Rows
  <2> QED
    BY <1>4, <2>3, <2>4 DEF RemoteInv
<1>5. ASSUME job' = job PROVE job' \in JobRows /\ JobsInv' /\ RequestsInv'
  BY <1>1, <1>5 DEF RemoteInv, RemoteShape, JobsInv, RequestsInv, requestVars
<1>6. CASE creators[c].linked /\ CreateLeaves(c, "answered") /\ job' = job
  BY <1>2, <1>4, <1>5, <1>6 DEF CreateLeaves
<1>7. CASE CreateLeaves(c, "refused") /\ job' = job
  BY <1>4, <1>5, <1>7 DEF CreateLeaves
<1>8. CASE /\ job.of \in {0, i} /\ creators' = [creators EXCEPT ![c].pc = "link"] /\ createMu' = createMu
           /\ job' = IF job.of = 0 THEN [task |-> NewTaskRow, of |-> i] ELSE job
  <2>1. CASE job.of # 0
    BY <1>2, <1>4, <1>5, <1>8, <2>1
  <2>2. CASE job.of = 0
    <3>0. i \in Nat /\ i \in 0..Len(rows)
      BY <1>2, RemoteKnown
    <3>1. job' = [task |-> NewTaskRow, of |-> i] /\ NewTaskRow \in TaskRows
      BY <1>8, <2>2, TaskNames
    <3> HIDE DEF NewTaskRow, i
    <3>2. job' \in JobRows /\ job'.of = i
      BY <3>0, <3>1 DEF JobRows
    <3>3. /\ fetch.pc = "idle"
          /\ \A j \in DOMAIN rows : ~ rows[j].linked /\ rows[j].st # "completed"
      BY <2>2, RemoteKnown
    <3>4. JobsInv'
      BY <1>1, <1>2, <3>0, <3>2, <3>3 DEF RemoteInv, JobsInv, FetchWorks
    <3>5. RequestsInv'
      <4>1. canceling.pc # "idle" => canceling.row \in DOMAIN rows /\ canceling.row # 0
        BY RemoteKnown DEF RemoteInv, RequestsInv
      <4> QED
        BY <1>1, <2>2, <4>1 DEF RemoteInv, RequestsInv, requestVars
    <3> QED
      BY <1>2, <1>4, <1>8, <3>2, <3>4, <3>5 DEF i
  <2> QED
    BY <2>1, <2>2
<1> QED
  BY <1>6, <1>7, <1>8, Zenon DEF RemoteEnqueue

LEMMA LinkKeeps ==
    ASSUME RemoteInv, NEW c \in Creators, LinkJob(c)
    PROVE  RemoteInv'
<1> DEFINE i == creators[c].row
           r == [creators[c] EXCEPT !.pc = "answered"]
           s == rows[i].st
<1>1. /\ creators[c].pc = "link" /\ UpdateRow(i, s, TRUE)
      /\ creators' = [creators EXCEPT ![c] = r] /\ createMu' = {}
      /\ UNCHANGED <<job, video, fetch, requestVars>>
  BY DEF LinkJob, CreateLeaves, Nobody
<1>2. createMu = {c} /\ i \in DOMAIN rows /\ job.of = i
  BY <1>1 DEF RemoteInv, CreatesInv
<1>3. \A d \in Creators : d # c => creators[d].pc \notin {"row", "enqueue", "link"}
  BY <1>2, OthersWait
<1>4. r \in CreateRows /\ r.pc = "answered" /\ r.row = i
  BY CreatorRow DEF CreatePcs
<1>5. s \in RemoteStatuses
  BY <1>2, RemoteKnown
<1>6. Written(i, s, TRUE) /\ resaved' = resaved /\ (i \in Rows => rows'[i].linked)
  <2>1. Written(i, s, TRUE)
    BY <1>1, <1>2, <1>5, RowWritten, RemoteKnown
  <2>2. i \in Rows => rows' = [rows EXCEPT ![i] = [st |-> s, linked |-> TRUE]]
    BY <1>1 DEF UpdateRow
  <2> QED
    BY <1>1, <1>2, <2>1, <2>2 DEF UpdateRow
<1> HIDE DEF r, i, s
<1>7. /\ DOMAIN rows' = DOMAIN rows /\ rows' \in Seq(DownloadRow) /\ Len(rows') = Len(rows)
      /\ \A j \in DOMAIN rows : rows'[j].st = rows[j].st /\ (rows[j].linked => rows'[j].linked)
      /\ \A j \in DOMAIN rows : j # i => rows'[j].linked = rows[j].linked
  BY <1>2, <1>6 DEF Written, s
<1>8. /\ creators' \in [Creators -> CreateRows] /\ creators'[c] = r
      /\ \A d \in Creators : d # c => creators'[d] = creators[d]
  BY <1>1, <1>4, CreatorMoves
<1>9. RemoteShape'
  BY <1>1, <1>7, <1>8 DEF RemoteInv, RemoteShape
<1>10. JobsInv'
  BY <1>1, <1>2, <1>7, RemoteKnown DEF RemoteInv, JobsInv, FetchWorks
<1>11. Rows' = Rows
  BY <1>7 DEF Rows
<1>12. CreatesInv'
  BY <1>1, <1>2, <1>3, <1>4, <1>6, <1>7, <1>8, <1>11 DEF RemoteInv, CreatesInv
<1>13. RequestsInv'
  BY <1>1, <1>7, RequestsKept
<1> QED
  BY <1>9, <1>10, <1>12, <1>13 DEF RemoteInv

LEMMA RemoteStep == RemoteInv /\ [RemoteNext]_remoteVars => RemoteInv'
<1> SUFFICES ASSUME RemoteInv, [RemoteNext]_remoteVars PROVE RemoteInv'
  OBVIOUS
<1>1. CASE UNCHANGED remoteVars
  BY <1>1 DEF remoteVars, createVars, requestVars, RemoteInv, RemoteShape, JobsInv, RequestsInv,
     CreatesInv, Rows
<1>2. CASE RemoteNext
  BY <1>2, InspectKeeps, CreateRowKeeps, EnqueueKeeps, LinkKeeps, FetchBegins, FetchGoesOn, FetchEnds,
     CancelsKeep, RetriesKeep, DeletesKeep, StopsKeep, RemoteCrashes, Zenon DEF RemoteNext
<1> QED
  BY <1>1, <1>2

LEMMA RemoteInitial == RemoteInit => RemoteInv
<1> SUFFICES ASSUME RemoteInit PROVE RemoteInv
  OBVIOUS
<1>1. /\ NoFetch \in FetchRows /\ NoFetch.pc = "idle" /\ NoCreate \in CreateRows /\ NoCreate.pc = "idle"
  BY DEF NoFetch, NoCreate, FetchRows, FetchPcs, CreateRows, CreatePcs
<1>2. [task |-> NoTaskRow, of |-> 0] \in JobRows /\ NoTaskRow.st = "none"
  BY TaskNames DEF JobRows
<1> HIDE DEF NoFetch, NoCreate, NoTaskRow
<1>3. /\ rows = <<>> /\ job = [task |-> NoTaskRow, of |-> 0] /\ video = [keyed |-> FALSE, loose |-> FALSE]
      /\ fetch = NoFetch /\ creators = [c \in Creators |-> NoCreate]
      /\ canceling = NoCancel /\ retrying = NoRetry /\ deleting = 0
  BY DEF RemoteInit
<1>4. RemoteShape
  BY <1>1, <1>2, <1>3 DEF RemoteShape, VideoRows
<1>5. DOMAIN rows = {} /\ Len(rows) = 0 /\ Rows = {}
  BY <1>3 DEF Rows
<1>6. JobsInv
  BY <1>1, <1>2, <1>3, <1>5 DEF JobsInv, FetchWorks
<1>7. CreatesInv
  BY <1>1, <1>3, <1>5 DEF CreatesInv
<1>8. RequestsInv
  BY <1>3, NoRequests DEF RequestsInv
<1> QED
  BY <1>4, <1>6, <1>7, <1>8 DEF RemoteInv

LEMMA RemoteAlways == RemoteSpec => []RemoteInv
  BY RemoteInitial, RemoteStep, PTL DEF RemoteSpec

(* A client may replay its request at any time, while the first still runs, *)
(* after a crash between its writes, or beside requests that cancel, retry  *)
(* and delete under the handler: there is one download for the URL but for  *)
(* those a stale Save wrote back, an answered request left it with a job    *)
(* that is its own, and no download is linked to the job of another.        *)
THEOREM ReplaysMakeOneDownload == RemoteSpec => []ReplayKeepsBatch
<1>1. RemoteInv => ReplayKeepsBatch
  BY DEF RemoteInv, JobsInv, CreatesInv, ReplayKeepsBatch, Rows
<1> QED
  BY <1>1, RemoteAlways, PTL

(* A download that says it is completed has its video: a cancellation or a  *)
(* timeout that arrives while the import commits takes the video only from  *)
(* a row that is not completed, deleted meanwhile or not.                   *)
THEOREM CompletedDownloadsHaveTheirVideo == RemoteSpec => []CompletedHasVideo
<1>1. RemoteInv => CompletedHasVideo
  BY DEF RemoteInv, JobsInv, CompletedHasVideo, Rows
<1> QED
  BY <1>1, RemoteAlways, PTL

-----------------------------------------------------------------------------
(* The encodings.  An artifact is tidy when no task of it was retried by    *)
(* hand, no two of its tasks were ever open at once and no listener saved   *)
(* its row after the handler had returned: only for these is the order of   *)
(* the jobs the order in which they worked on the row.                      *)
EncodeKeys == UNION {[S -> Nat] : S \in SUBSET Artifacts}
ArtifactRow == [encoding : BOOLEAN, ready : BOOLEAN, failed : BOOLEAN, ref : Nat]
EncodePcs == {"idle", "claimed", "load", "ffmpeg", "publish", "complete", "after"}
EncodeRow == [pc : EncodePcs, row : ArtifactRow, ctx : {"live", "canceled", "interrupted"},
              err : {"ok", "transient", "permanent"}]
EncodeJob == [key : EncodeKeys, tasks : [Artifacts -> TaskRows]]
ReconcileRow == [pc : {"idle", "enqueue", "refer"}, pending : SUBSET Artifacts, key : EncodeKeys,
                 job : Nat]

Tidy(a) == a \notin retried \cup doubled
HasTask(m, a) == JobExists(m) /\ EncodeTask(m, a).st # "none"
DoneTask(m, a) == JobExists(m) /\ EncodeTask(m, a).st = "succeeded"
Keyed(m, a) == JobExists(m) /\ a \in DOMAIN encodeJobs[m].key
KeyOf(m, a) == encodeJobs[m].key[a]
SameKeyed(m) == JobExists(m) /\ encodeJobs[m].key = reconcile.key
Waits(a) == reconcile.pc = "enqueue" /\ a \in reconcile.pending
Refers(a) == reconcile.pc = "refer" /\ HasTask(reconcile.job, a)
Marked(j, a) == encodes[j][a].pc \in {"load", "ffmpeg", "publish", "complete", "after"}
Loaded(j, a) == HasLoaded(encodes[j][a])
RefOf(a) == artifact[a].ref
LoadedRef(j, a) == encodes[j][a].row.ref

EncodeShape ==
    /\ artifact \in [Artifacts -> ArtifactRow]
    /\ encodeJobs \in Seq(EncodeJob) /\ Len(encodeJobs) <= MaxEncodeJobs
    /\ encodes \in [JobNumbers -> [Artifacts -> EncodeRow]]
    /\ reconcile \in ReconcileRow

(* Keys, tasks and handlers belong together: a key names the tasks of its   *)
(* job, and earlier jobs only.                                              *)
KeysOK ==
    /\ \A m \in 1..Len(encodeJobs), a \in Artifacts :
        /\ Keyed(m, a) => KeyOf(m, a) < m /\ HasTask(m, a)
        /\ HasTask(m, a) /\ DOMAIN encodeJobs[m].key # {} => Keyed(m, a)
    /\ reconcile.pc # "idle" => DOMAIN reconcile.key = reconcile.pending /\ reconcile.pending # {}
    /\ reconcile.pc = "refer" => JobExists(reconcile.job)
    /\ \A a \in Artifacts :
        /\ Refers(a) => SameKeyed(reconcile.job)
        /\ Waits(a) => reconcile.key[a] <= Len(encodeJobs)
        /\ RefOf(a) <= Len(encodeJobs)
    /\ \A j \in JobNumbers, a \in Artifacts :
        /\ encodes[j][a].pc # "idle" => LiveTask(j, a) /\ EncodeTask(j, a).st \in Under
        /\ LoadedRef(j, a) <= Len(encodeJobs)

(* The references of a tidy artifact: an open task is of its latest job and *)
(* no reference lies beyond it, no reference falls behind a key that was    *)
(* made for the artifact, and what a handler loaded is no older than what   *)
(* is recorded.                                                             *)
RefsKept(a) ==
    /\ \A j, m \in 1..Len(encodeJobs) : LiveTask(j, a) /\ HasTask(m, a) => m <= j
    /\ \A j \in 1..Len(encodeJobs) :
        LiveTask(j, a) => RefOf(a) <= j /\ (Waits(a) => reconcile.key[a] <= j)
    /\ Waits(a) => reconcile.key[a] <= RefOf(a)
    /\ \A m \in 1..Len(encodeJobs) : Keyed(m, a) =>
        /\ KeyOf(m, a) <= RefOf(a)
        /\ Waits(a) \/ Refers(a) => KeyOf(m, a) <= reconcile.key[a]
    /\ \A j \in JobNumbers : Marked(j, a) =>
        /\ RefOf(a) # 0
        /\ \A m \in 1..Len(encodeJobs) : Keyed(m, a) => KeyOf(m, a) < RefOf(a)
        /\ \A m \in 1..Len(encodeJobs) : Waits(a) /\ SameKeyed(m) => m <= RefOf(a)
        /\ Refers(a) => reconcile.job <= RefOf(a)
        /\ Loaded(j, a) => RefOf(a) <= LoadedRef(j, a) /\ LoadedRef(j, a) <= j

(* A task that succeeded left its artifact ready.  While the artifact is    *)
(* not ready, or while another task may still change that, nothing refers   *)
(* or will refer to the one that succeeded.                                 *)
DoneKept(a) ==
    /\ \A m \in 1..Len(encodeJobs) : DoneTask(m, a) =>
        /\ RefOf(a) # 0
        /\ Keyed(m, a) => KeyOf(m, a) < RefOf(a)
        /\ ~ artifact[a].ready \/ (\E j \in 1..Len(encodeJobs) : LiveTask(j, a)) =>
            /\ Waits(a) => ~ SameKeyed(m)
            /\ Refers(a) => reconcile.job # m
        /\ ~ artifact[a].ready => RefOf(a) # m
        /\ \A j \in JobNumbers : Marked(j, a) =>
            RefOf(a) # m /\ (Loaded(j, a) => LoadedRef(j, a) # m)
    /\ \A j \in JobNumbers :
        encodes[j][a].pc = "after" /\ encodes[j][a].err = "ok" =>
            artifact[a].ready /\ encodes[j][a].row.ready

EncodeInv ==
    /\ EncodeShape /\ KeysOK
    /\ \A a \in Artifacts : Tidy(a) => RefsKept(a) /\ DoneKept(a)

LEMMA NoKey0 == <<>> \in EncodeKeys
<1>1. <<>> \in [{} -> Nat]
  OBVIOUS
<1> QED
  BY <1>1 DEF EncodeKeys

LEMMA EncodeKnown ==
    ASSUME EncodeShape
    PROVE  /\ Len(encodeJobs) \in Nat /\ DOMAIN encodeJobs = 1..Len(encodeJobs)
           /\ \A m : JobExists(m) <=> m \in 1..Len(encodeJobs)
           /\ \A m \in 1..Len(encodeJobs) : encodeJobs[m] \in EncodeJob /\ m \in JobNumbers
           /\ \A m \in 1..Len(encodeJobs), a \in Artifacts : EncodeTask(m, a) \in TaskRows
           /\ \A m \in 1..Len(encodeJobs) : encodeJobs[m].tasks \in [Artifacts -> TaskRows]
           /\ \A j \in JobNumbers, a \in Artifacts : encodes[j][a] \in EncodeRow
           /\ \A a \in Artifacts : artifact[a] \in ArtifactRow
<1>1. Len(encodeJobs) \in Nat /\ DOMAIN encodeJobs = 1..Len(encodeJobs)
  BY DEF EncodeShape
<1>2. \A m \in 1..Len(encodeJobs) : encodeJobs[m] \in EncodeJob
  BY <1>1 DEF EncodeShape
<1>3. \A m \in 1..Len(encodeJobs) : encodeJobs[m].tasks \in [Artifacts -> TaskRows]
  BY <1>2 DEF EncodeJob
<1>4. \A m \in 1..Len(encodeJobs) : m \in JobNumbers
  BY <1>1, EncodingAssumption DEF EncodeShape, JobNumbers
<1>5. \A m \in 1..Len(encodeJobs), a \in Artifacts : EncodeTask(m, a) \in TaskRows
  BY <1>3 DEF EncodeTask
<1>6. \A j \in JobNumbers, a \in Artifacts : encodes[j][a] \in EncodeRow
  BY DEF EncodeShape
<1>7. \A a \in Artifacts : artifact[a] \in ArtifactRow
  BY DEF EncodeShape
<1> QED
  BY <1>1, <1>2, <1>3, <1>4, <1>5, <1>6, <1>7 DEF JobExists

(* One task row changes.                                                    *)
LEMMA TaskChange ==
    ASSUME EncodeShape, NEW j \in 1..Len(encodeJobs), NEW a \in Artifacts, NEW t \in TaskRows,
           encodeJobs' = [encodeJobs EXCEPT ![j].tasks[a] = t]
    PROVE  /\ encodeJobs' \in Seq(EncodeJob) /\ Len(encodeJobs') = Len(encodeJobs)
           /\ \A m \in 1..Len(encodeJobs) : encodeJobs'[m].key = encodeJobs[m].key
           /\ \A m \in 1..Len(encodeJobs), b \in Artifacts :
                encodeJobs'[m].tasks[b] = IF m = j /\ b = a THEN t ELSE encodeJobs[m].tasks[b]
<1> DEFINE ts == [encodeJobs[j].tasks EXCEPT ![a] = t]
           r == [encodeJobs[j] EXCEPT !.tasks = ts]
<1>1. encodeJobs' = [encodeJobs EXCEPT ![j] = r]
  OBVIOUS
<1>2. encodeJobs[j] \in EncodeJob /\ encodeJobs[j].tasks \in [Artifacts -> TaskRows]
  BY EncodeKnown
<1>3. ts \in [Artifacts -> TaskRows] /\ \A b \in Artifacts : ts[b] = IF b = a THEN t ELSE encodeJobs[j].tasks[b]
  BY <1>2
<1> HIDE DEF ts
<1>4. r \in EncodeJob /\ r.key = encodeJobs[j].key /\ r.tasks = ts
  BY <1>2, <1>3 DEF EncodeJob
<1> HIDE DEF r
<1>0. encodeJobs \in Seq(EncodeJob) /\ DOMAIN encodeJobs = 1..Len(encodeJobs) /\ Len(encodeJobs) \in Nat
  BY EncodeKnown DEF EncodeShape
<1>5. encodeJobs' \in Seq(EncodeJob) /\ Len(encodeJobs') = Len(encodeJobs)
  BY <1>0, <1>1, <1>4
<1>6. encodeJobs'[j] = r /\ \A m \in 1..Len(encodeJobs) : m # j => encodeJobs'[m] = encodeJobs[m]
  BY <1>0, <1>1
<1>7. ASSUME NEW m \in 1..Len(encodeJobs)
      PROVE  /\ encodeJobs'[m].key = encodeJobs[m].key
             /\ \A b \in Artifacts : encodeJobs'[m].tasks[b] = IF m = j /\ b = a THEN t ELSE encodeJobs[m].tasks[b]
  <2>1. CASE m = j
    BY <1>3, <1>4, <1>6, <2>1
  <2>2. CASE m # j
    BY <1>6, <2>2
  <2> QED
    BY <2>1, <2>2
<1> QED
  BY <1>5, <1>7

(* One handler changes.                                                     *)
LEMMA EncodeChange ==
    ASSUME EncodeShape, NEW j \in JobNumbers, NEW a \in Artifacts, NEW e \in EncodeRow,
           encodes' = [encodes EXCEPT ![j][a] = e]
    PROVE  /\ encodes' \in [JobNumbers -> [Artifacts -> EncodeRow]]
           /\ \A i \in JobNumbers, b \in Artifacts :
                encodes'[i][b] = IF i = j /\ b = a THEN e ELSE encodes[i][b]
<1> DEFINE es == [encodes[j] EXCEPT ![a] = e]
<1>1. encodes' = [encodes EXCEPT ![j] = es]
  OBVIOUS
<1>2. encodes \in [JobNumbers -> [Artifacts -> EncodeRow]] /\ encodes[j] \in [Artifacts -> EncodeRow]
  BY DEF EncodeShape
<1>3. es \in [Artifacts -> EncodeRow] /\ \A b \in Artifacts : es[b] = IF b = a THEN e ELSE encodes[j][b]
  BY <1>2
<1> HIDE DEF es
<1> QED
  BY <1>1, <1>2, <1>3

(* What one step of one handler changes: its task, itself and its artifact. *)
HandlerStep(j, a, t, e, r) ==
    /\ encodeJobs' = [encodeJobs EXCEPT ![j].tasks[a] = t]
    /\ encodes' = [encodes EXCEPT ![j][a] = e]
    /\ artifact' = [artifact EXCEPT ![a] = r]
    /\ UNCHANGED <<reconcile, retried, doubled>>

(* The rows after it.                                                       *)
HandlerStepped(j, a, t, e, r) ==
    /\ EncodeShape' /\ UNCHANGED <<reconcile, retried, doubled>>
    /\ Len(encodeJobs') = Len(encodeJobs)
    /\ \A m \in 1..Len(encodeJobs) : encodeJobs'[m].key = encodeJobs[m].key
    /\ \A m \in 1..Len(encodeJobs), b \in Artifacts :
        encodeJobs'[m].tasks[b] = IF m = j /\ b = a THEN t ELSE encodeJobs[m].tasks[b]
    /\ \A i \in JobNumbers, b \in Artifacts :
        encodes'[i][b] = IF i = j /\ b = a THEN e ELSE encodes[i][b]
    /\ \A b \in Artifacts : artifact'[b] = IF b = a THEN r ELSE artifact[b]

LEMMA HandlerChanges ==
    ASSUME EncodeShape, NEW j \in 1..Len(encodeJobs), NEW a \in Artifacts, NEW t \in TaskRows,
           NEW e \in EncodeRow, NEW r \in ArtifactRow, HandlerStep(j, a, t, e, r)
    PROVE  HandlerStepped(j, a, t, e, r)
<1>1. j \in JobNumbers
  BY EncodeKnown
<1>2. /\ artifact' \in [Artifacts -> ArtifactRow]
      /\ \A b \in Artifacts : artifact'[b] = IF b = a THEN r ELSE artifact[b]
  BY DEF HandlerStep, EncodeShape
<1>3. /\ encodes' \in [JobNumbers -> [Artifacts -> EncodeRow]]
      /\ \A i \in JobNumbers, b \in Artifacts : encodes'[i][b] = IF i = j /\ b = a THEN e ELSE encodes[i][b]
  BY <1>1, EncodeChange DEF HandlerStep
<1>4. /\ encodeJobs' \in Seq(EncodeJob) /\ Len(encodeJobs') = Len(encodeJobs)
      /\ \A m \in 1..Len(encodeJobs) : encodeJobs'[m].key = encodeJobs[m].key
      /\ \A m \in 1..Len(encodeJobs), b \in Artifacts :
           encodeJobs'[m].tasks[b] = IF m = j /\ b = a THEN t ELSE encodeJobs[m].tasks[b]
  BY TaskChange DEF HandlerStep
<1>5. EncodeShape'
  BY <1>2, <1>3, <1>4 DEF EncodeShape, HandlerStep
<1> QED
  BY <1>2, <1>3, <1>4, <1>5 DEF HandlerStepped, HandlerStep

(* What a tidy artifact keeps is kept by a step that leaves its references  *)
(* and its readiness alone, makes no task and opens, ends well or starts    *)
(* nothing for it.                                                          *)
SameJobs ==
    /\ Len(encodeJobs') = Len(encodeJobs)
    /\ \A m \in 1..Len(encodeJobs) : encodeJobs'[m].key = encodeJobs[m].key

QuietFor(a) ==
    /\ RefOf(a)' = RefOf(a) /\ artifact'[a].ready = artifact[a].ready
    /\ reconcile' = reconcile \/ reconcile'.pc = "idle"
    /\ \A m \in 1..Len(encodeJobs) : /\ (HasTask(m, a)' <=> HasTask(m, a))
                                     /\ LiveTask(m, a)' => LiveTask(m, a)
                                     /\ DoneTask(m, a)' => DoneTask(m, a)
    /\ \A j \in JobNumbers :
        /\ Marked(j, a)' => Marked(j, a)
        /\ Loaded(j, a)' => Loaded(j, a) /\ LoadedRef(j, a)' = LoadedRef(j, a)
        /\ encodes'[j][a].pc = "after" /\ encodes'[j][a].err = "ok" =>
               /\ encodes[j][a].pc = "after" /\ encodes[j][a].err = "ok"
               /\ encodes'[j][a].row = encodes[j][a].row

LEMMA KeysStay ==
    ASSUME SameJobs, EncodeShape
    PROVE  /\ \A m : (JobExists(m)' <=> JobExists(m))
           /\ \A m \in 1..Len(encodeJobs) :
                /\ encodeJobs'[m].key = encodeJobs[m].key
                /\ reconcile' = reconcile => (SameKeyed(m)' <=> SameKeyed(m))
           /\ \A a : \A m \in 1..Len(encodeJobs) : (Keyed(m, a)' <=> Keyed(m, a)) /\ KeyOf(m, a)' = KeyOf(m, a)
  BY DEF SameJobs, JobExists, SameKeyed, Keyed, KeyOf

LEMMA RefersHas ==
    ASSUME EncodeShape, KeysOK, NEW a
    PROVE  Refers(a) => reconcile.job \in 1..Len(encodeJobs) /\ HasTask(reconcile.job, a)
  BY DEF Refers, HasTask, JobExists

LEMMA Quiet ==
    ASSUME EncodeShape, KeysOK, SameJobs, NEW a \in Artifacts, RefsKept(a), DoneKept(a), QuietFor(a)
    PROVE  RefsKept(a)' /\ DoneKept(a)'
<1>1. \A m \in 1..Len(encodeJobs) :
        /\ (HasTask(m, a)' <=> HasTask(m, a)) /\ (LiveTask(m, a)' => LiveTask(m, a))
        /\ (DoneTask(m, a)' => DoneTask(m, a))
        /\ (Keyed(m, a)' <=> Keyed(m, a)) /\ KeyOf(m, a)' = KeyOf(m, a)
  BY KeysStay DEF QuietFor
<1>2. /\ Waits(a)' => Waits(a) /\ reconcile' = reconcile
      /\ Refers(a)' => Refers(a) /\ reconcile' = reconcile
  <2>1. Waits(a)' => reconcile' = reconcile
    BY DEF Waits, QuietFor
  <2>2. Refers(a)' => reconcile' = reconcile
    BY DEF Refers, QuietFor
  <2>3. ASSUME reconcile' = reconcile PROVE Waits(a)' => Waits(a)
    BY <2>3 DEF Waits
  <2>4. ASSUME reconcile' = reconcile, Refers(a)' PROVE Refers(a)
    <3>1. PICK m \in 1..Len(encodeJobs) : m = reconcile.job
      BY <2>4, KeysStay DEF Refers, HasTask, JobExists
    <3>2. HasTask(m, a)'
      BY <2>4, <3>1 DEF Refers, HasTask, JobExists, EncodeTask
    <3>3. HasTask(m, a)
      BY <1>1, <3>2
    <3> QED
      BY <2>4, <3>1, <3>3 DEF Refers
  <2> QED
    BY <2>1, <2>2, <2>3, <2>4
<1>3. \A m \in 1..Len(encodeJobs) : reconcile' = reconcile => (SameKeyed(m)' <=> SameKeyed(m))
  BY KeysStay
<1>4. Len(encodeJobs') = Len(encodeJobs)
  BY DEF SameJobs
<1>5. /\ RefOf(a)' = RefOf(a) /\ artifact'[a].ready = artifact[a].ready
      /\ \A j \in JobNumbers :
          /\ Marked(j, a)' => Marked(j, a)
          /\ Loaded(j, a)' => Loaded(j, a) /\ LoadedRef(j, a)' = LoadedRef(j, a)
          /\ encodes'[j][a].pc = "after" /\ encodes'[j][a].err = "ok" =>
                 /\ encodes[j][a].pc = "after" /\ encodes[j][a].err = "ok"
                 /\ encodes'[j][a].row = encodes[j][a].row
  BY DEF QuietFor
<1>6. RefsKept(a)'
  BY <1>1, <1>2, <1>3, <1>4, <1>5 DEF RefsKept
<1>7. DoneKept(a)'
  BY <1>1, <1>2, <1>3, <1>4, <1>5 DEF DoneKept
<1> QED
  BY <1>6, <1>7

(* Keys, tasks and handlers go on belonging together.                       *)
LEMMA KeysGoOn ==
    ASSUME EncodeShape, KeysOK, SameJobs,
           \A m \in 1..Len(encodeJobs), a \in Artifacts : (HasTask(m, a)' <=> HasTask(m, a)),
           reconcile' = reconcile \/ reconcile'.pc = "idle",
           \A a \in Artifacts : RefOf(a)' <= Len(encodeJobs),
           \A j \in JobNumbers, a \in Artifacts :
               /\ encodes'[j][a].pc # "idle" => LiveTask(j, a)' /\ EncodeTask(j, a)'.st \in Under
               /\ LoadedRef(j, a)' <= Len(encodeJobs)
    PROVE  KeysOK'
<1>1. \A m \in 1..Len(encodeJobs), a \in Artifacts :
        (Keyed(m, a)' <=> Keyed(m, a)) /\ KeyOf(m, a)' = KeyOf(m, a) /\ (HasTask(m, a)' <=> HasTask(m, a))
  BY KeysStay
<1>2. Len(encodeJobs') = Len(encodeJobs) /\ \A m \in 1..Len(encodeJobs) : encodeJobs'[m].key = encodeJobs[m].key
  BY DEF SameJobs
<1>3. \A m \in 1..Len(encodeJobs'), a \in Artifacts :
        /\ Keyed(m, a)' => KeyOf(m, a)' < m /\ HasTask(m, a)'
        /\ HasTask(m, a)' /\ DOMAIN encodeJobs'[m].key # {} => Keyed(m, a)'
  BY <1>1, <1>2 DEF KeysOK
<1>4. reconcile'.pc # "idle" => reconcile' = reconcile
  OBVIOUS
<1>5. reconcile'.pc # "idle" => DOMAIN reconcile'.key = reconcile'.pending /\ reconcile'.pending # {}
  BY <1>4 DEF KeysOK
<1>6. reconcile'.pc = "refer" => JobExists(reconcile.job)' /\ reconcile' = reconcile /\ JobExists(reconcile.job)
  BY <1>4, KeysStay DEF KeysOK, JobExists
<1>7. ASSUME NEW a \in Artifacts, Refers(a)' PROVE SameKeyed(reconcile.job)'
  <2>1. reconcile' = reconcile /\ JobExists(reconcile.job)
    BY <1>6, <1>7 DEF Refers
  <2>2. PICK m \in 1..Len(encodeJobs) : m = reconcile.job
    BY <2>1 DEF JobExists
  <2>3. HasTask(m, a)'
    BY <1>7, <2>1, <2>2 DEF Refers, HasTask, JobExists, EncodeTask
  <2>4. Refers(a)
    BY <1>1, <1>7, <2>1, <2>2, <2>3 DEF Refers
  <2>5. SameKeyed(reconcile.job)
    BY <2>4 DEF KeysOK
  <2> QED
    BY <1>2, <2>1, <2>2, <2>5 DEF SameKeyed, JobExists
<1>8. \A a \in Artifacts : Waits(a)' => reconcile'.key[a] <= Len(encodeJobs')
  BY <1>2, <1>4 DEF Waits, KeysOK
<1> QED
  BY <1>2, <1>3, <1>5, <1>6, <1>7, <1>8 DEF KeysOK

(* A step of the handler of task a of job j, seen from an artifact b.       *)
StepSeen(j, a, t, e, r, b) ==
    /\ \A m \in 1..Len(encodeJobs) :
        /\ m = j /\ b = a => /\ (HasTask(m, b)' <=> (t.st # "none"))
                             /\ (LiveTask(m, b)' <=> (t.st \in TaskOpen))
                             /\ (DoneTask(m, b)' <=> (t.st = "succeeded"))
        /\ m # j \/ b # a => /\ (HasTask(m, b)' <=> HasTask(m, b))
                             /\ (LiveTask(m, b)' <=> LiveTask(m, b))
                             /\ (DoneTask(m, b)' <=> DoneTask(m, b))
    /\ \A i \in JobNumbers :
        /\ i = j /\ b = a => /\ encodes'[i][b] = e /\ LoadedRef(i, b)' = e.row.ref
                             /\ (Marked(i, b)' <=> (e.pc \in {"load", "ffmpeg", "publish", "complete", "after"}))
                             /\ (Loaded(i, b)' <=> HasLoaded(e))
        /\ i # j \/ b # a => /\ encodes'[i][b] = encodes[i][b] /\ LoadedRef(i, b)' = LoadedRef(i, b)
                             /\ (Marked(i, b)' <=> Marked(i, b)) /\ (Loaded(i, b)' <=> Loaded(i, b))
    /\ b = a => RefOf(b)' = r.ref /\ artifact'[b].ready = r.ready
    /\ b # a => RefOf(b)' = RefOf(b) /\ artifact'[b].ready = artifact[b].ready

LEMMA StepsSeen ==
    ASSUME EncodeShape, NEW j \in 1..Len(encodeJobs), NEW a \in Artifacts, NEW t, NEW e, NEW r,
           HandlerStepped(j, a, t, e, r), NEW b \in Artifacts
    PROVE  StepSeen(j, a, t, e, r, b) /\ SameJobs
<1>1. \A m \in 1..Len(encodeJobs) :
        /\ JobExists(m)' /\ JobExists(m)
        /\ EncodeTask(m, b)' = IF m = j /\ b = a THEN t ELSE EncodeTask(m, b)
  BY DEF HandlerStepped, JobExists, EncodeTask
<1>2. \A m \in 1..Len(encodeJobs) :
        /\ m = j /\ b = a => /\ (HasTask(m, b)' <=> (t.st # "none"))
                             /\ (LiveTask(m, b)' <=> (t.st \in TaskOpen))
                             /\ (DoneTask(m, b)' <=> (t.st = "succeeded"))
        /\ m # j \/ b # a => /\ (HasTask(m, b)' <=> HasTask(m, b))
                             /\ (LiveTask(m, b)' <=> LiveTask(m, b))
                             /\ (DoneTask(m, b)' <=> DoneTask(m, b))
  BY <1>1 DEF HasTask, LiveTask, DoneTask
<1>3. \A i \in JobNumbers : encodes'[i][b] = IF i = j /\ b = a THEN e ELSE encodes[i][b]
  BY DEF HandlerStepped
<1>4. \A i \in JobNumbers :
        /\ i = j /\ b = a => /\ encodes'[i][b] = e /\ LoadedRef(i, b)' = e.row.ref
                             /\ (Marked(i, b)' <=> (e.pc \in {"load", "ffmpeg", "publish", "complete", "after"}))
                             /\ (Loaded(i, b)' <=> HasLoaded(e))
        /\ i # j \/ b # a => /\ encodes'[i][b] = encodes[i][b] /\ LoadedRef(i, b)' = LoadedRef(i, b)
                             /\ (Marked(i, b)' <=> Marked(i, b)) /\ (Loaded(i, b)' <=> Loaded(i, b))
  BY <1>3 DEF LoadedRef, Marked, Loaded
<1>5. artifact'[b] = IF b = a THEN r ELSE artifact[b]
  BY DEF HandlerStepped
<1>6. /\ b = a => RefOf(b)' = r.ref /\ artifact'[b].ready = r.ready
      /\ b # a => RefOf(b)' = RefOf(b) /\ artifact'[b].ready = artifact[b].ready
  BY <1>5 DEF RefOf
<1>7. SameJobs
  BY DEF HandlerStepped, SameJobs
<1> QED
  BY <1>2, <1>4, <1>6, <1>7 DEF StepSeen

(* What a step has to show of its own artifact.                             *)
LEMMA StepKeeps ==
    ASSUME EncodeInv, NEW j \in 1..Len(encodeJobs), NEW a \in Artifacts, NEW t \in TaskRows,
           NEW e \in EncodeRow, NEW r \in ArtifactRow, HandlerStep(j, a, t, e, r),
           t.st # "none", HasTask(j, a), e.pc # "idle" => t.st \in Under,
           e.row.ref <= Len(encodeJobs), r.ref <= Len(encodeJobs),
           Tidy(a) /\ HandlerStepped(j, a, t, e, r) => RefsKept(a)' /\ DoneKept(a)'
    PROVE  EncodeInv'
<1>0. EncodeShape /\ KeysOK
  BY DEF EncodeInv
<1>1. HandlerStepped(j, a, t, e, r)
  BY <1>0, HandlerChanges
<1>2. \A b \in Artifacts : StepSeen(j, a, t, e, r, b)
  BY <1>0, <1>1, StepsSeen
<1>3. SameJobs /\ reconcile' = reconcile /\ \A b \in Artifacts : (Tidy(b)' <=> Tidy(b))
  BY <1>1 DEF HandlerStepped, Tidy, SameJobs
<1>4. \A b \in Artifacts, m \in 1..Len(encodeJobs) : (HasTask(m, b)' <=> HasTask(m, b))
  BY <1>2 DEF StepSeen
<1>5. \A b \in Artifacts : RefOf(b)' <= Len(encodeJobs)
  BY <1>0, <1>2 DEF StepSeen, KeysOK
<1>6. ASSUME NEW i \in JobNumbers, NEW b \in Artifacts
      PROVE  /\ encodes'[i][b].pc # "idle" => LiveTask(i, b)' /\ EncodeTask(i, b)'.st \in Under
             /\ LoadedRef(i, b)' <= Len(encodeJobs)
  <2>1. CASE i = j /\ b = a
    <3>1. EncodeTask(j, a)' = t /\ JobExists(j)'
      BY <1>1 DEF HandlerStepped, EncodeTask, JobExists
    <3>2. encodes'[i][b] = e /\ LoadedRef(i, b)' = e.row.ref
      BY <1>2, <2>1 DEF StepSeen
    <3>3. t.st \in Under => t.st \in TaskOpen
      BY DEF Under, TaskOpen
    <3> QED
      BY <2>1, <3>1, <3>2, <3>3 DEF LiveTask
  <2>2. CASE i # j \/ b # a
    <3>1. encodes'[i][b] = encodes[i][b] /\ LoadedRef(i, b)' = LoadedRef(i, b)
      BY <1>2, <2>2 DEF StepSeen
    <3>2. encodes[i][b].pc # "idle" => LiveTask(i, b) /\ EncodeTask(i, b).st \in Under /\ i \in 1..Len(encodeJobs)
      BY <1>0 DEF KeysOK, LiveTask, JobExists
    <3>3. i \in 1..Len(encodeJobs) => EncodeTask(i, b)' = EncodeTask(i, b) /\ JobExists(i)'
      BY <1>1, <2>2 DEF HandlerStepped, EncodeTask, JobExists
    <3>4. LoadedRef(i, b) <= Len(encodeJobs)
      BY <1>0 DEF KeysOK
    <3> QED
      BY <3>1, <3>2, <3>3, <3>4 DEF LiveTask
  <2> QED
    BY <2>1, <2>2
<1>7. KeysOK'
  BY <1>0, <1>3, <1>4, <1>5, <1>6, KeysGoOn
<1>8. ASSUME NEW b \in Artifacts, Tidy(b)' PROVE RefsKept(b)' /\ DoneKept(b)'
  <2>1. Tidy(b) /\ RefsKept(b) /\ DoneKept(b)
    BY <1>3, <1>8 DEF EncodeInv
  <2>2. CASE b = a
    BY <1>1, <2>1, <2>2
  <2>3. CASE b # a
    <3>1. QuietFor(b)
      BY <1>2, <1>3, <2>3 DEF StepSeen, QuietFor
    <3> QED
      BY <1>0, <1>3, <2>1, <3>1, Quiet
  <2> QED
    BY <2>2, <2>3
<1>9. EncodeShape'
  BY <1>1 DEF HandlerStepped
<1> QED
  BY <1>7, <1>8, <1>9 DEF EncodeInv

(* A handler that is under way is the only one of its tidy artifact.        *)
LEMMA OnlyHandler ==
    ASSUME EncodeShape, KeysOK, NEW a \in Artifacts, RefsKept(a),
           NEW j \in JobNumbers, encodes[j][a].pc # "idle"
    PROVE  /\ j \in 1..Len(encodeJobs) /\ LiveTask(j, a) /\ HasTask(j, a) /\ ~ DoneTask(j, a)
           /\ \A m \in 1..Len(encodeJobs) : HasTask(m, a) => m <= j
           /\ \A m \in 1..Len(encodeJobs) : LiveTask(m, a) => m = j
           /\ \A i \in JobNumbers : encodes[i][a].pc # "idle" => i = j
           /\ \A i \in JobNumbers : Marked(i, a) => i = j
           /\ EncodeTask(j, a).st \in Under
<1>0. \A i \in JobNumbers : encodes[i][a].pc # "idle" =>
         i \in 1..Len(encodeJobs) /\ LiveTask(i, a) /\ EncodeTask(i, a).st \in Under
  BY DEF KeysOK, LiveTask, JobExists
<1>1. \A m \in 1..Len(encodeJobs) : LiveTask(m, a) => HasTask(m, a) /\ ~ DoneTask(m, a)
  BY DEF LiveTask, HasTask, DoneTask, TaskOpen
<1>2. \A i, m \in 1..Len(encodeJobs) : LiveTask(i, a) /\ HasTask(m, a) => m <= i
  BY DEF RefsKept
<1>3. \A i, m \in 1..Len(encodeJobs) : i <= m /\ m <= i => i = m
  BY EncodeKnown
<1>4. \A i \in JobNumbers : Marked(i, a) => encodes[i][a].pc # "idle"
  BY DEF Marked
<1> QED
  BY <1>0, <1>1, <1>2, <1>3, <1>4

(* The handler takes the row over, loads it, saves it, or ends well.        *)
LEMMA WaitingKey ==
    ASSUME EncodeShape, KeysOK, NEW a \in Artifacts, NEW m \in 1..Len(encodeJobs)
    PROVE  /\ Waits(a) /\ SameKeyed(m) => Keyed(m, a) /\ HasTask(m, a) /\ KeyOf(m, a) = reconcile.key[a]
           /\ Refers(a) => /\ reconcile.job \in 1..Len(encodeJobs) /\ HasTask(reconcile.job, a)
                           /\ Keyed(reconcile.job, a) /\ a \in reconcile.pending
                           /\ KeyOf(reconcile.job, a) = reconcile.key[a]
           /\ Keyed(m, a) => HasTask(m, a) /\ KeyOf(m, a) < m
<1>1. Keyed(m, a) => HasTask(m, a) /\ KeyOf(m, a) < m
  BY DEF KeysOK
<1>2. ASSUME Waits(a), SameKeyed(m) PROVE Keyed(m, a) /\ KeyOf(m, a) = reconcile.key[a]
  <2>1. a \in DOMAIN reconcile.key
    BY <1>2 DEF Waits, KeysOK
  <2> QED
    BY <1>2, <2>1 DEF SameKeyed, Keyed, KeyOf
<1>3. ASSUME Refers(a)
      PROVE  /\ reconcile.job \in 1..Len(encodeJobs) /\ HasTask(reconcile.job, a)
             /\ Keyed(reconcile.job, a) /\ a \in reconcile.pending
             /\ KeyOf(reconcile.job, a) = reconcile.key[a]
  <2>1. reconcile.job \in 1..Len(encodeJobs) /\ HasTask(reconcile.job, a) /\ SameKeyed(reconcile.job)
    BY <1>3, RefersHas DEF KeysOK
  <2>2. DOMAIN reconcile.key = reconcile.pending /\ reconcile.pending # {}
    BY <1>3 DEF Refers, KeysOK
  <2>3. DOMAIN encodeJobs[reconcile.job].key # {}
    BY <2>1, <2>2 DEF SameKeyed
  <2>4. Keyed(reconcile.job, a)
    BY <2>1, <2>3 DEF KeysOK
  <2> QED
    BY <2>1, <2>2, <2>4 DEF SameKeyed, Keyed, KeyOf
<1> QED
  BY <1>1, <1>2, <1>3

LEMMA ReconcileStays ==
    ASSUME EncodeShape, KeysOK, NEW j \in 1..Len(encodeJobs), NEW a \in Artifacts, NEW t, NEW e, NEW r,
           HandlerStepped(j, a, t, e, r), t.st # "none", HasTask(j, a)
    PROVE  /\ (Waits(a)' <=> Waits(a)) /\ (Refers(a)' <=> Refers(a)) /\ reconcile' = reconcile
           /\ Len(encodeJobs') = Len(encodeJobs)
           /\ \A m \in 1..Len(encodeJobs) :
                /\ (SameKeyed(m)' <=> SameKeyed(m)) /\ (Keyed(m, a)' <=> Keyed(m, a))
                /\ KeyOf(m, a)' = KeyOf(m, a) /\ (HasTask(m, a)' <=> HasTask(m, a))
<1>1. StepSeen(j, a, t, e, r, a) /\ SameJobs /\ reconcile' = reconcile
  BY StepsSeen DEF HandlerStepped
<1>2. \A m \in 1..Len(encodeJobs) :
        /\ (SameKeyed(m)' <=> SameKeyed(m)) /\ (Keyed(m, a)' <=> Keyed(m, a)) /\ KeyOf(m, a)' = KeyOf(m, a)
  BY <1>1, KeysStay
<1>3. \A m \in 1..Len(encodeJobs) : HasTask(m, a)' <=> HasTask(m, a)
  BY <1>1 DEF StepSeen
<1>4. Waits(a)' <=> Waits(a)
  BY <1>1 DEF Waits
<1>5. Refers(a)' <=> Refers(a)
  <2>1. JobExists(reconcile.job)' <=> JobExists(reconcile.job)
    BY <1>1 DEF JobExists, SameJobs
  <2>2. CASE reconcile.job \in 1..Len(encodeJobs)
    <3>1. PICK m \in 1..Len(encodeJobs) : m = reconcile.job
      BY <2>2
    <3>2. HasTask(m, a)' <=> HasTask(m, a)
      BY <1>3
    <3>3. Refers(a)' <=> reconcile.pc = "refer" /\ HasTask(m, a)'
      BY <1>1, <3>1 DEF Refers, HasTask, JobExists, EncodeTask
    <3>4. Refers(a) <=> reconcile.pc = "refer" /\ HasTask(m, a)
      BY <3>1 DEF Refers
    <3> QED
      BY <3>2, <3>3, <3>4
  <2>3. CASE reconcile.job \notin 1..Len(encodeJobs)
    BY <1>1, <2>1, <2>3 DEF Refers, HasTask, JobExists
  <2> QED
    BY <2>2, <2>3
<1> QED
  BY <1>1, <1>2, <1>3, <1>4, <1>5 DEF SameJobs

LEMMA MarkKeeps ==
    ASSUME EncodeShape, KeysOK, NEW j \in 1..Len(encodeJobs), NEW a \in Artifacts, NEW t, NEW e, NEW r,
           RefsKept(a), DoneKept(a), HandlerStepped(j, a, t, e, r), encodes[j][a].pc = "claimed",
           t = EncodeTask(j, a), e.pc = "load", r.ref = j, r.ready = artifact[a].ready
    PROVE  RefsKept(a)' /\ DoneKept(a)'
<1>0. j \in JobNumbers /\ j \in Nat /\ j # 0 /\ \A m \in 1..Len(encodeJobs) : m \in Nat
  BY EncodeKnown
<1>1. /\ LiveTask(j, a) /\ HasTask(j, a) /\ ~ DoneTask(j, a)
      /\ \A m \in 1..Len(encodeJobs) : HasTask(m, a) => m <= j
      /\ \A m \in 1..Len(encodeJobs) : LiveTask(m, a) => m = j
      /\ \A i \in JobNumbers : Marked(i, a) => i = j
  BY <1>0, OnlyHandler
<1>2. StepSeen(j, a, t, e, r, a)
  BY StepsSeen
<1>3. t.st # "none" /\ t.st \in TaskOpen /\ t.st # "succeeded"
  BY <1>1 DEF LiveTask, HasTask, DoneTask
<1>4. /\ (Waits(a)' <=> Waits(a)) /\ (Refers(a)' <=> Refers(a)) /\ reconcile' = reconcile
      /\ Len(encodeJobs') = Len(encodeJobs)
      /\ \A m \in 1..Len(encodeJobs) :
           /\ (SameKeyed(m)' <=> SameKeyed(m)) /\ (Keyed(m, a)' <=> Keyed(m, a))
           /\ KeyOf(m, a)' = KeyOf(m, a) /\ (HasTask(m, a)' <=> HasTask(m, a))
  BY <1>1, <1>3, ReconcileStays
<1>5. \A m \in 1..Len(encodeJobs) : /\ (LiveTask(m, a)' <=> LiveTask(m, a))
                                    /\ (DoneTask(m, a)' <=> DoneTask(m, a))
  BY <1>1, <1>2, <1>3 DEF StepSeen
<1>6. /\ RefOf(a)' = j /\ artifact'[a].ready = artifact[a].ready
      /\ \A i \in JobNumbers : Marked(i, a)' => i = j
      /\ \A i \in JobNumbers : ~ Loaded(i, a)'
      /\ \A i \in JobNumbers : i # j => encodes'[i][a] = encodes[i][a]
      /\ encodes'[j][a].pc = "load"
  <2>1. \A i \in JobNumbers : Loaded(i, a) => Marked(i, a)
    BY DEF Loaded, HasLoaded, Marked
  <2>2. ~ HasLoaded(e)
    BY DEF HasLoaded
  <2> QED
    BY <1>0, <1>1, <1>2, <2>1, <2>2 DEF StepSeen
<1>7. ASSUME NEW m \in 1..Len(encodeJobs)
      PROVE  /\ Waits(a) /\ SameKeyed(m) => Keyed(m, a) /\ HasTask(m, a) /\ KeyOf(m, a) = reconcile.key[a]
             /\ Refers(a) => reconcile.job \in 1..Len(encodeJobs) /\ HasTask(reconcile.job, a)
             /\ Keyed(m, a) => HasTask(m, a) /\ KeyOf(m, a) < m /\ KeyOf(m, a) < j
  <2>1. KeyOf(m, a) \in Nat \/ ~ Keyed(m, a)
    <3>1. encodeJobs[m].key \in EncodeKeys
      BY EncodeKnown DEF EncodeJob
    <3> QED
      BY <3>1 DEF Keyed, KeyOf, EncodeKeys
  <2>2. Keyed(m, a) => HasTask(m, a) /\ KeyOf(m, a) < m /\ m <= j
    BY <1>1, WaitingKey
  <2>3. Keyed(m, a) => KeyOf(m, a) < j
    BY <1>0, <2>1, <2>2
  <2> QED
    BY <2>2, <2>3, WaitingKey
<1>8. RefsKept(a)'
  <2>1. \A i, m \in 1..Len(encodeJobs') : LiveTask(i, a)' /\ HasTask(m, a)' => m <= i
    BY <1>4, <1>5 DEF RefsKept
  <2>2. \A i \in 1..Len(encodeJobs') : LiveTask(i, a)' => RefOf(a)' <= i /\ (Waits(a)' => reconcile'.key[a] <= i)
    BY <1>0, <1>1, <1>4, <1>5, <1>6 DEF RefsKept
  <2>3. Waits(a)' => reconcile'.key[a] <= RefOf(a)'
    BY <1>1, <1>4, <1>6 DEF RefsKept
  <2>4. \A m \in 1..Len(encodeJobs') : Keyed(m, a)' =>
          /\ KeyOf(m, a)' <= RefOf(a)'
          /\ Waits(a)' \/ Refers(a)' => KeyOf(m, a)' <= reconcile'.key[a]
    <3>1. ASSUME NEW m \in 1..Len(encodeJobs), Keyed(m, a) PROVE KeyOf(m, a) <= j
      <4>1. KeyOf(m, a) \in Nat
        <5>1. encodeJobs[m].key \in EncodeKeys
          BY EncodeKnown DEF EncodeJob
        <5> QED
          BY <3>1, <5>1 DEF Keyed, KeyOf, EncodeKeys
      <4> QED
        BY <1>0, <1>7, <3>1, <4>1
    <3> QED
      BY <1>4, <1>6, <3>1 DEF RefsKept
  <2>5. ASSUME NEW i \in JobNumbers, Marked(i, a)'
        PROVE  /\ RefOf(a)' # 0
               /\ \A m \in 1..Len(encodeJobs') : Keyed(m, a)' => KeyOf(m, a)' < RefOf(a)'
               /\ \A m \in 1..Len(encodeJobs') : Waits(a)' /\ SameKeyed(m)' => m <= RefOf(a)'
               /\ Refers(a)' => reconcile'.job <= RefOf(a)'
               /\ ~ Loaded(i, a)'
    <3>1. \A m \in 1..Len(encodeJobs) : Waits(a) /\ SameKeyed(m) => m <= j
      BY <1>1, <1>7
    <3>2. Refers(a) => reconcile.job <= j
      BY <1>1, <1>7
    <3> QED
      BY <1>0, <1>4, <1>6, <1>7, <3>1, <3>2
  <2> HIDE DEF Waits, Refers
  <2> QED
    BY <2>1, <2>2, <2>3, <2>4, <2>5 DEF RefsKept
<1>9. DoneKept(a)'
  <2>1. \A m \in 1..Len(encodeJobs) : DoneTask(m, a) => m # j /\ RefOf(a) # 0
    BY <1>1 DEF DoneKept
  <2>2. \A i \in 1..Len(encodeJobs') : LiveTask(i, a)' <=> LiveTask(i, a)
    BY <1>4, <1>5
  <2>3. \A i \in JobNumbers : encodes'[i][a].pc = "after" /\ encodes'[i][a].err = "ok" =>
          artifact'[a].ready /\ encodes'[i][a].row.ready
    BY <1>6 DEF DoneKept
  <2> QED
    BY <1>0, <1>4, <1>5, <1>6, <1>7, <2>1, <2>2, <2>3 DEF DoneKept
<1> QED
  BY <1>8, <1>9

LEMMA KeysAreNumbers ==
    ASSUME EncodeShape, NEW a \in Artifacts
    PROVE  /\ RefOf(a) \in Nat
           /\ \A m \in 1..Len(encodeJobs) : Keyed(m, a) => KeyOf(m, a) \in Nat
           /\ \A j \in JobNumbers : LoadedRef(j, a) \in Nat
<1>1. RefOf(a) \in Nat
  BY EncodeKnown DEF RefOf, ArtifactRow
<1>2. ASSUME NEW m \in 1..Len(encodeJobs), Keyed(m, a) PROVE KeyOf(m, a) \in Nat
  <2>1. encodeJobs[m].key \in EncodeKeys
    BY EncodeKnown DEF EncodeJob
  <2> QED
    BY <1>2, <2>1 DEF Keyed, KeyOf, EncodeKeys
<1>3. ASSUME NEW j \in JobNumbers PROVE LoadedRef(j, a) \in Nat
  <2>1. encodes[j][a].row \in ArtifactRow
    BY EncodeKnown DEF EncodeRow
  <2> QED
    BY <2>1 DEF LoadedRef, ArtifactRow
<1> QED
  BY <1>1, <1>2, <1>3

(* A handler that has taken its artifact over loads its row, saves what it  *)
(* loaded, or changes only itself.                                          *)
LEMMA WorkKeeps ==
    ASSUME EncodeShape, KeysOK, NEW j \in 1..Len(encodeJobs), NEW a \in Artifacts, NEW t, NEW e, NEW r,
           RefsKept(a), DoneKept(a), HandlerStepped(j, a, t, e, r), Marked(j, a),
           t.st \in TaskOpen, e.pc \in {"load", "ffmpeg", "publish", "complete", "after"},
           r.ref = RefOf(a) \/ (Loaded(j, a) /\ r.ref = LoadedRef(j, a)),
           HasLoaded(e) =>
               \/ e.row.ref = RefOf(a) /\ r.ref = RefOf(a)
               \/ Loaded(j, a) /\ e.row.ref = LoadedRef(j, a),
           e.pc = "after" /\ e.err = "ok" => r.ready /\ e.row.ready
    PROVE  RefsKept(a)' /\ DoneKept(a)'
<1>0. j \in JobNumbers /\ \A m \in 1..Len(encodeJobs) : m \in Nat
  BY EncodeKnown
<1>1. /\ LiveTask(j, a) /\ HasTask(j, a) /\ ~ DoneTask(j, a)
      /\ \A i \in JobNumbers : encodes[i][a].pc # "idle" => i = j
      /\ \A i \in JobNumbers : Marked(i, a) => i = j
  <2>1. encodes[j][a].pc # "idle"
    BY DEF Marked
  <2> QED
    BY <1>0, <2>1, OnlyHandler
<1>2. StepSeen(j, a, t, e, r, a)
  BY StepsSeen
<1>3. t.st # "none" /\ t.st # "succeeded"
  BY DEF TaskOpen
<1>4. /\ (Waits(a)' <=> Waits(a)) /\ (Refers(a)' <=> Refers(a)) /\ reconcile' = reconcile
      /\ Len(encodeJobs') = Len(encodeJobs)
      /\ \A m \in 1..Len(encodeJobs) :
           /\ (SameKeyed(m)' <=> SameKeyed(m)) /\ (Keyed(m, a)' <=> Keyed(m, a))
           /\ KeyOf(m, a)' = KeyOf(m, a) /\ (HasTask(m, a)' <=> HasTask(m, a))
  BY <1>1, <1>3, ReconcileStays
<1>5. \A m \in 1..Len(encodeJobs) : /\ (LiveTask(m, a)' <=> LiveTask(m, a))
                                    /\ (DoneTask(m, a)' <=> DoneTask(m, a))
  BY <1>1, <1>2, <1>3 DEF StepSeen
<1>6. /\ RefOf(a)' = r.ref /\ artifact'[a].ready = r.ready
      /\ \A i \in JobNumbers : Marked(i, a)' => i = j
      /\ \A i \in JobNumbers : i # j => encodes'[i][a] = encodes[i][a]
      /\ encodes'[j][a] = e /\ LoadedRef(j, a)' = e.row.ref
      /\ Loaded(j, a)' => HasLoaded(e)
  BY <1>0, <1>1, <1>2 DEF StepSeen
<1> DEFINE l == e.row.ref
<1>7. /\ RefOf(a) \in Nat /\ r.ref \in Nat /\ RefOf(a) <= r.ref /\ r.ref <= j /\ r.ref # 0 /\ RefOf(a) <= j
      /\ Loaded(j, a)' => l \in Nat /\ r.ref <= l /\ l <= j
      /\ \A m \in 1..Len(encodeJobs) : DoneTask(m, a) => r.ref # m /\ (Loaded(j, a)' => l # m)
  <2>1. /\ RefOf(a) # 0 /\ RefOf(a) <= j
        /\ Loaded(j, a) => RefOf(a) <= LoadedRef(j, a) /\ LoadedRef(j, a) <= j
    BY <1>0, <1>1 DEF RefsKept
  <2>2. \A m \in 1..Len(encodeJobs) : DoneTask(m, a) =>
           RefOf(a) # m /\ (Loaded(j, a) => LoadedRef(j, a) # m)
    BY <1>0 DEF DoneKept
  <2>3. RefOf(a) \in Nat /\ LoadedRef(j, a) \in Nat
    BY <1>0, KeysAreNumbers
  <2>4. /\ r.ref \in Nat /\ RefOf(a) <= r.ref /\ r.ref <= j /\ r.ref # 0
        /\ \A m \in 1..Len(encodeJobs) : DoneTask(m, a) => r.ref # m
    BY <1>0, <2>1, <2>2, <2>3
  <2>5. ASSUME Loaded(j, a)' PROVE l \in Nat /\ r.ref <= l /\ l <= j /\ \A m \in 1..Len(encodeJobs) : DoneTask(m, a) => l # m
    BY <1>0, <1>6, <2>1, <2>2, <2>3, <2>5
  <2> QED
    BY <2>1, <2>3, <2>4, <2>5
<1> HIDE DEF l
<1>8. RefsKept(a)'
  <2>1. \A i, m \in 1..Len(encodeJobs') : LiveTask(i, a)' /\ HasTask(m, a)' => m <= i
    BY <1>4, <1>5 DEF RefsKept
  <2>2. ASSUME NEW i \in 1..Len(encodeJobs), LiveTask(i, a)
        PROVE  RefOf(a)' <= i /\ (Waits(a)' => reconcile'.key[a] <= i)
    <3>1. i = j
      <4>1. \A m \in 1..Len(encodeJobs) : LiveTask(m, a) => m = j
        <5>1. encodes[j][a].pc # "idle"
          BY DEF Marked
        <5> QED
          BY <1>0, <5>1, OnlyHandler
      <4> QED
        BY <2>2, <4>1
    <3>2. Waits(a) => reconcile.key[a] <= i
      BY <2>2 DEF RefsKept
    <3> QED
      BY <1>4, <1>6, <1>7, <3>1, <3>2
  <2>3. Waits(a) => reconcile.key[a] \in Nat
    BY DEF EncodeShape, ReconcileRow, EncodeKeys, Waits, KeysOK
  <2>4. Waits(a)' => reconcile'.key[a] <= RefOf(a)'
    <3>1. Waits(a) => reconcile.key[a] <= RefOf(a)
      BY DEF RefsKept
    <3> QED
      BY <1>4, <1>6, <1>7, <2>3, <3>1
  <2>5. ASSUME NEW m \in 1..Len(encodeJobs), Keyed(m, a)
        PROVE  /\ KeyOf(m, a) <= r.ref /\ KeyOf(m, a) < r.ref
               /\ Waits(a) \/ Refers(a) => KeyOf(m, a) <= reconcile.key[a]
    <3>1. /\ KeyOf(m, a) < RefOf(a) /\ (Waits(a) \/ Refers(a) => KeyOf(m, a) <= reconcile.key[a])
      BY <1>0, <2>5 DEF RefsKept
    <3>2. KeyOf(m, a) \in Nat
      BY <2>5, KeysAreNumbers
    <3> QED
      BY <1>7, <3>1, <3>2
  <2>6. \A m \in 1..Len(encodeJobs) : Waits(a) /\ SameKeyed(m) => m <= r.ref
    <3>1. \A m \in 1..Len(encodeJobs) : Waits(a) /\ SameKeyed(m) => m <= RefOf(a)
      BY <1>0 DEF RefsKept
    <3> QED
      BY <1>0, <1>7, <3>1
  <2>7. Refers(a) => reconcile.job <= r.ref
    <3>1. Refers(a) => reconcile.job <= RefOf(a) /\ reconcile.job \in Nat
      BY <1>0, RefersHas DEF RefsKept
    <3> QED
      BY <1>7, <3>1
  <2>8. ASSUME NEW i \in JobNumbers, Marked(i, a)'
        PROVE  /\ RefOf(a)' # 0
               /\ \A m \in 1..Len(encodeJobs') : Keyed(m, a)' => KeyOf(m, a)' < RefOf(a)'
               /\ \A m \in 1..Len(encodeJobs') : Waits(a)' /\ SameKeyed(m)' => m <= RefOf(a)'
               /\ Refers(a)' => reconcile'.job <= RefOf(a)'
               /\ Loaded(i, a)' => RefOf(a)' <= LoadedRef(i, a)' /\ LoadedRef(i, a)' <= i
    <3>1. i = j
      BY <1>6, <2>8
    <3>2. Loaded(j, a)' => RefOf(a)' <= LoadedRef(j, a)' /\ LoadedRef(j, a)' <= j
      BY <1>6, <1>7 DEF l
    <3>3. RefOf(a)' # 0
      BY <1>6, <1>7
    <3>4. Loaded(i, a)' => RefOf(a)' <= LoadedRef(i, a)' /\ LoadedRef(i, a)' <= i
      BY <3>1, <3>2
    <3> HIDE DEF Waits, Refers
    <3> QED
      BY <1>4, <1>6, <2>5, <2>6, <2>7, <3>3, <3>4
  <2>9. \A i \in 1..Len(encodeJobs') : LiveTask(i, a)' => RefOf(a)' <= i /\ (Waits(a)' => reconcile'.key[a] <= i)
    BY <1>4, <1>5, <2>2
  <2>10. \A m \in 1..Len(encodeJobs') : Keyed(m, a)' =>
          /\ KeyOf(m, a)' <= RefOf(a)'
          /\ Waits(a)' \/ Refers(a)' => KeyOf(m, a)' <= reconcile'.key[a]
    BY <1>4, <1>6, <2>5
  <2> QED
    BY <2>1, <2>4, <2>8, <2>9, <2>10 DEF RefsKept
<1>9. DoneKept(a)'
  <2>1. ASSUME NEW m \in 1..Len(encodeJobs), DoneTask(m, a)
        PROVE  /\ Keyed(m, a) => KeyOf(m, a) < r.ref
               /\ Waits(a) => ~ SameKeyed(m)
               /\ Refers(a) => reconcile.job # m
               /\ r.ref # m
    <3>1. /\ Keyed(m, a) => KeyOf(m, a) < RefOf(a)
          /\ Waits(a) => ~ SameKeyed(m)
          /\ Refers(a) => reconcile.job # m
      BY <1>1, <2>1 DEF DoneKept
    <3>2. Keyed(m, a) => KeyOf(m, a) \in Nat
      BY KeysAreNumbers
    <3> QED
      BY <1>7, <2>1, <3>1, <3>2
  <2>2. ASSUME NEW i \in JobNumbers, Marked(i, a)', NEW m \in 1..Len(encodeJobs), DoneTask(m, a)
        PROVE  RefOf(a)' # m /\ (Loaded(i, a)' => LoadedRef(i, a)' # m)
    <3>1. i = j
      BY <1>6, <2>2
    <3>2. RefOf(a)' # m /\ (Loaded(j, a)' => LoadedRef(j, a)' # m)
      BY <1>6, <1>7, <2>2 DEF l
    <3> QED
      BY <3>1, <3>2
  <2>3. ASSUME NEW i \in JobNumbers, encodes'[i][a].pc = "after" /\ encodes'[i][a].err = "ok"
        PROVE  artifact'[a].ready /\ encodes'[i][a].row.ready
    <3>1. CASE i = j
      BY <1>6, <2>3, <3>1
    <3>2. CASE i # j
      BY <1>1, <1>6, <2>3, <3>2
    <3> QED
      BY <3>1, <3>2
  <2> HIDE DEF Waits, Refers
  <2>4. \A m \in 1..Len(encodeJobs') : DoneTask(m, a)' =>
          /\ RefOf(a)' # 0
          /\ Keyed(m, a)' => KeyOf(m, a)' < RefOf(a)'
          /\ Waits(a)' => ~ SameKeyed(m)'
          /\ Refers(a)' => reconcile'.job # m
          /\ RefOf(a)' # m
    BY <1>4, <1>5, <1>6, <1>7, <2>1
  <2>5. \A i \in JobNumbers, m \in 1..Len(encodeJobs') : Marked(i, a)' /\ DoneTask(m, a)' =>
          RefOf(a)' # m /\ (Loaded(i, a)' => LoadedRef(i, a)' # m)
    BY <1>4, <1>5, <2>2
  <2> QED
    BY <2>3, <2>4, <2>5 DEF DoneKept
<1> QED
  BY <1>8, <1>9

(* A handler ends well: its artifact is ready.                              *)
LEMMA SucceedKeeps ==
    ASSUME EncodeShape, KeysOK, NEW j \in 1..Len(encodeJobs), NEW a \in Artifacts, NEW t, NEW e, NEW r,
           RefsKept(a), DoneKept(a), HandlerStepped(j, a, t, e, r), Marked(j, a),
           t.st = "succeeded", e.pc = "idle", r.ref = RefOf(a), r.ready
    PROVE  RefsKept(a)' /\ DoneKept(a)'
<1>0. j \in JobNumbers /\ \A m \in 1..Len(encodeJobs) : m \in Nat
  BY EncodeKnown
<1>1. /\ LiveTask(j, a) /\ HasTask(j, a)
      /\ \A m \in 1..Len(encodeJobs) : LiveTask(m, a) => m = j
      /\ \A i \in JobNumbers : encodes[i][a].pc # "idle" => i = j
      /\ \A i \in JobNumbers : Marked(i, a) => i = j
  <2>1. encodes[j][a].pc # "idle"
    BY DEF Marked
  <2> QED
    BY <1>0, <2>1, OnlyHandler
<1>2. StepSeen(j, a, t, e, r, a)
  BY StepsSeen
<1>3. t.st # "none" /\ t.st \notin TaskOpen
  BY DEF TaskOpen
<1>4. /\ (Waits(a)' <=> Waits(a)) /\ (Refers(a)' <=> Refers(a)) /\ reconcile' = reconcile
      /\ Len(encodeJobs') = Len(encodeJobs)
      /\ \A m \in 1..Len(encodeJobs) :
           /\ (SameKeyed(m)' <=> SameKeyed(m)) /\ (Keyed(m, a)' <=> Keyed(m, a))
           /\ KeyOf(m, a)' = KeyOf(m, a) /\ (HasTask(m, a)' <=> HasTask(m, a))
  BY <1>1, <1>3, ReconcileStays
<1>5. \A m \in 1..Len(encodeJobs) : /\ ~ LiveTask(m, a)'
                                    /\ DoneTask(m, a)' => m = j \/ DoneTask(m, a)
  BY <1>1, <1>2, <1>3 DEF StepSeen
<1>6. /\ RefOf(a)' = RefOf(a) /\ artifact'[a].ready
      /\ \A i \in JobNumbers : ~ Marked(i, a)' /\ encodes'[i][a].pc # "after"
  <2>1. \A i \in JobNumbers : i = j => ~ Marked(i, a)' /\ encodes'[i][a].pc = "idle"
    BY <1>2 DEF StepSeen
  <2>2. \A i \in JobNumbers : i # j => encodes'[i][a] = encodes[i][a] /\ (Marked(i, a)' <=> Marked(i, a))
    BY <1>2 DEF StepSeen
  <2>3. \A i \in JobNumbers : i # j => encodes'[i][a].pc # "after" /\ ~ Marked(i, a)'
    BY <1>1, <2>2
  <2> QED
    BY <1>2, <2>1, <2>3 DEF StepSeen
<1>7. RefOf(a) # 0 /\ (Keyed(j, a) => KeyOf(j, a) < RefOf(a))
  BY <1>0 DEF RefsKept
<1> HIDE DEF Waits, Refers
<1>8. RefsKept(a)'
  <2>1. Waits(a)' => reconcile'.key[a] <= RefOf(a)'
    BY <1>4, <1>6 DEF RefsKept
  <2>2. \A m \in 1..Len(encodeJobs') : Keyed(m, a)' =>
        /\ KeyOf(m, a)' <= RefOf(a)'
        /\ Waits(a)' \/ Refers(a)' => KeyOf(m, a)' <= reconcile'.key[a]
    BY <1>4, <1>6 DEF RefsKept
  <2> QED
    BY <1>4, <1>5, <1>6, <2>1, <2>2 DEF RefsKept
<1>9. DoneKept(a)'
  <2>1. \A m \in 1..Len(encodeJobs) : DoneTask(m, a) => (Keyed(m, a) => KeyOf(m, a) < RefOf(a))
    BY DEF DoneKept
  <2>2. \A m \in 1..Len(encodeJobs') : DoneTask(m, a)' =>
          RefOf(a)' # 0 /\ (Keyed(m, a)' => KeyOf(m, a)' < RefOf(a)')
    BY <1>4, <1>5, <1>6, <1>7, <2>1
  <2> QED
    BY <1>4, <1>5, <1>6, <2>2 DEF DoneKept
<1> QED
  BY <1>8, <1>9

(* A handler starts, or ends in another way.                                *)
LEMMA EndKeeps ==
    ASSUME EncodeShape, KeysOK, NEW j \in 1..Len(encodeJobs), NEW a \in Artifacts, NEW t, NEW e, NEW r,
           RefsKept(a), DoneKept(a), HandlerStepped(j, a, t, e, r), HasTask(j, a), LiveTask(j, a),
           t.st \notin {"none", "succeeded"}, e.pc \in {"idle", "claimed"},
           r.ref = RefOf(a), r.ready = artifact[a].ready
    PROVE  RefsKept(a)' /\ DoneKept(a)'
<1>1. StepSeen(j, a, t, e, r, a) /\ SameJobs /\ reconcile' = reconcile
  <2>1. reconcile' = reconcile
    BY DEF HandlerStepped
  <2> QED
    BY <2>1, StepsSeen
<1>2. \A m \in 1..Len(encodeJobs) : /\ (HasTask(m, a)' <=> HasTask(m, a))
                                    /\ LiveTask(m, a)' => LiveTask(m, a)
                                    /\ DoneTask(m, a)' => DoneTask(m, a)
  BY <1>1 DEF StepSeen
<1>3. \A i \in JobNumbers : i = j => ~ Marked(i, a)' /\ ~ Loaded(i, a)' /\ encodes'[i][a].pc # "after"
  <2>1. ~ HasLoaded(e)
    BY DEF HasLoaded
  <2> QED
    BY <1>1, <2>1 DEF StepSeen
<1>4. \A i \in JobNumbers : i # j => /\ encodes'[i][a] = encodes[i][a] /\ (Marked(i, a)' <=> Marked(i, a))
                                     /\ (Loaded(i, a)' <=> Loaded(i, a)) /\ LoadedRef(i, a)' = LoadedRef(i, a)
  BY <1>1 DEF StepSeen
<1>5. RefOf(a)' = RefOf(a) /\ artifact'[a].ready = artifact[a].ready
  BY <1>1 DEF StepSeen
<1>6. QuietFor(a)
  BY <1>1, <1>2, <1>3, <1>4, <1>5 DEF QuietFor
<1> QED
  BY <1>1, <1>6, Quiet

(* The steps of a handler, written as changes of its three rows.            *)
LEMMA SameRows ==
    ASSUME EncodeShape, NEW j \in 1..Len(encodeJobs), NEW a \in Artifacts
    PROVE  /\ encodeJobs = [encodeJobs EXCEPT ![j].tasks[a] = EncodeTask(j, a)]
           /\ encodes = [encodes EXCEPT ![j][a] = encodes[j][a]]
           /\ artifact = [artifact EXCEPT ![a] = artifact[a]]
<1>0. /\ encodeJobs \in Seq(EncodeJob) /\ DOMAIN encodeJobs = 1..Len(encodeJobs) /\ Len(encodeJobs) \in Nat
      /\ encodeJobs[j] \in EncodeJob /\ encodeJobs[j].tasks \in [Artifacts -> TaskRows]
      /\ encodes \in [JobNumbers -> [Artifacts -> EncodeRow]] /\ j \in JobNumbers
      /\ artifact \in [Artifacts -> ArtifactRow]
  BY EncodeKnown DEF EncodeShape
<1>1. [encodeJobs[j].tasks EXCEPT ![a] = encodeJobs[j].tasks[a]] = encodeJobs[j].tasks
  BY <1>0
<1>2. [encodeJobs[j] EXCEPT !.tasks = encodeJobs[j].tasks] = encodeJobs[j]
  BY <1>0 DEF EncodeJob
<1>3. [encodeJobs EXCEPT ![j] = encodeJobs[j]] = encodeJobs
  BY <1>0
<1>4. [encodeJobs EXCEPT ![j].tasks[a] = EncodeTask(j, a)] =
        [encodeJobs EXCEPT ![j] = [encodeJobs[j] EXCEPT !.tasks = [encodeJobs[j].tasks EXCEPT ![a] = encodeJobs[j].tasks[a]]]]
  BY DEF EncodeTask
<1>5. encodeJobs = [encodeJobs EXCEPT ![j].tasks[a] = EncodeTask(j, a)]
  BY <1>1, <1>2, <1>3, <1>4
<1>6. [encodes[j] EXCEPT ![a] = encodes[j][a]] = encodes[j]
  BY <1>0
<1>7. encodes = [encodes EXCEPT ![j][a] = encodes[j][a]]
  BY <1>0, <1>6
<1> QED
  BY <1>0, <1>5, <1>7

WithPc(e, p) == [e EXCEPT !.pc = p]
WithRow(e, p, r) == [e EXCEPT !.pc = p, !.row = r]
WithErr(e, p, x) == [e EXCEPT !.pc = p, !.err = x]
WithBoth(e, p, r, x) == [e EXCEPT !.pc = p, !.row = r, !.err = x]

LEMMA PcField ==
    ASSUME NEW e \in EncodeRow, NEW p \in EncodePcs
    PROVE  /\ WithPc(e, p) \in EncodeRow /\ WithPc(e, p).pc = p
           /\ WithPc(e, p).row = e.row /\ WithPc(e, p).err = e.err
  BY DEF EncodeRow, WithPc

LEMMA RowField ==
    ASSUME NEW e \in EncodeRow, NEW p \in EncodePcs, NEW r \in ArtifactRow
    PROVE  WithRow(e, p, r) \in EncodeRow /\ WithRow(e, p, r).pc = p /\ WithRow(e, p, r).row = r
  BY DEF EncodeRow, WithRow

LEMMA ErrField ==
    ASSUME NEW e \in EncodeRow, NEW p \in EncodePcs, NEW x \in {"transient", "permanent"}
    PROVE  /\ WithErr(e, p, x) \in EncodeRow /\ WithErr(e, p, x).pc = p
           /\ WithErr(e, p, x).row = e.row /\ WithErr(e, p, x).err = x
  BY DEF EncodeRow, WithErr

LEMMA BothFields ==
    ASSUME NEW e \in EncodeRow, NEW p \in EncodePcs, NEW r \in ArtifactRow,
           NEW x \in {"transient", "permanent"}
    PROVE  /\ WithBoth(e, p, r, x) \in EncodeRow /\ WithBoth(e, p, r, x).pc = p
           /\ WithBoth(e, p, r, x).row = r /\ WithBoth(e, p, r, x).err = x
  BY DEF EncodeRow, WithBoth

(* Two or three fields of one handler change.                               *)
SetRow(j, a, p, r) == [encodes EXCEPT ![j][a].pc = p, ![j][a].row = r]
SetErr(j, a, p, x) == [encodes EXCEPT ![j][a].pc = p, ![j][a].err = x]
SetBoth(j, a, p, r, x) == [encodes EXCEPT ![j][a].pc = p, ![j][a].row = r, ![j][a].err = x]

LEMMA FieldsTogether ==
    ASSUME EncodeShape, NEW j \in JobNumbers, NEW a \in Artifacts, NEW p, NEW r, NEW x
    PROVE  /\ SetRow(j, a, p, r) = [encodes EXCEPT ![j][a] = WithRow(encodes[j][a], p, r)]
           /\ SetErr(j, a, p, x) = [encodes EXCEPT ![j][a] = WithErr(encodes[j][a], p, x)]
           /\ SetBoth(j, a, p, r, x) = [encodes EXCEPT ![j][a] = WithBoth(encodes[j][a], p, r, x)]
<1>0. encodes \in [JobNumbers -> [Artifacts -> EncodeRow]]
  BY DEF EncodeShape
<1>1. ASSUME NEW u, NEW v
      PROVE  [[encodes EXCEPT ![j][a] = u] EXCEPT ![j][a] = v] = [encodes EXCEPT ![j][a] = v]
  <2>1. [[encodes[j] EXCEPT ![a] = u] EXCEPT ![a] = v] = [encodes[j] EXCEPT ![a] = v]
    BY <1>0
  <2>2. [encodes EXCEPT ![j][a] = u][j] = [encodes[j] EXCEPT ![a] = u]
    BY <1>0
  <2>3. \A y, z : [[encodes EXCEPT ![j] = y] EXCEPT ![j] = z] = [encodes EXCEPT ![j] = z]
    BY <1>0
  <2> QED
    BY <2>1, <2>2, <2>3
<1>2. \A u : [encodes EXCEPT ![j][a] = u][j][a] = u
  BY <1>0
<1> DEFINE e1 == [encodes[j][a] EXCEPT !.pc = p]
           e2 == [e1 EXCEPT !.row = r]
<1>3. [encodes EXCEPT ![j][a].pc = p] = [encodes EXCEPT ![j][a] = e1]
  OBVIOUS
<1> DEFINE f1 == [encodes EXCEPT ![j][a] = e1]
           f2 == [encodes EXCEPT ![j][a] = e2]
<1>4. /\ f1[j][a] = e1 /\ f2[j][a] = e2
      /\ \A v : [f1 EXCEPT ![j][a] = v] = [encodes EXCEPT ![j][a] = v]
      /\ \A v : [f2 EXCEPT ![j][a] = v] = [encodes EXCEPT ![j][a] = v]
  BY <1>1, <1>2
<1> HIDE DEF e1, e2, f1, f2
<1>5. [f1 EXCEPT ![j][a].row = r] = f2
  <2>1. [f1 EXCEPT ![j][a].row = r] = [f1 EXCEPT ![j][a] = [f1[j][a] EXCEPT !.row = r]]
    OBVIOUS
  <2> QED
    BY <1>4, <2>1 DEF e2, f2
<1>6. [f1 EXCEPT ![j][a].err = x] = [encodes EXCEPT ![j][a] = [e1 EXCEPT !.err = x]]
  <2>1. [f1 EXCEPT ![j][a].err = x] = [f1 EXCEPT ![j][a] = [f1[j][a] EXCEPT !.err = x]]
    OBVIOUS
  <2> QED
    BY <1>4, <2>1
<1>7. [f2 EXCEPT ![j][a].err = x] = [encodes EXCEPT ![j][a] = [e2 EXCEPT !.err = x]]
  <2>1. [f2 EXCEPT ![j][a].err = x] = [f2 EXCEPT ![j][a] = [f2[j][a] EXCEPT !.err = x]]
    OBVIOUS
  <2> QED
    BY <1>4, <2>1
<1>8. /\ [encodes EXCEPT ![j][a].pc = p, ![j][a].row = r] =
           [[encodes EXCEPT ![j][a].pc = p] EXCEPT ![j][a].row = r]
      /\ [encodes EXCEPT ![j][a].pc = p, ![j][a].err = x] =
           [[encodes EXCEPT ![j][a].pc = p] EXCEPT ![j][a].err = x]
      /\ [encodes EXCEPT ![j][a].pc = p, ![j][a].row = r, ![j][a].err = x] =
           [[[encodes EXCEPT ![j][a].pc = p] EXCEPT ![j][a].row = r] EXCEPT ![j][a].err = x]
  OBVIOUS
<1>9. /\ [encodes EXCEPT ![j][a].pc = p, ![j][a].row = r] = [encodes EXCEPT ![j][a] = e2]
      /\ [encodes EXCEPT ![j][a].pc = p, ![j][a].err = x] = [encodes EXCEPT ![j][a] = [e1 EXCEPT !.err = x]]
      /\ [encodes EXCEPT ![j][a].pc = p, ![j][a].row = r, ![j][a].err = x] =
           [encodes EXCEPT ![j][a] = [e2 EXCEPT !.err = x]]
  <2>1. [encodes EXCEPT ![j][a].pc = p] = f1
    BY <1>3 DEF f1
  <2> QED
    BY <1>5, <1>6, <1>7, <1>8, <2>1 DEF f2
<1>10. /\ e2 = WithRow(encodes[j][a], p, r)
       /\ [e1 EXCEPT !.err = x] = WithErr(encodes[j][a], p, x)
       /\ [e2 EXCEPT !.err = x] = WithBoth(encodes[j][a], p, r, x)
  BY DEF e1, e2, WithRow, WithErr, WithBoth
<1> QED
  BY <1>9, <1>10 DEF SetRow, SetErr, SetBoth

LEMMA RowTogether ==
    ASSUME EncodeShape, NEW j \in JobNumbers, NEW a \in Artifacts, NEW p, NEW r
    PROVE  SetRow(j, a, p, r) = [encodes EXCEPT ![j][a] = WithRow(encodes[j][a], p, r)]
<1>1. /\ SetRow(j, a, p, r) = [encodes EXCEPT ![j][a] = WithRow(encodes[j][a], p, r)]
      /\ SetErr(j, a, p, r) = [encodes EXCEPT ![j][a] = WithErr(encodes[j][a], p, r)]
      /\ SetBoth(j, a, p, r, r) = [encodes EXCEPT ![j][a] = WithBoth(encodes[j][a], p, r, r)]
  BY FieldsTogether
<1> QED
  BY <1>1

LEMMA ErrTogether ==
    ASSUME EncodeShape, NEW j \in JobNumbers, NEW a \in Artifacts, NEW p, NEW x
    PROVE  SetErr(j, a, p, x) = [encodes EXCEPT ![j][a] = WithErr(encodes[j][a], p, x)]
<1>1. /\ SetErr(j, a, p, x) = [encodes EXCEPT ![j][a] = WithErr(encodes[j][a], p, x)]
      /\ SetRow(j, a, p, x) = [encodes EXCEPT ![j][a] = WithRow(encodes[j][a], p, x)]
      /\ SetBoth(j, a, p, x, x) = [encodes EXCEPT ![j][a] = WithBoth(encodes[j][a], p, x, x)]
  BY FieldsTogether
<1> QED
  BY <1>1

LEMMA BothTogether ==
    ASSUME EncodeShape, NEW j \in JobNumbers, NEW a \in Artifacts, NEW p, NEW r, NEW x
    PROVE  SetBoth(j, a, p, r, x) = [encodes EXCEPT ![j][a] = WithBoth(encodes[j][a], p, r, x)]
  BY FieldsTogether

LEMMA UnderWay ==
    ASSUME EncodeInv, NEW j \in JobNumbers, NEW a \in Artifacts, encodes[j][a].pc # "idle"
    PROVE  /\ j \in 1..Len(encodeJobs) /\ EncodeTask(j, a) \in TaskRows /\ EncodeTask(j, a).st \in Under
           /\ LiveTask(j, a) /\ HasTask(j, a)
           /\ encodes[j][a] \in EncodeRow /\ encodes[j][a].row \in ArtifactRow /\ artifact[a] \in ArtifactRow
<1>1. EncodeShape /\ LiveTask(j, a) /\ EncodeTask(j, a).st \in Under
  BY DEF EncodeInv, KeysOK
<1>2. j \in 1..Len(encodeJobs) /\ HasTask(j, a)
  BY <1>1 DEF LiveTask, HasTask, JobExists, Under
<1> QED
  BY <1>1, <1>2, EncodeKnown DEF EncodeRow

(* A step of a handler that has taken its artifact over.                    *)
LEMMA Works ==
    ASSUME EncodeInv, NEW j \in JobNumbers, NEW a \in Artifacts, NEW t \in TaskRows,
           NEW e \in EncodeRow, NEW r \in ArtifactRow, HandlerStep(j, a, t, e, r),
           Marked(j, a), t.st \in Under, e.pc \in {"load", "ffmpeg", "publish", "complete", "after"},
           r.ref = RefOf(a) \/ (Loaded(j, a) /\ r.ref = LoadedRef(j, a)),
           HasLoaded(e) =>
               \/ e.row.ref = RefOf(a) /\ r.ref = RefOf(a)
               \/ Loaded(j, a) /\ e.row.ref = LoadedRef(j, a),
           e.pc = "after" /\ e.err = "ok" /\ Tidy(a) => r.ready /\ e.row.ready,
           e.row.ref <= Len(encodeJobs)
    PROVE  EncodeInv'
<1>0. EncodeShape /\ KeysOK
  BY DEF EncodeInv
<1>1. j \in 1..Len(encodeJobs) /\ HasTask(j, a)
  BY UnderWay DEF Marked
<1>2. t.st # "none" /\ t.st \in TaskOpen
  BY DEF Under, TaskOpen
<1>3. RefOf(a) <= Len(encodeJobs) /\ LoadedRef(j, a) <= Len(encodeJobs)
  BY <1>0 DEF KeysOK
<1>4. ASSUME Tidy(a), HandlerStepped(j, a, t, e, r) PROVE RefsKept(a)' /\ DoneKept(a)'
  <2>1. RefsKept(a) /\ DoneKept(a)
    BY <1>4 DEF EncodeInv
  <2> QED
    BY <1>0, <1>1, <1>2, <1>4, <2>1, WorkKeeps
<1> QED
  BY <1>1, <1>2, <1>3, <1>4, StepKeeps

(* A handler starts or returns.                                             *)
LEMMA StartsOrEnds ==
    ASSUME EncodeInv, NEW j \in 1..Len(encodeJobs), NEW a \in Artifacts, NEW t \in TaskRows,
           NEW e \in EncodeRow, NEW r \in ArtifactRow, HandlerStep(j, a, t, e, r),
           HasTask(j, a), LiveTask(j, a), t.st # "none",
           e.pc \in {"idle", "claimed"}, e.pc = "claimed" => t.st \in Under,
           e.row = encodes[j][a].row, r.ref = RefOf(a), r.ready = artifact[a].ready,
           t.st = "succeeded" => e.pc = "idle" /\ Marked(j, a) /\ (Tidy(a) => r.ready)
    PROVE  EncodeInv'
<1>0. EncodeShape /\ KeysOK
  BY DEF EncodeInv
<1>1. RefOf(a) <= Len(encodeJobs) /\ e.row.ref <= Len(encodeJobs)
  <2>1. LoadedRef(j, a) <= Len(encodeJobs)
    BY <1>0, EncodeKnown DEF KeysOK
  <2> QED
    BY <1>0, <2>1 DEF KeysOK, LoadedRef
<1>2. ASSUME Tidy(a), HandlerStepped(j, a, t, e, r) PROVE RefsKept(a)' /\ DoneKept(a)'
  <2>1. RefsKept(a) /\ DoneKept(a)
    BY <1>2 DEF EncodeInv
  <2>2. CASE t.st = "succeeded"
    BY <1>0, <1>2, <2>1, <2>2, SucceedKeeps
  <2>3. CASE t.st # "succeeded"
    <3>1. t.st \notin {"none", "succeeded"}
      BY <2>3
    <3> QED
      BY <1>0, <1>2, <2>1, <3>1, EndKeeps
  <2> QED
    BY <2>2, <2>3
<1> QED
  BY <1>1, <1>2, StepKeeps

LEMMA EncodingHandlerStep ==
    ASSUME EncodeInv, NEW j \in JobNumbers, NEW a \in Artifacts, EncodingHandler(j, a)
    PROVE  EncodeInv'
<1> DEFINE t == Claimed(EncodeTask(j, a))
           e == WithPc(encodes[j][a], "claimed")
           r == artifact[a]
<1>0. EncodeShape /\ j \in 1..Len(encodeJobs) /\ Claimable(EncodeTask(j, a))
  BY DEF EncodeInv, EncodingHandler, JobExists
<1>1. EncodeTask(j, a) \in TaskRows /\ encodes[j][a] \in EncodeRow /\ r \in ArtifactRow
  BY <1>0, EncodeKnown
<1>2. t \in TaskRows /\ t.st = "running" /\ EncodeTask(j, a).st = "queued"
  BY <1>0, <1>1, TaskClaimed
<1>3. HasTask(j, a) /\ LiveTask(j, a)
  BY <1>0, <1>2 DEF HasTask, LiveTask, JobExists, TaskOpen
<1>4. e \in EncodeRow /\ e.pc = "claimed" /\ e.row = encodes[j][a].row
  <2>1. "claimed" \in EncodePcs
    BY DEF EncodePcs
  <2> QED
    BY <1>1, <2>1, PcField
<1>5. encodeJobs' = [encodeJobs EXCEPT ![j].tasks[a] = t]
  BY DEF EncodingHandler, EncodeTask
<1>6. encodes' = [encodes EXCEPT ![j][a] = e]
  BY DEF EncodingHandler, Moves, WithPc
<1>7. artifact' = [artifact EXCEPT ![a] = r] /\ UNCHANGED <<reconcile, retried, doubled>>
  BY <1>0, SameRows DEF EncodingHandler
<1>8. r.ref = RefOf(a) /\ r.ready = artifact[a].ready
  BY DEF RefOf
<1> HIDE DEF t, e, r
<1>9. HandlerStep(j, a, t, e, r)
  BY <1>5, <1>6, <1>7 DEF HandlerStep
<1> QED
  BY <1>0, <1>1, <1>2, <1>3, <1>4, <1>8, <1>9, StartsOrEnds DEF Under

(* The handler returns with how and leaves r.                               *)
LEMMA Finishes ==
    ASSUME EncodeInv, NEW j \in JobNumbers, NEW a \in Artifacts, encodes[j][a].pc # "idle",
           NEW how, NEW r \in ArtifactRow, Finish(j, a, how),
           artifact' = [artifact EXCEPT ![a] = r], UNCHANGED <<reconcile, retried, doubled>>,
           r.ref = RefOf(a), r.ready = artifact[a].ready,
           how = "ok" => Marked(j, a) /\ (Tidy(a) => r.ready)
    PROVE  EncodeInv'
<1> DEFINE t == FinishedRow(EncodeTask(j, a), how)
           e == [NoEncode EXCEPT !.row = encodes[j][a].row]
<1>0. /\ EncodeShape /\ j \in 1..Len(encodeJobs) /\ EncodeTask(j, a) \in TaskRows
      /\ EncodeTask(j, a).st \in Under /\ LiveTask(j, a) /\ HasTask(j, a) /\ encodes[j][a] \in EncodeRow
  BY UnderWay DEF EncodeInv
<1>1. t \in TaskRows /\ t.st # "none" /\ (t.st = "succeeded" => how = "ok")
  BY <1>0, TaskFinished
<1>2. e \in EncodeRow /\ e.pc = "idle" /\ e.row = encodes[j][a].row
  BY <1>0 DEF NoEncode, EncodeRow, EncodePcs
<1>3. encodeJobs' = [encodeJobs EXCEPT ![j].tasks[a] = t] /\ encodes' = [encodes EXCEPT ![j][a] = e]
  BY DEF Finish, EncodeTask
<1> HIDE DEF t, e
<1>4. HandlerStep(j, a, t, e, r)
  BY <1>3 DEF HandlerStep
<1> QED
  BY <1>0, <1>1, <1>2, <1>4, StartsOrEnds

LEMMA EncodingRefusedStep ==
    ASSUME EncodeInv, NEW j \in JobNumbers, NEW a \in Artifacts, EncodingRefused(j, a)
    PROVE  EncodeInv'
<1>1. encodes[j][a].pc # "idle" /\ UNCHANGED <<artifact, reconcile, retried, doubled>>
  BY DEF EncodingRefused, At
<1>2. PICK how \in {"canceled", "permanent", "transient"} : Finish(j, a, how)
  BY DEF EncodingRefused
<1>3. artifact' = [artifact EXCEPT ![a] = artifact[a]] /\ artifact[a] \in ArtifactRow
  BY <1>1, UnderWay, SameRows DEF EncodeInv
<1>4. artifact[a].ref = RefOf(a) /\ how # "ok"
  BY <1>2 DEF RefOf
<1> QED
  BY <1>1, <1>2, <1>3, <1>4, Finishes

LEMMA EncodingReturnsStep ==
    ASSUME EncodeInv, NEW j \in JobNumbers, NEW a \in Artifacts, EncodingReturns(j, a)
    PROVE  EncodeInv'
<1>1. encodes[j][a].pc = "after" /\ UNCHANGED <<reconcile, retried, doubled>> /\ Marked(j, a)
  BY DEF EncodingReturns, At, Marked
<1>0. artifact[a] \in ArtifactRow /\ encodes[j][a] \in EncodeRow /\ EncodeShape /\ j \in 1..Len(encodeJobs)
  BY <1>1, UnderWay DEF EncodeInv
<1>2. CASE encodes[j][a].ctx # "live"
  <2> DEFINE r == [artifact[a] EXCEPT !.encoding = FALSE, !.failed = FALSE]
  <2>1. r \in ArtifactRow /\ r.ref = RefOf(a) /\ r.ready = artifact[a].ready
    BY <1>0 DEF ArtifactRow, RefOf
  <2>2. ResetEncodingProjection(a) = [artifact EXCEPT ![a] = r]
    <3>1. artifact \in [Artifacts -> ArtifactRow]
      BY <1>0 DEF EncodeShape
    <3> DEFINE f == [artifact EXCEPT ![a].encoding = FALSE]
    <3>2. f[a] = [artifact[a] EXCEPT !.encoding = FALSE]
      BY <3>1
    <3>3. ResetEncodingProjection(a) = [f EXCEPT ![a].failed = FALSE]
      BY DEF ResetEncodingProjection
    <3>4. [f EXCEPT ![a].failed = FALSE] = [f EXCEPT ![a] = [f[a] EXCEPT !.failed = FALSE]]
      OBVIOUS
    <3>5. \A v : [f EXCEPT ![a] = v] = [artifact EXCEPT ![a] = v]
      BY <3>1
    <3> HIDE DEF f
    <3>6. [f[a] EXCEPT !.failed = FALSE] = r
      BY <3>2
    <3> QED
      BY <3>3, <3>4, <3>5, <3>6
  <2>3. artifact' = [artifact EXCEPT ![a] = r] /\ Finish(j, a, encodes[j][a].ctx)
    BY <1>2, <2>2 DEF EncodingReturns
  <2>4. encodes[j][a].ctx # "ok"
    BY <1>0 DEF EncodeRow
  <2> HIDE DEF r
  <2> QED
    BY <1>1, <2>1, <2>3, <2>4, Finishes
<1>3. CASE encodes[j][a].ctx = "live"
  <2>1. UNCHANGED artifact /\ (Finish(j, a, "transient") \/ Finish(j, a, encodes[j][a].err))
    BY <1>3 DEF EncodingReturns
  <2>2. artifact' = [artifact EXCEPT ![a] = artifact[a]] /\ artifact[a].ref = RefOf(a)
    BY <1>0, <2>1, SameRows DEF RefOf
  <2>3. encodes[j][a].err = "ok" /\ Tidy(a) => artifact[a].ready
    BY <1>1 DEF EncodeInv, DoneKept
  <2>4. "transient" # "ok" /\ encodes[j][a].pc # "idle"
    BY <1>1
  <2>5. CASE Finish(j, a, "transient")
    BY <1>0, <1>1, <2>2, <2>4, <2>5, Finishes
  <2>6. CASE Finish(j, a, encodes[j][a].err)
    BY <1>0, <1>1, <2>2, <2>3, <2>4, <2>6, Finishes
  <2> QED
    BY <2>1, <2>5, <2>6
<1> QED
  BY <1>2, <1>3

LEMMA MarkEncodingStartedStep ==
    ASSUME EncodeInv, NEW j \in JobNumbers, NEW a \in Artifacts, MarkEncodingStarted(j, a)
    PROVE  EncodeInv'
<1> DEFINE t == EncodeTask(j, a)
           e == WithPc(encodes[j][a], "load")
           r == [encoding |-> TRUE, failed |-> FALSE, ref |-> j, ready |-> artifact[a].ready]
<1>1. encodes[j][a].pc = "claimed"
  BY DEF MarkEncodingStarted, At
<1>0. /\ EncodeShape /\ KeysOK /\ j \in 1..Len(encodeJobs) /\ t \in TaskRows /\ t.st \in Under /\ HasTask(j, a)
      /\ encodes[j][a] \in EncodeRow /\ artifact[a] \in ArtifactRow
  BY <1>1, UnderWay DEF EncodeInv
<1>2. e \in EncodeRow /\ e.pc = "load" /\ e.row.ref <= Len(encodeJobs)
  <2>1. "load" \in EncodePcs
    BY DEF EncodePcs
  <2>2. encodes[j][a].row.ref <= Len(encodeJobs)
    BY <1>0 DEF KeysOK, LoadedRef
  <2> QED
    BY <1>0, <2>1, <2>2, PcField
<1>3. r \in ArtifactRow /\ r.ref = j /\ r.ready = artifact[a].ready /\ j \in Nat /\ j <= Len(encodeJobs)
  <2>1. Len(encodeJobs) \in Nat
    BY <1>0, EncodeKnown
  <2> QED
    BY <1>0, <2>1 DEF ArtifactRow
<1>4. encodeJobs' = [encodeJobs EXCEPT ![j].tasks[a] = t]
  BY <1>0, SameRows DEF MarkEncodingStarted
<1>5. encodes' = [encodes EXCEPT ![j][a] = e]
  BY DEF MarkEncodingStarted, Moves, WithPc
<1>6. artifact' = [artifact EXCEPT ![a] = r] /\ UNCHANGED <<reconcile, retried, doubled>>
  BY DEF MarkEncodingStarted
<1>7. t.st # "none" /\ t.st \in Under
  BY <1>0 DEF Under
<1> HIDE DEF e, r
<1>8. HandlerStep(j, a, t, e, r)
  BY <1>4, <1>5, <1>6 DEF HandlerStep
<1>9. ASSUME Tidy(a), HandlerStepped(j, a, t, e, r) PROVE RefsKept(a)' /\ DoneKept(a)'
  <2>1. RefsKept(a) /\ DoneKept(a)
    BY <1>9 DEF EncodeInv
  <2> QED
    BY <1>0, <1>1, <1>2, <1>3, <1>9, <2>1, MarkKeeps
<1> HIDE DEF t
<1> QED
  BY <1>0, <1>2, <1>3, <1>7, <1>8, <1>9, StepKeeps

(* Only the row and the handler change.                                     *)
LEMMA WorksOnRow ==
    ASSUME EncodeInv, NEW j \in JobNumbers, NEW a \in Artifacts,
           NEW e \in EncodeRow, NEW r \in ArtifactRow, Marked(j, a),
           UNCHANGED <<encodeJobs, reconcile, retried, doubled>>,
           encodes' = [encodes EXCEPT ![j][a] = e], artifact' = [artifact EXCEPT ![a] = r],
           e.pc \in {"load", "ffmpeg", "publish", "complete", "after"},
           r.ref = RefOf(a) \/ (Loaded(j, a) /\ r.ref = LoadedRef(j, a)),
           HasLoaded(e) =>
               \/ e.row.ref = RefOf(a) /\ r.ref = RefOf(a)
               \/ Loaded(j, a) /\ e.row.ref = LoadedRef(j, a),
           e.pc = "after" /\ e.err = "ok" /\ Tidy(a) => r.ready /\ e.row.ready,
           e.row.ref <= Len(encodeJobs)
    PROVE  EncodeInv'
<1> DEFINE t == EncodeTask(j, a)
<1>0. encodes[j][a].pc # "idle"
  BY DEF Marked
<1>1. EncodeShape /\ j \in 1..Len(encodeJobs) /\ t \in TaskRows /\ t.st \in Under
  BY <1>0, UnderWay DEF EncodeInv
<1>2. encodeJobs' = [encodeJobs EXCEPT ![j].tasks[a] = t]
  BY <1>1, SameRows
<1> HIDE DEF t
<1>3. HandlerStep(j, a, t, e, r)
  BY <1>2 DEF HandlerStep
<1> QED
  BY <1>1, <1>3, Works

LEMMA SavedRows ==
    ASSUME NEW r \in ArtifactRow
    PROVE  /\ FailEncodingTask(r) \in ArtifactRow /\ FailEncodingTask(r).ref = r.ref
           /\ CompleteEncodingTask(r) \in ArtifactRow /\ CompleteEncodingTask(r).ref = r.ref
           /\ CompleteEncodingTask(r).ready
  BY DEF ArtifactRow, FailEncodingTask, CompleteEncodingTask

LEMMA FailsKeeps ==
    ASSUME EncodeInv, NEW j \in JobNumbers, NEW a \in Artifacts, NEW r \in ArtifactRow,
           NEW err \in {"transient", "permanent"}, Marked(j, a), Fails(j, a, r, err),
           UNCHANGED <<encodeJobs, reconcile, retried, doubled>>,
           Loaded(j, a), r.ref = LoadedRef(j, a)
    PROVE  EncodeInv'
<1> DEFINE w == FailEncodingTask(r)
           e == WithBoth(encodes[j][a], "after", w, err)
<1>0. EncodeShape /\ encodes[j][a] \in EncodeRow
  BY UnderWay DEF EncodeInv, Marked
<1>1. w \in ArtifactRow /\ w.ref = r.ref
  BY SavedRows
<1>2. artifact' = [artifact EXCEPT ![a] = w]
  BY DEF Fails
<1>3. encodes' = SetBoth(j, a, "after", w, err)
  BY DEF Fails, SetBoth
<1> HIDE DEF w
<1>4. encodes' = [encodes EXCEPT ![j][a] = e]
  BY <1>0, <1>3, BothTogether
<1>5. e \in EncodeRow /\ e.pc = "after" /\ e.row = w /\ e.err = err
  <2>1. "after" \in EncodePcs
    BY DEF EncodePcs
  <2> QED
    BY <1>0, <1>1, <2>1, BothFields
<1> HIDE DEF e
<1>6. /\ e.err # "ok" /\ e.pc \in {"load", "ffmpeg", "publish", "complete", "after"}
      /\ e.row.ref = LoadedRef(j, a) /\ e.row.ref <= Len(encodeJobs)
  BY <1>1, <1>5 DEF EncodeInv, KeysOK
<1> QED
  BY <1>1, <1>2, <1>4, <1>5, <1>6, WorksOnRow

LEMMA RunEncodeStep ==
    ASSUME EncodeInv, NEW j \in JobNumbers, NEW a \in Artifacts, RunEncode(j, a)
    PROVE  EncodeInv'
<1>1. Marked(j, a) /\ UNCHANGED <<encodeJobs, reconcile, retried, doubled>> /\ encodes[j][a].pc # "idle"
  BY DEF RunEncode, At, Marked
<1>0. /\ EncodeShape /\ j \in 1..Len(encodeJobs) /\ encodes[j][a] \in EncodeRow /\ artifact[a] \in ArtifactRow
      /\ artifact[a].ref = RefOf(a)
  BY <1>1, UnderWay DEF EncodeInv, RefOf
<1>2. CASE fileRow /\ source
  <2> DEFINE e == WithRow(encodes[j][a], "ffmpeg", artifact[a])
  <2>1. encodes' = SetRow(j, a, "ffmpeg", artifact[a]) /\ UNCHANGED artifact
    BY <1>2 DEF RunEncode, SetRow
  <2>2. encodes' = [encodes EXCEPT ![j][a] = e]
    BY <1>0, <2>1, RowTogether
  <2>3. e \in EncodeRow /\ e.pc = "ffmpeg" /\ e.row = artifact[a]
    <3>1. "ffmpeg" \in EncodePcs
      BY DEF EncodePcs
    <3> QED
      BY <1>0, <3>1, RowField
  <2>4. artifact' = [artifact EXCEPT ![a] = artifact[a]]
    BY <1>0, <2>1, SameRows
  <2> HIDE DEF e
  <2>5. /\ e.pc # "after" /\ e.row.ref = RefOf(a) /\ e.pc \in {"load", "ffmpeg", "publish", "complete", "after"}
        /\ e.row.ref <= Len(encodeJobs)
    BY <1>0, <2>3 DEF EncodeInv, KeysOK
  <2> QED
    BY <1>0, <1>1, <2>2, <2>3, <2>4, <2>5, WorksOnRow
<1>3. CASE ~ (fileRow /\ source)
  <2>1. PICK err \in {"transient", "permanent"} :
          encodes' = [encodes EXCEPT ![j][a] = WithBoth(@, "after", NewArtifact, err)]
    BY <1>3 DEF RunEncode, WithBoth
  <2> DEFINE e == WithBoth(encodes[j][a], "after", NewArtifact, err)
             r == FailEncodingTask(artifact[a])
  <2>2. encodes' = [encodes EXCEPT ![j][a] = e] /\ artifact' = [artifact EXCEPT ![a] = r]
    BY <1>3, <2>1 DEF RunEncode
  <2>3. /\ e \in EncodeRow /\ e.pc = "after" /\ e.row = NewArtifact /\ e.err # "ok"
        /\ NewArtifact.ref = 0
    <3>1. "after" \in EncodePcs
      BY DEF EncodePcs
    <3>2. NewArtifact \in ArtifactRow /\ NewArtifact.ref = 0
      BY DEF NewArtifact, ArtifactRow
    <3> QED
      BY <1>0, <3>1, <3>2, BothFields
  <2>4. r \in ArtifactRow /\ r.ref = RefOf(a)
    BY <1>0, SavedRows
  <2> HIDE DEF e, r
  <2>5. ~ HasLoaded(e) /\ e.pc \in {"load", "ffmpeg", "publish", "complete", "after"}
        /\ e.row.ref <= Len(encodeJobs)
    BY <1>0, <2>3, EncodeKnown DEF HasLoaded
  <2> QED
    BY <1>1, <2>2, <2>3, <2>4, <2>5, WorksOnRow
<1> QED
  BY <1>2, <1>3

(* A step of a handler that has loaded its row.                             *)
LEMMA EncodeLoaded ==
    ASSUME EncodeInv, NEW j \in JobNumbers, NEW a \in Artifacts, Loaded(j, a)
    PROVE  /\ EncodeShape /\ j \in 1..Len(encodeJobs) /\ encodes[j][a] \in EncodeRow /\ Marked(j, a)
           /\ encodes[j][a].row \in ArtifactRow /\ encodes[j][a].row.ref = LoadedRef(j, a)
           /\ artifact[a] \in ArtifactRow /\ artifact[a].ref = RefOf(a)
           /\ artifact = [artifact EXCEPT ![a] = artifact[a]]
           /\ EncodeTask(j, a) \in TaskRows /\ EncodeTask(j, a).st \in Under
<1>1. Marked(j, a) /\ encodes[j][a].pc # "idle"
  BY DEF Loaded, HasLoaded, Marked
<1>2. EncodeShape
  BY DEF EncodeInv
<1>3. artifact[a].ref = RefOf(a) /\ encodes[j][a].row.ref = LoadedRef(j, a)
  BY DEF RefOf, LoadedRef
<1>4. artifact = [artifact EXCEPT ![a] = artifact[a]]
  BY <1>2 DEF EncodeShape
<1> QED
  BY <1>1, <1>2, <1>3, <1>4, UnderWay

(* The listener of a handler that returned changes one row, of an artifact  *)
(* that is not tidy any more.                                               *)
LEMMA LateSaveStep ==
    ASSUME EncodeInv, NEW j \in JobNumbers, NEW a \in Artifacts,
           artifact' = [artifact EXCEPT ![a] = encodes[j][a].row], doubled' = doubled \cup {a},
           UNCHANGED <<encodeJobs, encodes, reconcile, retried>>
    PROVE  EncodeInv'
<1>0. EncodeShape /\ KeysOK /\ encodes[j][a].row \in ArtifactRow
  <2>1. EncodeShape /\ KeysOK
    BY DEF EncodeInv
  <2>2. encodes[j][a] \in EncodeRow
    BY <2>1, EncodeKnown
  <2> QED
    BY <2>1, <2>2 DEF EncodeRow
<1>1. EncodeShape' /\ SameJobs
  BY <1>0 DEF EncodeShape, SameJobs
<1>2. /\ RefOf(a)' = LoadedRef(j, a)
      /\ \A b \in Artifacts : b # a => artifact'[b] = artifact[b] /\ RefOf(b)' = RefOf(b)
  BY <1>0 DEF EncodeShape, RefOf, LoadedRef
<1>3. \A b \in Artifacts : RefOf(b)' <= Len(encodeJobs)
  BY <1>0, <1>2 DEF KeysOK
<1>4. \A m, b : /\ (HasTask(m, b)' <=> HasTask(m, b)) /\ (LiveTask(m, b)' <=> LiveTask(m, b))
                /\ (DoneTask(m, b)' <=> DoneTask(m, b)) /\ EncodeTask(m, b)' = EncodeTask(m, b)
  BY DEF HasTask, LiveTask, DoneTask, JobExists, EncodeTask
<1>5. \A i, b : /\ (Marked(i, b)' <=> Marked(i, b)) /\ (Loaded(i, b)' <=> Loaded(i, b))
                /\ LoadedRef(i, b)' = LoadedRef(i, b)
  BY DEF Marked, Loaded, LoadedRef
<1>6. KeysOK'
  <2>1. \A i \in JobNumbers, b \in Artifacts :
          /\ encodes'[i][b].pc # "idle" => LiveTask(i, b)' /\ EncodeTask(i, b)'.st \in Under
          /\ LoadedRef(i, b)' <= Len(encodeJobs)
    BY <1>0, <1>4, <1>5 DEF KeysOK
  <2> QED
    BY <1>0, <1>1, <1>3, <1>4, <2>1, KeysGoOn
<1>7. ASSUME NEW b \in Artifacts, Tidy(b)' PROVE RefsKept(b)' /\ DoneKept(b)'
  <2>1. b # a /\ RefsKept(b) /\ DoneKept(b)
    BY <1>7 DEF Tidy, EncodeInv
  <2>2. QuietFor(b)
    BY <1>2, <1>4, <1>5, <2>1 DEF QuietFor
  <2> QED
    BY <1>0, <1>1, <2>1, <2>2, Quiet
<1> QED
  BY <1>1, <1>6, <1>7 DEF EncodeInv

LEMMA ProgressSavedStep ==
    ASSUME EncodeInv, NEW j \in JobNumbers, NEW a \in Artifacts, ProgressSaved(j, a)
    PROVE  EncodeInv'
<1>1. /\ artifact' = [artifact EXCEPT ![a] = encodes[j][a].row]
      /\ doubled' = IF Loaded(j, a) THEN doubled ELSE doubled \cup {a}
      /\ UNCHANGED <<encodeJobs, encodes, reconcile, retried>>
  BY DEF ProgressSaved, Loaded
<1>2. CASE ~ Loaded(j, a)
  BY <1>1, <1>2, LateSaveStep
<1>3. CASE Loaded(j, a)
  <2>1. /\ encodes[j][a] \in EncodeRow /\ encodes[j][a].row \in ArtifactRow /\ Marked(j, a)
        /\ encodes[j][a].row.ref = LoadedRef(j, a) /\ EncodeShape /\ j \in 1..Len(encodeJobs)
    BY <1>3, EncodeLoaded
  <2>2. encodes' = [encodes EXCEPT ![j][a] = encodes[j][a]]
    BY <1>1, <2>1, SameRows
  <2>3. encodes[j][a].pc \in {"load", "ffmpeg", "publish", "complete", "after"}
    BY <2>1 DEF Marked
  <2>4. encodes[j][a].pc = "after" /\ encodes[j][a].err = "ok" /\ Tidy(a) => encodes[j][a].row.ready
    BY DEF EncodeInv, DoneKept
  <2>5. encodes[j][a].row.ref <= Len(encodeJobs)
    BY DEF EncodeInv, KeysOK, LoadedRef
  <2> QED
    BY <1>1, <1>3, <2>1, <2>2, <2>3, <2>4, <2>5, WorksOnRow
<1> QED
  BY <1>2, <1>3

LEMMA FfmpegEndsStep ==
    ASSUME EncodeInv, NEW j \in JobNumbers, NEW a \in Artifacts, FfmpegEnds(j, a)
    PROVE  EncodeInv'
<1>1. Loaded(j, a) /\ encodes[j][a].pc = "ffmpeg" /\ UNCHANGED <<reconcile, retried, doubled>>
  BY DEF FfmpegEnds, At, Loaded, HasLoaded
<1>0. /\ EncodeShape /\ j \in 1..Len(encodeJobs) /\ encodes[j][a] \in EncodeRow /\ Marked(j, a)
      /\ encodes[j][a].row \in ArtifactRow /\ encodes[j][a].row.ref = LoadedRef(j, a)
      /\ artifact[a] \in ArtifactRow /\ artifact[a].ref = RefOf(a)
      /\ artifact = [artifact EXCEPT ![a] = artifact[a]]
      /\ EncodeTask(j, a) \in TaskRows /\ EncodeTask(j, a).st \in Under
      /\ LoadedRef(j, a) <= Len(encodeJobs)
  BY <1>1, EncodeLoaded DEF EncodeInv, KeysOK
<1>2. CASE Fails(j, a, encodes[j][a].row, "permanent") /\ UNCHANGED encodeJobs
  <2>1. "permanent" \in {"transient", "permanent"}
    OBVIOUS
  <2> QED
    BY <1>0, <1>1, <1>2, <2>1, FailsKeeps
<1>3. CASE /\ CommitAllowed(EncodeTask(j, a)) /\ Moves(j, a, "publish") /\ UNCHANGED artifact
           /\ encodeJobs' = [encodeJobs EXCEPT ![j].tasks[a].commit = TRUE]
  <2> DEFINE t == [EncodeTask(j, a) EXCEPT !.commit = TRUE]
             e == WithPc(encodes[j][a], "publish")
  <2>1. t \in TaskRows /\ t.st \in Under
    BY <1>0, TaskNames DEF TaskRows
  <2>2. e \in EncodeRow /\ e.pc = "publish" /\ e.row = encodes[j][a].row
    <3>1. "publish" \in EncodePcs
      BY DEF EncodePcs
    <3> QED
      BY <1>0, <3>1, PcField
  <2>3. encodeJobs' = [encodeJobs EXCEPT ![j].tasks[a] = t]
    BY <1>3 DEF EncodeTask
  <2>4. encodes' = [encodes EXCEPT ![j][a] = e]
    BY <1>3 DEF Moves, WithPc
  <2>5. artifact' = [artifact EXCEPT ![a] = artifact[a]]
    BY <1>0, <1>3
  <2> HIDE DEF t, e
  <2>6. HandlerStep(j, a, t, e, artifact[a])
    BY <1>1, <2>3, <2>4, <2>5 DEF HandlerStep
  <2>7. /\ e.pc # "after" /\ e.pc \in {"load", "ffmpeg", "publish", "complete", "after"}
        /\ e.row.ref = LoadedRef(j, a)
    BY <1>0, <2>2
  <2> QED
    BY <1>0, <1>1, <2>1, <2>2, <2>6, <2>7, Works
<1>4. CASE /\ encodes' = [encodes EXCEPT ![j][a].pc = "after", ![j][a].err = "permanent"]
           /\ UNCHANGED <<encodeJobs, artifact>>
  <2> DEFINE e == WithErr(encodes[j][a], "after", "permanent")
  <2>1. encodes' = SetErr(j, a, "after", "permanent")
    BY <1>4 DEF SetErr
  <2>2. encodes' = [encodes EXCEPT ![j][a] = e]
    BY <1>0, <2>1, ErrTogether
  <2>3. e \in EncodeRow /\ e.pc = "after" /\ e.row = encodes[j][a].row /\ e.err = "permanent"
    <3>1. "after" \in EncodePcs /\ "permanent" \in {"transient", "permanent"}
      BY DEF EncodePcs
    <3> QED
      BY <1>0, <3>1, ErrField
  <2>4. artifact' = [artifact EXCEPT ![a] = artifact[a]]
    BY <1>0, <1>4
  <2> HIDE DEF e
  <2>5. /\ e.err # "ok" /\ e.row.ref = LoadedRef(j, a) /\ e.row.ref <= Len(encodeJobs)
        /\ e.pc \in {"load", "ffmpeg", "publish", "complete", "after"}
    BY <1>0, <2>3
  <2> QED
    BY <1>0, <1>1, <1>4, <2>2, <2>3, <2>4, <2>5, WorksOnRow
<1> QED
  BY <1>2, <1>3, <1>4, Zenon DEF FfmpegEnds

LEMMA PublishEncodingOutputStep ==
    ASSUME EncodeInv, NEW j \in JobNumbers, NEW a \in Artifacts, PublishEncodingOutput(j, a)
    PROVE  EncodeInv'
<1>1. /\ Loaded(j, a) /\ encodes[j][a].pc = "publish" /\ UNCHANGED <<encodeJobs, reconcile, retried, doubled>>
      /\ (Moves(j, a, "complete") /\ UNCHANGED artifact) \/ Fails(j, a, encodes[j][a].row, "transient")
  BY DEF PublishEncodingOutput, At, Loaded, HasLoaded
<1>0. /\ EncodeShape /\ j \in 1..Len(encodeJobs) /\ encodes[j][a] \in EncodeRow /\ Marked(j, a)
      /\ encodes[j][a].row \in ArtifactRow /\ encodes[j][a].row.ref = LoadedRef(j, a)
      /\ artifact[a] \in ArtifactRow /\ artifact[a].ref = RefOf(a)
      /\ artifact = [artifact EXCEPT ![a] = artifact[a]]
      /\ LoadedRef(j, a) <= Len(encodeJobs)
  BY <1>1, EncodeLoaded DEF EncodeInv, KeysOK
<1>2. CASE Moves(j, a, "complete") /\ UNCHANGED artifact
  <2> DEFINE e == WithPc(encodes[j][a], "complete")
  <2>1. e \in EncodeRow /\ e.pc = "complete" /\ e.row = encodes[j][a].row
    <3>1. "complete" \in EncodePcs
      BY DEF EncodePcs
    <3> QED
      BY <1>0, <3>1, PcField
  <2>2. encodes' = [encodes EXCEPT ![j][a] = e]
    BY <1>2 DEF Moves, WithPc
  <2>3. artifact' = [artifact EXCEPT ![a] = artifact[a]]
    BY <1>0, <1>2
  <2> HIDE DEF e
  <2>4. /\ e.pc # "after" /\ e.pc \in {"load", "ffmpeg", "publish", "complete", "after"}
        /\ e.row.ref = LoadedRef(j, a)
    BY <1>0, <2>1
  <2> QED
    BY <1>0, <1>1, <2>1, <2>2, <2>3, <2>4, WorksOnRow
<1>3. CASE Fails(j, a, encodes[j][a].row, "transient")
  <2>1. "transient" \in {"transient", "permanent"}
    OBVIOUS
  <2> QED
    BY <1>0, <1>1, <1>3, <2>1, FailsKeeps
<1> QED
  BY <1>1, <1>2, <1>3

LEMMA EncodeCompletesStep ==
    ASSUME EncodeInv, NEW j \in JobNumbers, NEW a \in Artifacts, EncodeCompletes(j, a)
    PROVE  EncodeInv'
<1> DEFINE r == CompleteEncodingTask(encodes[j][a].row)
           e == WithRow(encodes[j][a], "after", r)
<1>1. Loaded(j, a) /\ UNCHANGED <<encodeJobs, reconcile, retried, doubled>>
  BY DEF EncodeCompletes, At, Loaded, HasLoaded
<1>0. /\ EncodeShape /\ encodes[j][a] \in EncodeRow /\ Marked(j, a)
      /\ encodes[j][a].row \in ArtifactRow /\ encodes[j][a].row.ref = LoadedRef(j, a)
      /\ LoadedRef(j, a) <= Len(encodeJobs)
  BY <1>1, EncodeLoaded DEF EncodeInv, KeysOK
<1>2. r \in ArtifactRow /\ r.ref = LoadedRef(j, a) /\ r.ready
  BY <1>0, SavedRows
<1>3. artifact' = [artifact EXCEPT ![a] = r]
  BY DEF EncodeCompletes
<1>4. encodes' = SetRow(j, a, "after", r)
  <2>1. [encodes EXCEPT ![j][a].pc = "after"][j][a].row = encodes[j][a].row
    BY <1>0 DEF EncodeShape, EncodeRow
  <2> QED
    BY <2>1 DEF EncodeCompletes, SetRow
<1> HIDE DEF r
<1>5. encodes' = [encodes EXCEPT ![j][a] = e]
  BY <1>0, <1>4, RowTogether
<1>6. e \in EncodeRow /\ e.pc = "after" /\ e.row = r
  <2>1. "after" \in EncodePcs
    BY DEF EncodePcs
  <2> QED
    BY <1>0, <1>2, <2>1, RowField
<1> HIDE DEF e
<1>7. /\ e.pc \in {"load", "ffmpeg", "publish", "complete", "after"}
      /\ e.row.ref = LoadedRef(j, a) /\ e.row.ready
  BY <1>2, <1>6
<1> QED
  BY <1>0, <1>1, <1>2, <1>3, <1>5, <1>6, <1>7, WorksOnRow

LEMMA CancelSignaledStep ==
    ASSUME EncodeInv, NEW j \in JobNumbers, NEW a \in Artifacts, CancelSignaled(j, a)
    PROVE  EncodeInv'
<1> DEFINE e == Stopped(encodes[j][a], "canceled")
           t == EncodeTask(j, a)
<1>1. /\ j \in 1..Len(encodeJobs) /\ EncodeShape
      /\ UNCHANGED <<artifact, encodeJobs, reconcile, retried, doubled>>
      /\ encodes' = [encodes EXCEPT ![j][a] = e] /\ encodes' # encodes
  BY DEF CancelSignaled, JobExists, EncodeInv
<1>2. encodes[j][a].pc # "idle"
  <2>1. encodes = [encodes EXCEPT ![j][a] = encodes[j][a]]
    BY <1>1, SameRows
  <2> QED
    BY <1>1, <2>1 DEF Stopped
<1>3. /\ t \in TaskRows /\ t.st \in Under /\ LiveTask(j, a) /\ HasTask(j, a)
      /\ encodes[j][a] \in EncodeRow /\ artifact[a] \in ArtifactRow
  BY <1>2, UnderWay
<1>4. /\ e \in EncodeRow /\ e.pc = encodes[j][a].pc /\ e.row = encodes[j][a].row /\ e.err = encodes[j][a].err
  BY <1>3 DEF EncodeRow, Stopped
<1>5. artifact' = [artifact EXCEPT ![a] = artifact[a]] /\ encodeJobs' = [encodeJobs EXCEPT ![j].tasks[a] = t]
  BY <1>1, SameRows
<1>6. artifact[a].ref = RefOf(a) /\ encodes[j][a].row.ref = LoadedRef(j, a)
  BY DEF RefOf, LoadedRef
<1>7. t.st # "none" /\ t.st # "succeeded"
  BY <1>3 DEF Under
<1> HIDE DEF e, t
<1>8. HandlerStep(j, a, t, e, artifact[a])
  BY <1>1, <1>5 DEF HandlerStep
<1>9. CASE encodes[j][a].pc = "claimed"
  <2>1. e.pc \in {"idle", "claimed"}
    BY <1>4, <1>9
  <2> QED
    BY <1>1, <1>3, <1>4, <1>6, <1>7, <1>8, <2>1, StartsOrEnds
<1>10. CASE encodes[j][a].pc # "claimed"
  <2>1. encodes[j][a].pc \in {"load", "ffmpeg", "publish", "complete", "after"} /\ Marked(j, a)
    BY <1>2, <1>3, <1>10 DEF EncodeRow, EncodePcs, Marked
  <2>2. HasLoaded(e) => Loaded(j, a) /\ e.row.ref = LoadedRef(j, a)
    BY <1>4, <1>6 DEF Loaded, HasLoaded
  <2>3. e.pc = "after" /\ e.err = "ok" /\ Tidy(a) => artifact[a].ready /\ e.row.ready
    BY <1>4 DEF EncodeInv, DoneKept
  <2>4. e.row.ref <= Len(encodeJobs)
    BY <1>4 DEF EncodeInv, KeysOK, LoadedRef
  <2> QED
    BY <1>1, <1>3, <1>4, <1>6, <1>8, <2>1, <2>2, <2>3, <2>4, Works
<1> QED
  BY <1>9, <1>10

(* What happens to all tasks or handlers at once: no task is made, none of  *)
(* a tidy artifact is opened or ends well, and handlers go on or stop.      *)
Calmer(d, e) == (e.pc = "idle" /\ e.row \in {d.row, NewArtifact}) \/ (e.pc = d.pc /\ e.row = d.row /\ e.err = d.err)
TaskStep(t, u) ==
    /\ u \in TaskRows /\ (u.st = "none" <=> t.st = "none")
    /\ u.st \in TaskOpen => t.st \in TaskOpen
    /\ u.st = "succeeded" => t.st = "succeeded"

LEMMA AllQuiet ==
    ASSUME EncodeInv, encodeJobs' \in Seq(EncodeJob), SameJobs, artifact' = artifact,
           encodes' \in [JobNumbers -> [Artifacts -> EncodeRow]],
           reconcile' = reconcile \/ reconcile' = IdleReconcile,
           retried \subseteq retried', doubled \subseteq doubled',
           \A m \in 1..Len(encodeJobs), a \in Artifacts :
               encodeJobs'[m].tasks[a].st = "none" <=> EncodeTask(m, a).st = "none",
           \A m \in 1..Len(encodeJobs), a \in Artifacts :
               Tidy(a)' => TaskStep(EncodeTask(m, a), encodeJobs'[m].tasks[a]),
           \A j \in JobNumbers, a \in Artifacts : Calmer(encodes[j][a], encodes'[j][a]),
           \A j \in 1..Len(encodeJobs), a \in Artifacts :
               encodes'[j][a].pc # "idle" /\ EncodeTask(j, a).st \in Under =>
                   encodeJobs'[j].tasks[a].st \in Under
    PROVE  EncodeInv'
<1>0. EncodeShape /\ KeysOK
  BY DEF EncodeInv
<1>1. <<>> \in EncodeKeys /\ IdleReconcile \in ReconcileRow /\ IdleReconcile.pc = "idle"
  BY NoKey0 DEF IdleReconcile, ReconcileRow
<1>2. EncodeShape'
  BY <1>0, <1>1 DEF EncodeShape, SameJobs
<1>3. reconcile' = reconcile \/ reconcile'.pc = "idle"
  BY <1>1
<1>4. \A m \in 1..Len(encodeJobs), a \in Artifacts :
        /\ JobExists(m) /\ JobExists(m)' /\ EncodeTask(m, a)' = encodeJobs'[m].tasks[a]
  BY DEF JobExists, SameJobs, EncodeTask
<1>5. \A m \in 1..Len(encodeJobs), a \in Artifacts : HasTask(m, a)' <=> HasTask(m, a)
  BY <1>4 DEF HasTask
<1>6. \A a \in Artifacts : RefOf(a)' = RefOf(a) /\ RefOf(a) <= Len(encodeJobs)
  BY <1>0 DEF RefOf, KeysOK
<1>7. ASSUME NEW j \in JobNumbers, NEW a \in Artifacts
      PROVE  /\ encodes'[j][a].pc # "idle" => LiveTask(j, a)' /\ EncodeTask(j, a)'.st \in Under
             /\ LoadedRef(j, a)' <= Len(encodeJobs)
             /\ Marked(j, a)' => Marked(j, a)
             /\ Loaded(j, a)' => Loaded(j, a) /\ LoadedRef(j, a)' = LoadedRef(j, a)
             /\ encodes'[j][a].pc = "after" /\ encodes'[j][a].err = "ok" =>
                    /\ encodes[j][a].pc = "after" /\ encodes[j][a].err = "ok"
                    /\ encodes'[j][a].row = encodes[j][a].row
  <2>1. Calmer(encodes[j][a], encodes'[j][a])
    OBVIOUS
  <2>2. CASE encodes'[j][a].pc = "idle"
    <3>1. ~ Marked(j, a)' /\ ~ Loaded(j, a)'
      BY <2>2 DEF Marked, Loaded, HasLoaded
    <3>2. LoadedRef(j, a)' \in {LoadedRef(j, a), 0}
      BY <2>1, <2>2 DEF Calmer, LoadedRef, NewArtifact
    <3>3. LoadedRef(j, a) <= Len(encodeJobs) /\ 0 <= Len(encodeJobs)
      BY <1>0, EncodeKnown DEF KeysOK
    <3> QED
      BY <2>2, <3>1, <3>2, <3>3
  <2>3. CASE encodes'[j][a].pc # "idle"
    <3>1. /\ encodes'[j][a].pc = encodes[j][a].pc /\ encodes'[j][a].row = encodes[j][a].row
          /\ encodes'[j][a].err = encodes[j][a].err /\ encodes[j][a].pc # "idle"
      BY <2>1, <2>3 DEF Calmer
    <3>2. /\ (Marked(j, a)' <=> Marked(j, a)) /\ (Loaded(j, a)' <=> Loaded(j, a))
          /\ LoadedRef(j, a)' = LoadedRef(j, a)
      BY <3>1 DEF Marked, Loaded, HasLoaded, LoadedRef
    <3>3. j \in 1..Len(encodeJobs) /\ EncodeTask(j, a).st \in Under
      BY <3>1, UnderWay
    <3>4. EncodeTask(j, a)'.st \in Under /\ JobExists(j)'
      BY <1>4, <2>3, <3>3
    <3>5. LiveTask(j, a)'
      BY <3>4 DEF LiveTask, Under, TaskOpen
    <3>6. LoadedRef(j, a) <= Len(encodeJobs)
      BY <1>0 DEF KeysOK
    <3> QED
      BY <3>1, <3>2, <3>4, <3>5, <3>6
  <2> QED
    BY <2>2, <2>3
<1>8. KeysOK'
  BY <1>0, <1>3, <1>5, <1>6, <1>7, KeysGoOn
<1>9. ASSUME NEW a \in Artifacts, Tidy(a)' PROVE RefsKept(a)' /\ DoneKept(a)'
  <2>1. Tidy(a)
    BY <1>9 DEF Tidy
  <2>2. RefsKept(a) /\ DoneKept(a)
    BY <2>1 DEF EncodeInv
  <2>3. \A m \in 1..Len(encodeJobs) : /\ (HasTask(m, a)' <=> HasTask(m, a))
                                      /\ LiveTask(m, a)' => LiveTask(m, a)
                                      /\ DoneTask(m, a)' => DoneTask(m, a)
    <3>1. \A m \in 1..Len(encodeJobs) : TaskStep(EncodeTask(m, a), EncodeTask(m, a)')
      BY <1>4, <1>9
    <3> QED
      BY <1>4, <1>5, <3>1 DEF TaskStep, LiveTask, DoneTask
  <2>4. RefOf(a)' = RefOf(a) /\ artifact'[a].ready = artifact[a].ready
    BY <1>6
  <2>5. QuietFor(a)
    BY <1>3, <1>7, <2>3, <2>4 DEF QuietFor
  <2> QED
    BY <1>0, <2>2, <2>5, Quiet
<1> QED
  BY <1>2, <1>8, <1>9 DEF EncodeInv

(* The tasks of a job as a whole.                                           *)
LEMMA JobTasks ==
    ASSUME NEW w \in EncodeJob, NEW ts \in [Artifacts -> TaskRows]
    PROVE  /\ [w EXCEPT !.tasks = ts] \in EncodeJob
           /\ [w EXCEPT !.tasks = ts].key = w.key /\ [w EXCEPT !.tasks = ts].tasks = ts
  BY DEF EncodeJob

LEMMA CanceledStep ==
    ASSUME NEW t \in TaskRows
    PROVE  TaskStep(t, CanceledRow(t)) /\ (t.st \in Under => CanceledRow(t).st \in Under)
<1> DEFINE s == CASE t.st \in {"queued", "held"} -> "canceled"
                  [] t.st = "running" -> "cancel_requested"
                  [] OTHER -> t.st
<1>1. CanceledRow(t) = [t EXCEPT !.st = s]
  BY DEF CanceledRow
<1>2. s \in TaskStates /\ (s \in TaskOpen => t.st \in TaskOpen)
  BY TaskNames DEF TaskOpen
<1> HIDE DEF s
<1>3. CanceledRow(t).st = s
  BY <1>1, <1>2, RowChange
<1> QED
  BY <1>2, <1>3, TaskCanceled DEF TaskStep

LEMMA RecoveredStep ==
    ASSUME NEW t \in TaskRows
    PROVE  TaskStep(t, RecoveredRow(t))
<1>1. t.st \in Under => t.st \in TaskOpen
  BY DEF Under, TaskOpen
<1> QED
  BY <1>1, TaskRecovered DEF TaskStep

LEMMA SameStep ==
    ASSUME NEW t \in TaskRows
    PROVE  TaskStep(t, t)
  BY DEF TaskStep

(* CancelJob for a whole job.                                               *)
LEMMA CanceledJobRow ==
    ASSUME EncodeShape, NEW j \in 1..Len(encodeJobs)
    PROVE  /\ CanceledJob(j) \in EncodeJob /\ CanceledJob(j).key = encodeJobs[j].key
           /\ \A a \in Artifacts : /\ CanceledJob(j).tasks[a] = CanceledRow(EncodeTask(j, a))
                                   /\ TaskStep(EncodeTask(j, a), CanceledJob(j).tasks[a])
                                   /\ EncodeTask(j, a).st \in Under => CanceledJob(j).tasks[a].st \in Under
<1> DEFINE ts == [a \in Artifacts |-> CanceledRow(encodeJobs[j].tasks[a])]
<1>1. encodeJobs[j] \in EncodeJob /\ \A a \in Artifacts : EncodeTask(j, a) \in TaskRows
  BY EncodeKnown
<1>2. \A a \in Artifacts : TaskStep(EncodeTask(j, a), CanceledRow(EncodeTask(j, a)))
  BY <1>1, CanceledStep
<1>3. ts \in [Artifacts -> TaskRows] /\ \A a \in Artifacts : ts[a] = CanceledRow(EncodeTask(j, a))
  BY <1>1, <1>2 DEF TaskStep, EncodeTask
<1>4. CanceledJob(j) = [encodeJobs[j] EXCEPT !.tasks = ts]
  BY DEF CanceledJob
<1> HIDE DEF ts
<1>5. CanceledJob(j) \in EncodeJob /\ CanceledJob(j).key = encodeJobs[j].key /\ CanceledJob(j).tasks = ts
  BY <1>1, <1>3, <1>4, JobTasks
<1>6. \A a \in Artifacts : EncodeTask(j, a).st \in Under => CanceledRow(EncodeTask(j, a)).st \in Under
  BY <1>1, CanceledStep
<1> QED
  BY <1>2, <1>3, <1>5, <1>6

(* The jobs are rewritten row by row, the handlers left alone.              *)
LEMMA SameHandlers ==
    ASSUME EncodeInv, encodes' = encodes
    PROVE  /\ encodes' \in [JobNumbers -> [Artifacts -> EncodeRow]]
           /\ \A j \in JobNumbers, a \in Artifacts : Calmer(encodes[j][a], encodes'[j][a])
  BY DEF EncodeInv, EncodeShape, Calmer

LEMMA SameJobRows ==
    ASSUME EncodeInv, encodeJobs' = encodeJobs
    PROVE  /\ encodeJobs' \in Seq(EncodeJob) /\ SameJobs
           /\ \A m \in 1..Len(encodeJobs), a \in Artifacts :
                /\ encodeJobs'[m].tasks[a] = EncodeTask(m, a)
                /\ TaskStep(EncodeTask(m, a), encodeJobs'[m].tasks[a])
<1>1. encodeJobs' \in Seq(EncodeJob) /\ SameJobs
  BY DEF EncodeInv, EncodeShape, SameJobs
<1>2. \A m \in 1..Len(encodeJobs), a \in Artifacts :
        encodeJobs'[m].tasks[a] = EncodeTask(m, a) /\ EncodeTask(m, a) \in TaskRows
  BY EncodeKnown DEF EncodeInv, EncodeTask
<1>3. \A m \in 1..Len(encodeJobs), a \in Artifacts : TaskStep(EncodeTask(m, a), encodeJobs'[m].tasks[a])
  BY <1>2, SameStep
<1> QED
  BY <1>1, <1>2, <1>3

LEMMA CancelsKeepEncodes ==
    ASSUME EncodeInv, NEW S, UNCHANGED <<artifact, encodes, reconcile, retried, doubled>>,
           encodeJobs' = [j \in DOMAIN encodeJobs |-> IF j \in S THEN CanceledJob(j) ELSE encodeJobs[j]]
    PROVE  EncodeInv'
<1>0. /\ EncodeShape /\ Len(encodeJobs) \in Nat /\ DOMAIN encodeJobs = 1..Len(encodeJobs)
      /\ \A j \in 1..Len(encodeJobs) : encodeJobs[j] \in EncodeJob
      /\ \A m \in 1..Len(encodeJobs), a \in Artifacts : EncodeTask(m, a) \in TaskRows
  BY EncodeKnown DEF EncodeInv
<1>1. \A j \in 1..Len(encodeJobs) : encodeJobs'[j] = IF j \in S THEN CanceledJob(j) ELSE encodeJobs[j]
  BY <1>0
<1>2. ASSUME NEW j \in 1..Len(encodeJobs)
      PROVE  /\ encodeJobs'[j] \in EncodeJob /\ encodeJobs'[j].key = encodeJobs[j].key
             /\ \A a \in Artifacts : /\ TaskStep(EncodeTask(j, a), encodeJobs'[j].tasks[a])
                                     /\ EncodeTask(j, a).st \in Under => encodeJobs'[j].tasks[a].st \in Under
  <2>1. CASE j \in S
    BY <1>0, <1>1, <2>1, CanceledJobRow
  <2>2. CASE j \notin S
    <3>1. encodeJobs'[j] = encodeJobs[j] /\ \A a \in Artifacts : encodeJobs'[j].tasks[a] = EncodeTask(j, a)
      BY <1>1, <2>2 DEF EncodeTask
    <3> QED
      BY <1>0, <3>1, SameStep
  <2> QED
    BY <2>1, <2>2
<1>3. encodeJobs' \in [1..Len(encodeJobs) -> EncodeJob]
  BY <1>0, <1>1, <1>2
<1>4. encodeJobs' \in Seq(EncodeJob) /\ Len(encodeJobs') = Len(encodeJobs)
  BY <1>0, <1>3
<1>5. SameJobs
  BY <1>2, <1>4 DEF SameJobs
<1>6. /\ encodes' \in [JobNumbers -> [Artifacts -> EncodeRow]]
      /\ \A j \in JobNumbers, a \in Artifacts : Calmer(encodes[j][a], encodes'[j][a])
  BY SameHandlers
<1>7. /\ \A m \in 1..Len(encodeJobs), a \in Artifacts : TaskStep(EncodeTask(m, a), encodeJobs'[m].tasks[a])
      /\ \A m \in 1..Len(encodeJobs), a \in Artifacts :
           encodeJobs'[m].tasks[a].st = "none" <=> EncodeTask(m, a).st = "none"
      /\ \A m \in 1..Len(encodeJobs), a \in Artifacts :
           EncodeTask(m, a).st \in Under => encodeJobs'[m].tasks[a].st \in Under
  BY <1>2 DEF TaskStep
<1> QED
  BY <1>4, <1>5, <1>6, <1>7, AllQuiet

LEMMA CancelEncodeJobStep ==
    ASSUME EncodeInv, NEW j \in JobNumbers, CancelEncodeJob(j)
    PROVE  EncodeInv'
<1>0. EncodeShape /\ encodeJobs \in Seq(EncodeJob) /\ DOMAIN encodeJobs = 1..Len(encodeJobs)
  BY EncodeKnown DEF EncodeInv, EncodeShape
<1>1. /\ encodeJobs' = [encodeJobs EXCEPT ![j] = CanceledJob(j)]
      /\ UNCHANGED <<artifact, encodes, reconcile, retried, doubled>>
  BY DEF CancelEncodeJob
<1>2. encodeJobs' = [i \in DOMAIN encodeJobs |-> IF i \in {j} THEN CanceledJob(i) ELSE encodeJobs[i]]
  BY <1>0, <1>1
<1> QED
  BY <1>1, <1>2, CancelsKeepEncodes

LEMMA DisableEncodingStep == EncodeInv /\ DisableEncoding => EncodeInv'
<1> SUFFICES ASSUME EncodeInv, DisableEncoding PROVE EncodeInv'
  OBVIOUS
<1> DEFINE S == {i \in DOMAIN encodeJobs : Cancelable(i)}
<1>1. /\ encodeJobs' = [i \in DOMAIN encodeJobs |-> IF i \in S THEN CanceledJob(i) ELSE encodeJobs[i]]
      /\ UNCHANGED <<artifact, encodes, reconcile, retried, doubled>>
  BY DEF DisableEncoding
<1> HIDE DEF S
<1> QED
  BY <1>1, CancelsKeepEncodes

(* RetryJob: what is tidy afterwards has no task in the job.                *)
LEMMA RetryEncodeJobStep ==
    ASSUME EncodeInv, NEW j \in JobNumbers, RetryEncodeJob(j)
    PROVE  EncodeInv'
<1> DEFINE ts == [a \in Artifacts |-> RetriedRow(encodeJobs[j].tasks[a])]
           w == [encodeJobs[j] EXCEPT !.tasks = ts]
<1>0. /\ EncodeShape /\ KeysOK /\ encodeJobs \in Seq(EncodeJob) /\ DOMAIN encodeJobs = 1..Len(encodeJobs)
      /\ j \in 1..Len(encodeJobs) /\ encodeJobs[j] \in EncodeJob
      /\ \A m \in 1..Len(encodeJobs), a \in Artifacts : EncodeTask(m, a) \in TaskRows
  BY EncodeKnown DEF EncodeInv, EncodeShape, RetryEncodeJob, JobExists
<1>1. /\ encodeJobs' = [encodeJobs EXCEPT ![j] = w]
      /\ retried' = retried \cup {a \in Artifacts : EncodeTask(j, a).st # "none"}
      /\ UNCHANGED <<artifact, encodes, reconcile, doubled>>
  BY DEF RetryEncodeJob
<1>2. \A a \in Artifacts : RetriedRow(EncodeTask(j, a)) \in TaskRows
                           /\ (RetriedRow(EncodeTask(j, a)).st = "none" <=> EncodeTask(j, a).st = "none")
                           /\ (EncodeTask(j, a).st \in Under \cup {"none"} => RetriedRow(EncodeTask(j, a)) = EncodeTask(j, a))
  <2> SUFFICES ASSUME NEW a \in Artifacts
               PROVE  /\ RetriedRow(EncodeTask(j, a)) \in TaskRows
                      /\ (RetriedRow(EncodeTask(j, a)).st = "none" <=> EncodeTask(j, a).st = "none")
                      /\ (EncodeTask(j, a).st \in Under \cup {"none"} => RetriedRow(EncodeTask(j, a)) = EncodeTask(j, a))
    OBVIOUS
  <2>1. EncodeTask(j, a) \in TaskRows
    BY <1>0
  <2> QED
    BY <2>1, TaskRetried DEF Under
<1>3. ts \in [Artifacts -> TaskRows] /\ \A a \in Artifacts : ts[a] = RetriedRow(EncodeTask(j, a))
  BY <1>2 DEF EncodeTask
<1> HIDE DEF ts
<1>4. w \in EncodeJob /\ w.key = encodeJobs[j].key /\ w.tasks = ts
  BY <1>0, <1>3, JobTasks
<1> HIDE DEF w
<1>5. encodeJobs' \in Seq(EncodeJob) /\ Len(encodeJobs') = Len(encodeJobs)
  BY <1>0, <1>1, <1>4
<1>6. \A m \in 1..Len(encodeJobs) : encodeJobs'[m] = IF m = j THEN w ELSE encodeJobs[m]
  BY <1>0, <1>1
<1>7. SameJobs
  BY <1>4, <1>5, <1>6 DEF SameJobs
<1>8. ASSUME NEW m \in 1..Len(encodeJobs), NEW a \in Artifacts
      PROVE  /\ encodeJobs'[m].tasks[a].st = "none" <=> EncodeTask(m, a).st = "none"
             /\ Tidy(a)' => TaskStep(EncodeTask(m, a), encodeJobs'[m].tasks[a])
             /\ EncodeTask(m, a).st \in Under => encodeJobs'[m].tasks[a].st \in Under
  <2>1. CASE m = j
    <3>1. encodeJobs'[m].tasks[a] = RetriedRow(EncodeTask(m, a))
      BY <1>3, <1>4, <1>6, <2>1
    <3>2. Tidy(a)' => EncodeTask(m, a).st = "none"
      BY <1>1, <2>1 DEF Tidy
    <3>3. Tidy(a)' => encodeJobs'[m].tasks[a] = EncodeTask(m, a)
      BY <1>2, <2>1, <3>1, <3>2
    <3>4. EncodeTask(m, a) \in TaskRows
      BY <1>0
    <3>5. Tidy(a)' => TaskStep(EncodeTask(m, a), encodeJobs'[m].tasks[a])
      BY <3>3, <3>4, SameStep
    <3> QED
      BY <1>2, <2>1, <3>1, <3>5
  <2>2. CASE m # j
    <3>1. encodeJobs'[m].tasks[a] = EncodeTask(m, a) /\ EncodeTask(m, a) \in TaskRows
      BY <1>0, <1>6, <2>2 DEF EncodeTask
    <3> QED
      BY <3>1, SameStep
  <2> QED
    BY <2>1, <2>2
<1>9. /\ encodes' \in [JobNumbers -> [Artifacts -> EncodeRow]]
      /\ \A i \in JobNumbers, a \in Artifacts : Calmer(encodes[i][a], encodes'[i][a])
  BY <1>1, SameHandlers
<1> QED
  BY <1>1, <1>5, <1>7, <1>8, <1>9, AllQuiet

(* The contexts of handlers end.                                            *)
LEMMA StoppedRow ==
    ASSUME NEW e \in EncodeRow
    PROVE  /\ Stopped(e, "canceled") \in EncodeRow /\ Calmer(e, Stopped(e, "canceled"))
           /\ Stopped(e, "interrupted") \in EncodeRow /\ Calmer(e, Stopped(e, "interrupted"))
           /\ Calmer(e, e)
  BY DEF Stopped, EncodeRow, Calmer

LEMMA HandlersStop ==
    ASSUME EncodeInv, UNCHANGED <<artifact, encodeJobs, reconcile, retried, doubled>>,
           encodes' \in [JobNumbers -> [Artifacts -> EncodeRow]],
           \A j \in JobNumbers, a \in Artifacts : Calmer(encodes[j][a], encodes'[j][a])
    PROVE  EncodeInv'
<1>1. /\ encodeJobs' \in Seq(EncodeJob) /\ SameJobs
      /\ \A m \in 1..Len(encodeJobs), a \in Artifacts :
           /\ encodeJobs'[m].tasks[a] = EncodeTask(m, a)
           /\ TaskStep(EncodeTask(m, a), encodeJobs'[m].tasks[a])
  BY SameJobRows
<1> QED
  BY <1>1, AllQuiet

LEMMA CancelActiveStep == EncodeInv /\ CancelActiveEncodingsForFile => EncodeInv'
<1> SUFFICES ASSUME EncodeInv, CancelActiveEncodingsForFile PROVE EncodeInv'
  OBVIOUS
<1>1. UNCHANGED <<artifact, encodeJobs, reconcile, retried, doubled>>
  BY DEF CancelActiveEncodingsForFile
<1>2. \A j \in JobNumbers, a \in Artifacts : encodes[j][a] \in EncodeRow
  BY EncodeKnown DEF EncodeInv
<1>3. /\ encodes' \in [JobNumbers -> [Artifacts -> EncodeRow]]
      /\ \A j \in JobNumbers, a \in Artifacts : Calmer(encodes[j][a], encodes'[j][a])
  BY <1>2, StoppedRow DEF CancelActiveEncodingsForFile
<1> QED
  BY <1>1, <1>3, HandlersStop

LEMMA EncoderStopsStep == EncodeInv /\ EncoderStops => EncodeInv'
<1> SUFFICES ASSUME EncodeInv, EncoderStops PROVE EncodeInv'
  OBVIOUS
<1>1. UNCHANGED <<artifact, encodeJobs, reconcile, retried, doubled>>
  BY DEF EncoderStops
<1>2. \A j \in JobNumbers, a \in Artifacts : encodes[j][a] \in EncodeRow
  BY EncodeKnown DEF EncodeInv
<1>3. /\ encodes' \in [JobNumbers -> [Artifacts -> EncodeRow]]
      /\ \A j \in JobNumbers, a \in Artifacts : Calmer(encodes[j][a], encodes'[j][a])
  BY <1>2, StoppedRow DEF EncoderStops
<1> QED
  BY <1>1, <1>3, HandlersStop

LEMMA EncoderCrashStep == EncodeInv /\ EncoderCrash => EncodeInv'
<1> SUFFICES ASSUME EncodeInv, EncoderCrash PROVE EncodeInv'
  OBVIOUS
<1>0. /\ EncodeShape /\ Len(encodeJobs) \in Nat /\ DOMAIN encodeJobs = 1..Len(encodeJobs)
      /\ \A j \in 1..Len(encodeJobs) : encodeJobs[j] \in EncodeJob
      /\ \A m \in 1..Len(encodeJobs), a \in Artifacts : EncodeTask(m, a) \in TaskRows
  BY EncodeKnown DEF EncodeInv
<1>1. /\ encodes' = [j \in JobNumbers |-> [a \in Artifacts |-> NoEncode]]
      /\ reconcile' = IdleReconcile /\ UNCHANGED <<artifact, retried, doubled>>
  BY DEF EncoderCrash
<1>2. ASSUME NEW j \in 1..Len(encodeJobs)
      PROVE  /\ encodeJobs'[j] \in EncodeJob /\ encodeJobs'[j].key = encodeJobs[j].key
             /\ \A a \in Artifacts : TaskStep(EncodeTask(j, a), encodeJobs'[j].tasks[a])
  <2> DEFINE ts == [a \in Artifacts |-> RecoveredRow(encodeJobs[j].tasks[a])]
  <2>1. encodeJobs'[j] = [encodeJobs[j] EXCEPT !.tasks = ts]
    BY <1>0 DEF EncoderCrash
  <2>2. \A a \in Artifacts : TaskStep(EncodeTask(j, a), RecoveredRow(EncodeTask(j, a)))
    BY <1>0, RecoveredStep
  <2>3. ts \in [Artifacts -> TaskRows] /\ \A a \in Artifacts : ts[a] = RecoveredRow(EncodeTask(j, a))
    BY <2>2 DEF TaskStep, EncodeTask
  <2> HIDE DEF ts
  <2>4. encodeJobs'[j] \in EncodeJob /\ encodeJobs'[j].key = encodeJobs[j].key /\ encodeJobs'[j].tasks = ts
    BY <1>0, <2>1, <2>3, JobTasks
  <2> QED
    BY <2>2, <2>3, <2>4
<1>3. DOMAIN encodeJobs' = 1..Len(encodeJobs) /\ encodeJobs' = [j \in DOMAIN encodeJobs' |-> encodeJobs'[j]]
  BY <1>0 DEF EncoderCrash
<1>4. encodeJobs' \in [1..Len(encodeJobs) -> EncodeJob]
  BY <1>2, <1>3
<1>5. encodeJobs' \in Seq(EncodeJob) /\ Len(encodeJobs') = Len(encodeJobs)
  BY <1>0, <1>4
<1>6. SameJobs
  BY <1>2, <1>5 DEF SameJobs
<1>7. NoEncode \in EncodeRow /\ NoEncode.pc = "idle"
  BY DEF NoEncode, NewArtifact, EncodeRow, EncodePcs, ArtifactRow
<1>8. /\ encodes' \in [JobNumbers -> [Artifacts -> EncodeRow]]
      /\ \A j \in JobNumbers, a \in Artifacts : encodes'[j][a].pc = "idle" /\ Calmer(encodes[j][a], encodes'[j][a])
  BY <1>1, <1>7 DEF Calmer, NoEncode
<1>9. \A j \in 1..Len(encodeJobs), a \in Artifacts : encodes'[j][a].pc = "idle"
  BY <1>0, <1>8, EncodeKnown
<1>10. \A m \in 1..Len(encodeJobs), a \in Artifacts :
          /\ TaskStep(EncodeTask(m, a), encodeJobs'[m].tasks[a])
          /\ encodeJobs'[m].tasks[a].st = "none" <=> EncodeTask(m, a).st = "none"
  BY <1>2 DEF TaskStep
<1> QED
  BY <1>1, <1>5, <1>6, <1>8, <1>9, <1>10, AllQuiet

(* Steps of the settings and of the clean-up.                               *)
LEMMA EncodingsUntouched ==
    ASSUME EncodeInv, UNCHANGED <<artifact, encodeJobs, encodes, reconcile, retried, doubled>>
    PROVE  EncodeInv'
<1>1. /\ encodeJobs' \in Seq(EncodeJob) /\ SameJobs
      /\ \A m \in 1..Len(encodeJobs), a \in Artifacts :
           /\ encodeJobs'[m].tasks[a] = EncodeTask(m, a)
           /\ TaskStep(EncodeTask(m, a), encodeJobs'[m].tasks[a])
  BY SameJobRows
<1>2. /\ encodes' \in [JobNumbers -> [Artifacts -> EncodeRow]]
      /\ \A j \in JobNumbers, a \in Artifacts : Calmer(encodes[j][a], encodes'[j][a])
  BY SameHandlers
<1> QED
  BY <1>1, <1>2, AllQuiet

(* Retain: a job that is over loses its tasks and its key.                  *)
LEMMA RetainEncodeJobStep ==
    ASSUME EncodeInv, NEW j \in JobNumbers, RetainEncodeJob(j)
    PROVE  EncodeInv'
<1> DEFINE w == JobFor({}, <<>>)
<1>0. /\ EncodeShape /\ KeysOK /\ encodeJobs \in Seq(EncodeJob) /\ DOMAIN encodeJobs = 1..Len(encodeJobs)
      /\ Len(encodeJobs) \in Nat /\ j \in 1..Len(encodeJobs)
  BY EncodeKnown DEF EncodeInv, EncodeShape, RetainEncodeJob, JobExists
<1>1. /\ encodeJobs' = [encodeJobs EXCEPT ![j] = w] /\ \A a \in Artifacts : encodes[j][a].pc = "idle"
      /\ UNCHANGED <<artifact, encodes, reconcile, retried, doubled>>
  BY DEF RetainEncodeJob
<1>2. w \in EncodeJob /\ DOMAIN w.key = {} /\ \A a \in Artifacts : w.tasks[a].st = "none"
  <2>1. w.key = <<>> /\ w.tasks = [a \in Artifacts |-> NoTaskRow] /\ w = [key |-> w.key, tasks |-> w.tasks]
    BY DEF JobFor
  <2>2. DOMAIN <<>> = {}
    OBVIOUS
  <2> HIDE DEF w
  <2>3. w.tasks \in [Artifacts -> TaskRows] /\ \A a \in Artifacts : w.tasks[a].st = "none"
    BY <2>1, TaskNames
  <2>4. w \in EncodeJob
    BY <2>1, <2>3, NoKey0 DEF EncodeJob
  <2> QED
    BY <2>1, <2>2, <2>3, <2>4
<1> HIDE DEF w
<1>3. encodeJobs' \in Seq(EncodeJob) /\ Len(encodeJobs') = Len(encodeJobs)
  BY <1>0, <1>1, <1>2
<1>4. encodeJobs'[j] = w /\ \A m \in 1..Len(encodeJobs) : m # j => encodeJobs'[m] = encodeJobs[m]
  BY <1>0, <1>1
<1>5. EncodeShape'
  BY <1>0, <1>1, <1>3 DEF EncodeShape
<1>6. ASSUME NEW a \in Artifacts
      PROVE  /\ ~ HasTask(j, a)' /\ ~ LiveTask(j, a)' /\ ~ DoneTask(j, a)' /\ ~ Keyed(j, a)'
             /\ reconcile.pc # "idle" => ~ SameKeyed(j)'
  <2>1. EncodeTask(j, a)'.st = "none" /\ DOMAIN encodeJobs'[j].key = {}
    BY <1>2, <1>4 DEF EncodeTask
  <2>2. reconcile.pc # "idle" => DOMAIN reconcile.key # {}
    BY <1>0 DEF KeysOK
  <2> QED
    BY <1>1, <2>1, <2>2 DEF HasTask, LiveTask, DoneTask, Keyed, SameKeyed, TaskOpen
<1>7. ASSUME NEW m \in 1..Len(encodeJobs), m # j, NEW a \in Artifacts
      PROVE  /\ (HasTask(m, a)' <=> HasTask(m, a)) /\ (LiveTask(m, a)' <=> LiveTask(m, a))
             /\ (DoneTask(m, a)' <=> DoneTask(m, a)) /\ (Keyed(m, a)' <=> Keyed(m, a))
             /\ KeyOf(m, a)' = KeyOf(m, a) /\ (SameKeyed(m)' <=> SameKeyed(m))
             /\ EncodeTask(m, a)' = EncodeTask(m, a)
  <2>1. encodeJobs'[m] = encodeJobs[m] /\ (JobExists(m)' <=> JobExists(m)) /\ EncodeTask(m, a)' = EncodeTask(m, a)
    BY <1>3, <1>4, <1>7 DEF JobExists, EncodeTask
  <2> QED
    BY <1>1, <2>1 DEF HasTask, LiveTask, DoneTask, Keyed, KeyOf, SameKeyed
<1>8. \A a \in Artifacts :
        /\ (Waits(a)' <=> Waits(a)) /\ RefOf(a)' = RefOf(a)
        /\ \A i \in JobNumbers : /\ (Marked(i, a)' <=> Marked(i, a)) /\ (Loaded(i, a)' <=> Loaded(i, a))
                                 /\ LoadedRef(i, a)' = LoadedRef(i, a)
  BY <1>1 DEF Waits, RefOf, Marked, Loaded, LoadedRef
<1>9. ASSUME NEW a \in Artifacts, Refers(a)' PROVE Refers(a) /\ reconcile.job # j
  <2>1. PICK m \in 1..Len(encodeJobs) : m = reconcile.job
    BY <1>1, <1>3, <1>9 DEF Refers, HasTask, JobExists
  <2>2. HasTask(m, a)' /\ reconcile.pc = "refer"
    BY <1>1, <1>9, <2>1 DEF Refers, HasTask, JobExists, EncodeTask
  <2>3. m # j /\ HasTask(m, a)
    BY <1>6, <1>7, <2>2
  <2> QED
    BY <2>1, <2>2, <2>3 DEF Refers
<1>10. KeysOK'
  <2>1. \A m \in 1..Len(encodeJobs'), a \in Artifacts :
          /\ Keyed(m, a)' => KeyOf(m, a)' < m /\ HasTask(m, a)'
          /\ HasTask(m, a)' /\ DOMAIN encodeJobs'[m].key # {} => Keyed(m, a)'
    BY <1>0, <1>3, <1>4, <1>6, <1>7 DEF KeysOK
  <2>2. /\ reconcile'.pc # "idle" => DOMAIN reconcile'.key = reconcile'.pending /\ reconcile'.pending # {}
        /\ reconcile'.pc = "refer" => JobExists(reconcile.job)'
    BY <1>0, <1>1, <1>3 DEF KeysOK, JobExists
  <2>3. ASSUME NEW a \in Artifacts, Refers(a)' PROVE SameKeyed(reconcile.job)'
    <3>1. Refers(a) /\ reconcile.job # j /\ reconcile' = reconcile
      BY <1>1, <1>9, <2>3
    <3>2. PICK m \in 1..Len(encodeJobs) : m = reconcile.job
      BY <3>1 DEF Refers, HasTask, JobExists
    <3>3. SameKeyed(m)
      BY <1>0, <3>1, <3>2 DEF KeysOK
    <3>4. SameKeyed(m)'
      BY <1>7, <3>1, <3>2, <3>3
    <3> QED
      BY <3>1, <3>2, <3>4 DEF SameKeyed, JobExists
  <2>4. \A a \in Artifacts : /\ Waits(a)' => reconcile'.key[a] <= Len(encodeJobs')
                             /\ RefOf(a)' <= Len(encodeJobs')
    BY <1>0, <1>1, <1>3, <1>8 DEF KeysOK
  <2>5. ASSUME NEW i \in JobNumbers, NEW a \in Artifacts
        PROVE  /\ encodes'[i][a].pc # "idle" => LiveTask(i, a)' /\ EncodeTask(i, a)'.st \in Under
               /\ LoadedRef(i, a)' <= Len(encodeJobs')
    <3>1. LoadedRef(i, a)' <= Len(encodeJobs')
      BY <1>0, <1>3, <1>8 DEF KeysOK
    <3>2. ASSUME encodes'[i][a].pc # "idle" PROVE LiveTask(i, a)' /\ EncodeTask(i, a)'.st \in Under
      <4>1. i # j /\ encodes[i][a].pc # "idle"
        BY <1>1, <3>2
      <4>2. i \in 1..Len(encodeJobs) /\ LiveTask(i, a) /\ EncodeTask(i, a).st \in Under
        BY <4>1, UnderWay
      <4> QED
        BY <1>7, <4>1, <4>2
    <3> QED
      BY <3>1, <3>2
  <2> QED
    BY <2>1, <2>2, <2>3, <2>4, <2>5 DEF KeysOK
<1>11. ASSUME NEW a \in Artifacts, Tidy(a)' PROVE RefsKept(a)' /\ DoneKept(a)'
  <2>1. RefsKept(a) /\ DoneKept(a)
    BY <1>1, <1>11 DEF EncodeInv, Tidy
  <2>2. /\ \A m \in 1..Len(encodeJobs) :
             /\ HasTask(m, a)' => HasTask(m, a)
             /\ LiveTask(m, a)' => LiveTask(m, a)
             /\ DoneTask(m, a)' => DoneTask(m, a)
             /\ Keyed(m, a)' => Keyed(m, a) /\ KeyOf(m, a)' = KeyOf(m, a)
             /\ reconcile.pc # "idle" /\ SameKeyed(m)' => SameKeyed(m)
    BY <1>6, <1>7
  <2>3. Waits(a) => reconcile.pc # "idle"
    BY DEF Waits
  <2>4. Refers(a)' => Refers(a)
    BY <1>9
  <2>5. RefsKept(a)'
    BY <1>1, <1>3, <1>8, <2>1, <2>2, <2>3, <2>4 DEF RefsKept
  <2>6. DoneKept(a)'
    BY <1>1, <1>3, <1>8, <2>1, <2>2, <2>3, <2>4 DEF DoneKept
  <2> QED
    BY <2>5, <2>6
<1> QED
  BY <1>5, <1>10, <1>11 DEF EncodeInv

(* Steps of the reconciliation that make no task: the rows of the tasks and *)
(* of the handlers stay.                                                    *)
LEMMA JobsStay ==
    ASSUME encodeJobs' = encodeJobs, encodes' = encodes
    PROVE  /\ SameJobs /\ Len(encodeJobs') = Len(encodeJobs)
           /\ \A a \in Artifacts, m \in 1..Len(encodeJobs) :
                /\ (HasTask(m, a)' <=> HasTask(m, a)) /\ (LiveTask(m, a)' <=> LiveTask(m, a))
                /\ (DoneTask(m, a)' <=> DoneTask(m, a)) /\ (Keyed(m, a)' <=> Keyed(m, a))
                /\ KeyOf(m, a)' = KeyOf(m, a) /\ EncodeTask(m, a)' = EncodeTask(m, a)
           /\ \A a \in Artifacts, j \in JobNumbers :
                /\ (Marked(j, a)' <=> Marked(j, a)) /\ (Loaded(j, a)' <=> Loaded(j, a))
                /\ LoadedRef(j, a)' = LoadedRef(j, a) /\ encodes'[j][a] = encodes[j][a]
           /\ \A m : (JobExists(m)' <=> JobExists(m))
<1>1. /\ \A a \in Artifacts, m \in 1..Len(encodeJobs) : EncodeTask(m, a)' = EncodeTask(m, a)
      /\ \A m : (JobExists(m)' <=> JobExists(m))
  BY DEF EncodeTask, JobExists
<1>2. \A a \in Artifacts, m \in 1..Len(encodeJobs) :
        /\ (HasTask(m, a)' <=> HasTask(m, a)) /\ (LiveTask(m, a)' <=> LiveTask(m, a))
        /\ (DoneTask(m, a)' <=> DoneTask(m, a)) /\ (Keyed(m, a)' <=> Keyed(m, a))
        /\ KeyOf(m, a)' = KeyOf(m, a)
  BY <1>1 DEF HasTask, LiveTask, DoneTask, Keyed, KeyOf
<1>3. \A a \in Artifacts, j \in JobNumbers :
        /\ (Marked(j, a)' <=> Marked(j, a)) /\ (Loaded(j, a)' <=> Loaded(j, a))
        /\ LoadedRef(j, a)' = LoadedRef(j, a) /\ encodes'[j][a] = encodes[j][a]
  BY DEF Marked, Loaded, LoadedRef
<1> QED
  BY <1>1, <1>2, <1>3 DEF SameJobs

(* What every such step has to show of the keys.                            *)
LEMMA KeysStand ==
    ASSUME EncodeShape, KeysOK, encodeJobs' = encodeJobs, encodes' = encodes,
           reconcile'.pc # "idle" => DOMAIN reconcile'.key = reconcile'.pending /\ reconcile'.pending # {},
           reconcile'.pc = "refer" => JobExists(reconcile'.job),
           \A a \in Artifacts :
               /\ Refers(a)' => encodeJobs[reconcile'.job].key = reconcile'.key
               /\ Waits(a)' => reconcile'.key[a] <= Len(encodeJobs)
               /\ RefOf(a)' <= Len(encodeJobs)
    PROVE  KeysOK'
<1>1. /\ Len(encodeJobs') = Len(encodeJobs)
      /\ \A m \in 1..Len(encodeJobs), a \in Artifacts :
           /\ Keyed(m, a)' => KeyOf(m, a)' < m /\ HasTask(m, a)'
           /\ HasTask(m, a)' /\ DOMAIN encodeJobs'[m].key # {} => Keyed(m, a)'
  BY JobsStay DEF KeysOK
<1>2. \A j \in JobNumbers, a \in Artifacts :
        /\ encodes'[j][a].pc # "idle" => LiveTask(j, a)' /\ EncodeTask(j, a)'.st \in Under
        /\ LoadedRef(j, a)' <= Len(encodeJobs)
  <2> SUFFICES ASSUME NEW j \in JobNumbers, NEW a \in Artifacts
               PROVE  /\ encodes'[j][a].pc # "idle" => LiveTask(j, a)' /\ EncodeTask(j, a)'.st \in Under
                      /\ LoadedRef(j, a)' <= Len(encodeJobs)
    OBVIOUS
  <2>1. LoadedRef(j, a)' <= Len(encodeJobs)
    BY JobsStay DEF KeysOK
  <2>2. ASSUME encodes[j][a].pc # "idle" PROVE LiveTask(j, a)' /\ EncodeTask(j, a)'.st \in Under
    <3>1. LiveTask(j, a) /\ EncodeTask(j, a).st \in Under
      BY <2>2 DEF KeysOK
    <3>2. j \in 1..Len(encodeJobs)
      BY <3>1 DEF LiveTask, JobExists
    <3> QED
      BY <3>1, <3>2, JobsStay
  <2> QED
    BY <2>1, <2>2
<1>3. \A a \in Artifacts : Refers(a)' => SameKeyed(reconcile.job)'
  BY DEF Refers, HasTask, SameKeyed
<1>4. reconcile'.pc = "refer" => JobExists(reconcile.job)'
  BY DEF JobExists
<1> QED
  BY <1>1, <1>2, <1>3, <1>4 DEF KeysOK

LEMMA SetEncodingTaskReferenceStep == EncodeInv /\ SetEncodingTaskReference => EncodeInv'
<1> SUFFICES ASSUME EncodeInv, SetEncodingTaskReference PROVE EncodeInv'
  OBVIOUS
<1>0. EncodeShape /\ KeysOK
  BY DEF EncodeInv
<1>1. /\ reconcile.pc = "refer" /\ reconcile' = IdleReconcile
      /\ encodeJobs' = encodeJobs /\ encodes' = encodes /\ UNCHANGED <<retried, doubled>>
      /\ artifact' = [a \in Artifacts |-> IF EncodeTask(reconcile.job, a).st = "none" THEN artifact[a]
                                          ELSE [artifact[a] EXCEPT !.ref = reconcile.job]]
  BY DEF SetEncodingTaskReference
<1>2. reconcile'.pc = "idle" /\ reconcile' \in ReconcileRow
  BY <1>1, NoKey0 DEF IdleReconcile, ReconcileRow
<1>3. PICK k \in 1..Len(encodeJobs) : k = reconcile.job
  BY <1>0, <1>1 DEF KeysOK, JobExists
<1>4. k \in Nat /\ k # 0 /\ k <= Len(encodeJobs) /\ JobExists(k) /\ \A a \in Artifacts : artifact[a] \in ArtifactRow
  BY <1>0, EncodeKnown DEF JobExists
<1>5. \A a \in Artifacts : Refers(a) <=> HasTask(k, a)
  BY <1>1, <1>3 DEF Refers
<1>6. ASSUME NEW a \in Artifacts
      PROVE  /\ artifact'[a] \in ArtifactRow /\ artifact'[a].ready = artifact[a].ready
             /\ Refers(a) => RefOf(a)' = k
             /\ ~ Refers(a) => RefOf(a)' = RefOf(a)
             /\ ~ Waits(a)' /\ ~ Refers(a)' /\ RefOf(a)' <= Len(encodeJobs)
  <2>1. HasTask(k, a) <=> EncodeTask(k, a).st # "none"
    BY <1>4 DEF HasTask
  <2>2. artifact'[a] = IF ~ Refers(a) THEN artifact[a] ELSE [artifact[a] EXCEPT !.ref = k]
    BY <1>1, <1>3, <1>5, <2>1
  <2>3. [artifact[a] EXCEPT !.ref = k] \in ArtifactRow /\ [artifact[a] EXCEPT !.ref = k].ref = k
        /\ [artifact[a] EXCEPT !.ref = k].ready = artifact[a].ready
    BY <1>4 DEF ArtifactRow
  <2>4. RefOf(a) <= Len(encodeJobs)
    BY <1>0 DEF KeysOK
  <2>5. ~ Waits(a)' /\ ~ Refers(a)'
    BY <1>2 DEF Waits, Refers
  <2> QED
    BY <1>4, <2>2, <2>3, <2>4, <2>5 DEF RefOf
<1>7. EncodeShape'
  <2>1. artifact' \in [Artifacts -> ArtifactRow]
    BY <1>1, <1>6
  <2> QED
    BY <1>0, <1>1, <1>2, <2>1 DEF EncodeShape
<1>8. KeysOK'
  BY <1>0, <1>1, <1>2, <1>6, KeysStand
<1>9. ASSUME NEW a \in Artifacts, Tidy(a)' PROVE RefsKept(a)' /\ DoneKept(a)'
  <2>1. RefsKept(a) /\ DoneKept(a)
    BY <1>1, <1>9 DEF EncodeInv, Tidy
  <2>2. CASE ~ Refers(a)
    <3>1. QuietFor(a)
      BY <1>1, <1>2, <1>6, <2>2, JobsStay DEF QuietFor
    <3> QED
      BY <1>0, <1>1, <2>1, <3>1, JobsStay, Quiet
  <2>3. CASE Refers(a)
    <3>1. HasTask(k, a) /\ Keyed(k, a) /\ KeyOf(k, a) = reconcile.key[a] /\ KeyOf(k, a) < k
      BY <1>0, <1>3, <2>3, WaitingKey
    <3>2. \A m \in 1..Len(encodeJobs) : Keyed(m, a) => KeyOf(m, a) <= KeyOf(k, a)
      BY <2>1, <2>3, <3>1 DEF RefsKept
    <3>3. \A m \in 1..Len(encodeJobs) : Keyed(m, a) => KeyOf(m, a) \in Nat
      BY <1>0, KeysAreNumbers
    <3>4. \A m \in 1..Len(encodeJobs) : Keyed(m, a) => KeyOf(m, a) < k /\ KeyOf(m, a) <= k
      BY <1>4, <3>1, <3>2, <3>3
    <3>5. \A j \in 1..Len(encodeJobs) : LiveTask(j, a) => k <= j
      BY <2>1, <3>1 DEF RefsKept
    <3>6. ASSUME NEW j \in JobNumbers, Marked(j, a)
          PROVE  Loaded(j, a) => k <= LoadedRef(j, a) /\ LoadedRef(j, a) <= j
      <4>1. k <= RefOf(a) /\ (Loaded(j, a) => RefOf(a) <= LoadedRef(j, a) /\ LoadedRef(j, a) <= j)
        BY <1>3, <2>1, <2>3, <3>6 DEF RefsKept
      <4>2. RefOf(a) \in Nat /\ LoadedRef(j, a) \in Nat
        BY <1>0, KeysAreNumbers
      <4> QED
        BY <1>4, <4>1, <4>2
    <3>7. ASSUME NEW m \in 1..Len(encodeJobs), DoneTask(m, a),
                 ~ artifact[a].ready \/ \E j \in JobNumbers : Marked(j, a)
          PROVE  k # m
      <4>1. CASE ~ artifact[a].ready
        BY <1>3, <2>1, <2>3, <3>7, <4>1 DEF DoneKept
      <4>2. ASSUME NEW j \in JobNumbers, Marked(j, a) PROVE k # m
        <5>1. j \in 1..Len(encodeJobs) /\ LiveTask(j, a)
          BY <4>2, UnderWay DEF Marked
        <5> QED
          BY <1>3, <2>1, <2>3, <3>7, <5>1 DEF DoneKept
      <4> QED
        BY <3>7, <4>1, <4>2
    <3>8. \A j \in JobNumbers : encodes[j][a].pc = "after" /\ encodes[j][a].err = "ok" =>
            artifact[a].ready /\ encodes[j][a].row.ready
      BY <2>1 DEF DoneKept
    <3>9. \A j, m \in JobNumbers : Marked(j, a) /\ Loaded(j, a) /\ m \in 1..Len(encodeJobs) /\ DoneTask(m, a) => LoadedRef(j, a) # m
      BY <2>1 DEF DoneKept
    <3>10. \A j, m \in 1..Len(encodeJobs) : LiveTask(j, a) /\ HasTask(m, a) => m <= j
      BY <2>1 DEF RefsKept
    <3>11. RefOf(a)' = k /\ artifact'[a].ready = artifact[a].ready /\ ~ Waits(a)' /\ ~ Refers(a)'
      BY <1>6, <2>3
    <3> HIDE DEF Waits, Refers
    <3>12. /\ Len(encodeJobs') = Len(encodeJobs)
           /\ \A m \in 1..Len(encodeJobs) :
                /\ (HasTask(m, a)' <=> HasTask(m, a)) /\ (LiveTask(m, a)' <=> LiveTask(m, a))
                /\ (DoneTask(m, a)' <=> DoneTask(m, a)) /\ (Keyed(m, a)' <=> Keyed(m, a))
                /\ KeyOf(m, a)' = KeyOf(m, a)
           /\ \A j \in JobNumbers :
                /\ (Marked(j, a)' <=> Marked(j, a)) /\ (Loaded(j, a)' <=> Loaded(j, a))
                /\ LoadedRef(j, a)' = LoadedRef(j, a) /\ encodes'[j][a] = encodes[j][a]
      BY <1>1, JobsStay
    <3>13. RefsKept(a)'
      BY <1>4, <3>4, <3>5, <3>6, <3>10, <3>11, <3>12 DEF RefsKept
    <3>14. \A m \in 1..Len(encodeJobs) : m \in JobNumbers
      BY <1>0, EncodeKnown
    <3>15. DoneKept(a)'
      BY <1>4, <3>4, <3>7, <3>8, <3>9, <3>11, <3>12, <3>14 DEF DoneKept
    <3> QED
      BY <3>13, <3>15
  <2> QED
    BY <2>2, <2>3
<1> QED
  BY <1>7, <1>8, <1>9 DEF EncodeInv

LEMMA AdoptedUsable ==
    ASSUME EncodeShape, NEW a \in Artifacts, Adopts(a) # {}
    PROVE  Adopted(a) \in 1..Len(encodeJobs) /\ HasTask(Adopted(a), a)
<1> DEFINE T == {MaxEncodeJobs - j : j \in Adopts(a)}
<1>1. Adopts(a) \subseteq JobNumbers /\ \A j \in JobNumbers : j \in Nat /\ j <= MaxEncodeJobs
  BY EncodingAssumption DEF Adopts, JobNumbers
<1>2. T \subseteq Nat /\ T # {}
  BY <1>1, EncodingAssumption
<1>3. PICK n \in T : \A m \in T : n <= m
  BY <1>2, LeastNumber
<1>4. PICK j \in Adopts(a) : n = MaxEncodeJobs - j
  BY <1>3
<1>5. \A i \in Adopts(a) : i <= j
  <2> SUFFICES ASSUME NEW i \in Adopts(a) PROVE i <= j
    OBVIOUS
  <2>1. n <= MaxEncodeJobs - i
    BY <1>3
  <2> QED
    BY <1>1, <1>4, <2>1, EncodingAssumption
<1>6. Adopted(a) \in Adopts(a)
  BY <1>4, <1>5 DEF Adopted
<1>7. Usable(Adopted(a), a)
  BY <1>6 DEF Adopts
<1> QED
  BY <1>7 DEF Usable, HasTask, JobExists

LEMMA AppendPendingStep == EncodeInv /\ AppendPending => EncodeInv'
<1> SUFFICES ASSUME EncodeInv, AppendPending PROVE EncodeInv'
  OBVIOUS
<1>0. EncodeShape /\ KeysOK /\ \A a \in Artifacts : artifact[a] \in ArtifactRow
  BY EncodeKnown DEF EncodeInv
<1> DEFINE Adopting(a) == a \in Unfinished /\ RefOf(a) = 0 /\ Adopts(a) # {}
<1>1. /\ reconcile.pc = "idle"
      /\ encodeJobs' = encodeJobs /\ encodes' = encodes /\ UNCHANGED <<retried, doubled>>
      /\ \/ reconcile' = reconcile
         \/ /\ Pending # {}
            /\ reconcile' = [pc |-> "enqueue", pending |-> Pending, job |-> 0,
                             key |-> [a \in Pending |-> artifact[a].ref]]
  BY DEF AppendPending
<1>2. artifact' = [a \in Artifacts |-> IF Adopting(a) THEN [artifact[a] EXCEPT !.ref = Adopted(a)]
                                       ELSE artifact[a]]
  BY DEF AppendPending, RefOf
<1>3. Pending \subseteq Artifacts
  BY DEF Pending, Unfinished
<1>4. [a \in Pending |-> artifact[a].ref] \in EncodeKeys
  <2>1. [a \in Pending |-> artifact[a].ref] \in [Pending -> Nat]
    BY <1>0, <1>3 DEF ArtifactRow
  <2> QED
    BY <1>3, <2>1 DEF EncodeKeys
<1>5. /\ reconcile' \in ReconcileRow /\ reconcile'.pc # "refer"
      /\ reconcile'.pc # "idle" => DOMAIN reconcile'.key = reconcile'.pending /\ reconcile'.pending # {}
      /\ \A a \in Artifacts : Waits(a)' => a \in Pending /\ reconcile'.key[a] = RefOf(a) /\ a \in DOMAIN reconcile'.key
  <2>1. CASE reconcile' = reconcile
    BY <1>0, <1>1, <2>1 DEF EncodeShape, Waits
  <2>2. CASE reconcile' # reconcile
    <3>1. /\ Pending # {} /\ reconcile'.pc = "enqueue" /\ reconcile'.pending = Pending
          /\ reconcile'.key = [a \in Pending |-> artifact[a].ref] /\ reconcile'.job = 0
          /\ reconcile' \in ReconcileRow
      BY <1>1, <1>3, <1>4, <2>2 DEF ReconcileRow
    <3> QED
      BY <3>1 DEF Waits, RefOf
  <2> QED
    BY <2>1, <2>2
<1>6. ASSUME NEW a \in Artifacts, Adopting(a)
      PROVE  /\ RefOf(a)' = Adopted(a) /\ artifact'[a].ready = artifact[a].ready /\ artifact'[a] \in ArtifactRow
             /\ Adopted(a) \in 1..Len(encodeJobs) /\ HasTask(Adopted(a), a) /\ RefOf(a)' <= Len(encodeJobs)
             /\ ~ Waits(a)'
  <2>1. Adopted(a) \in 1..Len(encodeJobs) /\ HasTask(Adopted(a), a) /\ Adopted(a) \in Nat
    BY <1>0, <1>6, AdoptedUsable, EncodeKnown
  <2>2. artifact'[a] = [artifact[a] EXCEPT !.ref = Adopted(a)]
    BY <1>2, <1>6
  <2>3. artifact'[a] \in ArtifactRow /\ artifact'[a].ref = Adopted(a) /\ artifact'[a].ready = artifact[a].ready
    BY <1>0, <2>1, <2>2 DEF ArtifactRow
  <2>4. a \notin Pending
    BY <1>6 DEF Pending, RefOf
  <2>5. Adopted(a) <= Len(encodeJobs)
    BY <1>0, <2>1, EncodeKnown
  <2> QED
    BY <1>5, <2>1, <2>3, <2>4, <2>5 DEF RefOf
<1>7. ASSUME NEW a \in Artifacts, ~ Adopting(a)
      PROVE  RefOf(a)' = RefOf(a) /\ artifact'[a] = artifact[a] /\ RefOf(a)' <= Len(encodeJobs)
  <2>1. artifact'[a] = artifact[a] /\ RefOf(a) <= Len(encodeJobs)
    BY <1>0, <1>2, <1>7 DEF KeysOK
  <2> QED
    BY <2>1 DEF RefOf
<1> HIDE DEF Adopting
<1>8. EncodeShape'
  <2>1. \A a \in Artifacts : artifact'[a] \in ArtifactRow
    BY <1>0, <1>6, <1>7
  <2>2. artifact' \in [Artifacts -> ArtifactRow]
    BY <1>2, <2>1
  <2> QED
    BY <1>0, <1>1, <1>5, <2>2 DEF EncodeShape
<1>9. \A a \in Artifacts : ~ Refers(a)'
  BY <1>5 DEF Refers
<1>10. KeysOK'
  <2>1. \A a \in Artifacts : Waits(a)' => reconcile'.key[a] <= Len(encodeJobs)
    BY <1>0, <1>5 DEF KeysOK
  <2>2. \A a \in Artifacts : RefOf(a)' <= Len(encodeJobs)
    BY <1>6, <1>7
  <2> HIDE DEF Waits
  <2> QED
    BY <1>0, <1>1, <1>5, <1>9, <2>1, <2>2, KeysStand
<1>11. \A a \in Artifacts, m \in 1..Len(encodeJobs) :
          Waits(a)' /\ SameKeyed(m)' => Keyed(m, a) /\ KeyOf(m, a) = RefOf(a)
  <2> SUFFICES ASSUME NEW a \in Artifacts, NEW m \in 1..Len(encodeJobs), Waits(a)', SameKeyed(m)'
               PROVE  Keyed(m, a) /\ KeyOf(m, a) = RefOf(a)
    OBVIOUS
  <2>1. encodeJobs[m].key = reconcile'.key /\ a \in DOMAIN reconcile'.key /\ reconcile'.key[a] = RefOf(a)
    BY <1>1, <1>5 DEF SameKeyed
  <2>2. JobExists(m)
    BY <1>0, EncodeKnown
  <2> QED
    BY <2>1, <2>2 DEF Keyed, KeyOf
<1>12. ASSUME NEW a \in Artifacts, Tidy(a)' PROVE RefsKept(a)' /\ DoneKept(a)'
  <2>1. RefsKept(a) /\ DoneKept(a)
    BY <1>1, <1>12 DEF EncodeInv, Tidy
  <2>2. /\ Len(encodeJobs') = Len(encodeJobs)
        /\ \A m \in 1..Len(encodeJobs) :
             /\ (HasTask(m, a)' <=> HasTask(m, a)) /\ (LiveTask(m, a)' <=> LiveTask(m, a))
             /\ (DoneTask(m, a)' <=> DoneTask(m, a)) /\ (Keyed(m, a)' <=> Keyed(m, a))
             /\ KeyOf(m, a)' = KeyOf(m, a)
        /\ \A j \in JobNumbers :
             /\ (Marked(j, a)' <=> Marked(j, a)) /\ (Loaded(j, a)' <=> Loaded(j, a))
             /\ LoadedRef(j, a)' = LoadedRef(j, a) /\ encodes'[j][a] = encodes[j][a]
    BY <1>1, JobsStay
  <2>3. RefOf(a) \in Nat /\ \A m \in 1..Len(encodeJobs) : Keyed(m, a) => KeyOf(m, a) \in Nat
    BY <1>0, KeysAreNumbers
  <2>4. \A j, m \in 1..Len(encodeJobs) : LiveTask(j, a) /\ HasTask(m, a) => m <= j
    BY <2>1 DEF RefsKept
  <2>5. ~ Refers(a)'
    BY <1>9
  <2>6. CASE Adopting(a)
    <3>1. /\ RefOf(a)' = Adopted(a) /\ Adopted(a) \in 1..Len(encodeJobs) /\ HasTask(Adopted(a), a) /\ ~ Waits(a)'
          /\ Adopted(a) \in Nat /\ Adopted(a) # 0 /\ artifact'[a].ready = artifact[a].ready
      BY <1>0, <1>6, <2>6, EncodeKnown
    <3>2. RefOf(a) = 0
      BY <2>6 DEF Adopting
    <3>3. \A m \in 1..Len(encodeJobs) : ~ DoneTask(m, a)
      BY <2>1, <3>2 DEF DoneKept
    <3>4. \A j \in JobNumbers : ~ Marked(j, a)
      BY <2>1, <3>2 DEF RefsKept
    <3>5. \A m \in 1..Len(encodeJobs) : Keyed(m, a) => KeyOf(m, a) <= Adopted(a)
      <4>1. \A m \in 1..Len(encodeJobs) : Keyed(m, a) => KeyOf(m, a) <= 0
        BY <2>1, <3>2 DEF RefsKept
      <4> QED
        BY <2>3, <3>1, <4>1
    <3>6. \A j \in 1..Len(encodeJobs) : LiveTask(j, a) => Adopted(a) <= j
      BY <2>4, <3>1
    <3>7. \A j \in JobNumbers : encodes[j][a].pc = "after" /\ encodes[j][a].err = "ok" =>
            artifact[a].ready /\ encodes[j][a].row.ready
      BY <2>1 DEF DoneKept
    <3> HIDE DEF Waits, Refers
    <3>8. RefsKept(a)'
      BY <2>2, <2>4, <2>5, <3>1, <3>4, <3>5, <3>6 DEF RefsKept
    <3>9. DoneKept(a)'
      BY <2>2, <3>1, <3>3, <3>7 DEF DoneKept
    <3> QED
      BY <3>8, <3>9
  <2>7. CASE ~ Adopting(a)
    <3>1. RefOf(a)' = RefOf(a) /\ artifact'[a].ready = artifact[a].ready
      BY <1>7, <2>7
    <3>2. Waits(a)' => reconcile'.key[a] = RefOf(a)
      BY <1>5
    <3>3. \A m \in 1..Len(encodeJobs) : Waits(a)' /\ SameKeyed(m)' => Keyed(m, a) /\ KeyOf(m, a) = RefOf(a)
      BY <1>11
    <3>4. \A m \in 1..Len(encodeJobs) : Keyed(m, a) => KeyOf(m, a) <= RefOf(a)
      BY <2>1 DEF RefsKept
    <3>5. \A j \in 1..Len(encodeJobs) : LiveTask(j, a) => RefOf(a) <= j
      BY <2>1 DEF RefsKept
    <3>6. \A j \in JobNumbers : Marked(j, a) =>
            /\ RefOf(a) # 0
            /\ \A m \in 1..Len(encodeJobs) : Keyed(m, a) => KeyOf(m, a) < RefOf(a)
            /\ Loaded(j, a) => RefOf(a) <= LoadedRef(j, a) /\ LoadedRef(j, a) <= j
      BY <2>1 DEF RefsKept
    <3>7. \A j \in JobNumbers, m \in 1..Len(encodeJobs) : Marked(j, a) /\ Waits(a)' /\ SameKeyed(m)' => m <= RefOf(a)
      BY <2>3, <3>3, <3>6
    <3>8. RefOf(a) <= RefOf(a)
      BY <2>3
    <3> HIDE DEF Waits, Refers
    <3>9. RefsKept(a)'
      BY <2>2, <2>4, <2>5, <3>1, <3>2, <3>4, <3>5, <3>6, <3>7, <3>8 DEF RefsKept
    <3>10. ASSUME NEW m \in 1..Len(encodeJobs), DoneTask(m, a)
           PROVE  /\ RefOf(a) # 0
                  /\ Keyed(m, a) => KeyOf(m, a) < RefOf(a)
                  /\ Waits(a)' => ~ SameKeyed(m)'
                  /\ ~ artifact[a].ready => RefOf(a) # m
                  /\ \A j \in JobNumbers : Marked(j, a) =>
                      RefOf(a) # m /\ (Loaded(j, a) => LoadedRef(j, a) # m)
      <4>1. /\ RefOf(a) # 0
            /\ Keyed(m, a) => KeyOf(m, a) < RefOf(a)
            /\ ~ artifact[a].ready => RefOf(a) # m
            /\ \A j \in JobNumbers : Marked(j, a) =>
                RefOf(a) # m /\ (Loaded(j, a) => LoadedRef(j, a) # m)
        BY <2>1, <3>10 DEF DoneKept
      <4>2. Waits(a)' => ~ SameKeyed(m)'
        BY <2>3, <3>3, <4>1
      <4> QED
        BY <4>1, <4>2
    <3>11. \A j \in JobNumbers : encodes[j][a].pc = "after" /\ encodes[j][a].err = "ok" =>
            artifact[a].ready /\ encodes[j][a].row.ready
      BY <2>1 DEF DoneKept
    <3>12. DoneKept(a)'
      BY <2>2, <2>5, <3>1, <3>10, <3>11 DEF DoneKept
    <3> QED
      BY <3>9, <3>12
  <2> QED
    BY <2>6, <2>7
<1> QED
  BY <1>8, <1>10, <1>12 DEF EncodeInv

(* The reconciliation takes up a job that was made under its key before.    *)
LEMMA ReconcileFinds ==
    ASSUME EncodeInv, NEW k \in SameKey, reconcile.pc = "enqueue",
           reconcile' = [reconcile EXCEPT !.pc = "refer", !.job = k],
           UNCHANGED <<artifact, encodeJobs, encodes, retried>>, doubled \subseteq doubled'
    PROVE  EncodeInv'
<1>0. EncodeShape /\ KeysOK /\ Len(encodeJobs) \in Nat
  BY EncodeKnown DEF EncodeInv
<1>1. k \in 1..Len(encodeJobs) /\ k \in Nat /\ JobExists(k) /\ encodeJobs[k].key = reconcile.key /\ SameKeyed(k)
  BY DEF SameKey, JobExists, SameKeyed
<1>2. reconcile \in ReconcileRow
  BY <1>0 DEF EncodeShape
<1>3. /\ reconcile' \in ReconcileRow /\ reconcile'.pc = "refer" /\ reconcile'.job = k
      /\ reconcile'.pending = reconcile.pending /\ reconcile'.key = reconcile.key
  BY <1>1, <1>2 DEF ReconcileRow
<1>4. DOMAIN reconcile.key = reconcile.pending /\ reconcile.pending # {}
  BY <1>0 DEF KeysOK
<1>5. \A a \in Artifacts : ~ Waits(a)' /\ RefOf(a)' = RefOf(a) /\ RefOf(a) <= Len(encodeJobs)
  BY <1>0, <1>3 DEF Waits, RefOf, KeysOK
<1>6. ASSUME NEW a \in Artifacts, Refers(a)'
      PROVE  Waits(a) /\ SameKeyed(k) /\ encodeJobs[reconcile'.job].key = reconcile'.key
  <2>1. HasTask(k, a)
    BY <1>1, <1>3, <1>6 DEF Refers, HasTask, EncodeTask
  <2>2. Keyed(k, a)
    BY <1>0, <1>1, <1>4, <2>1 DEF KeysOK
  <2>3. a \in reconcile.pending
    BY <1>1, <1>4, <2>2 DEF Keyed
  <2> QED
    BY <1>1, <1>3, <2>3 DEF Waits
<1>7. EncodeShape'
  BY <1>0, <1>3 DEF EncodeShape
<1>8. JobExists(reconcile'.job) /\ encodeJobs' = encodeJobs /\ encodes' = encodes
  BY <1>1, <1>3
<1> HIDE DEF Refers, Waits
<1>9. KeysOK'
  BY <1>0, <1>3, <1>4, <1>5, <1>6, <1>8, KeysStand
<1>10. ASSUME NEW a \in Artifacts, Tidy(a)' PROVE RefsKept(a)' /\ DoneKept(a)'
  <2>1. RefsKept(a) /\ DoneKept(a)
    BY <1>10 DEF EncodeInv, Tidy
  <2>2. /\ Len(encodeJobs') = Len(encodeJobs)
        /\ \A m \in 1..Len(encodeJobs) :
             /\ (HasTask(m, a)' <=> HasTask(m, a)) /\ (LiveTask(m, a)' <=> LiveTask(m, a))
             /\ (DoneTask(m, a)' <=> DoneTask(m, a)) /\ (Keyed(m, a)' <=> Keyed(m, a))
             /\ KeyOf(m, a)' = KeyOf(m, a)
        /\ \A j \in JobNumbers :
             /\ (Marked(j, a)' <=> Marked(j, a)) /\ (Loaded(j, a)' <=> Loaded(j, a))
             /\ LoadedRef(j, a)' = LoadedRef(j, a) /\ encodes'[j][a] = encodes[j][a]
    BY <1>8, JobsStay
  <2>3. ~ Waits(a)' /\ RefOf(a)' = RefOf(a) /\ artifact'[a] = artifact[a]
    BY <1>5
  <2>4. Refers(a)' => Waits(a) /\ SameKeyed(k)
    BY <1>6
  <2>5. \A j \in JobNumbers : Marked(j, a) /\ Refers(a)' => reconcile'.job <= RefOf(a)
    BY <1>1, <1>3, <2>1, <2>4 DEF RefsKept
  <2>6. \A m \in 1..Len(encodeJobs) : Keyed(m, a) =>
          KeyOf(m, a) <= RefOf(a) /\ (Refers(a)' => KeyOf(m, a) <= reconcile'.key[a])
    BY <1>3, <2>1, <2>4 DEF RefsKept
  <2>7. RefsKept(a)'
    BY <2>1, <2>2, <2>3, <2>5, <2>6 DEF RefsKept
  <2>8. \A m \in 1..Len(encodeJobs) : DoneTask(m, a) =>
          (~ artifact[a].ready \/ (\E j \in 1..Len(encodeJobs) : LiveTask(j, a)) =>
              (Refers(a)' => reconcile'.job # m))
    BY <1>3, <2>1, <2>4 DEF DoneKept
  <2>9. DoneKept(a)'
    BY <2>1, <2>2, <2>3, <2>8 DEF DoneKept
  <2> QED
    BY <2>7, <2>9
<1> QED
  BY <1>7, <1>9, <1>10 DEF EncodeInv

(* A job is made for what is pending.                                       *)
LEMMA MadeJob ==
    ASSUME EncodeShape, reconcile.pc = "enqueue"
    PROVE  /\ JobFor(reconcile.pending, reconcile.key) \in EncodeJob
           /\ JobFor(reconcile.pending, reconcile.key).key = reconcile.key
           /\ \A a \in Artifacts :
                JobFor(reconcile.pending, reconcile.key).tasks[a].st =
                    IF a \in reconcile.pending THEN "queued" ELSE "none"
<1>1. reconcile.key \in EncodeKeys
  BY DEF EncodeShape, ReconcileRow
<1>2. NewTaskRow \in TaskRows /\ NewTaskRow.st = "queued" /\ NoTaskRow \in TaskRows /\ NoTaskRow.st = "none"
  BY TaskNames
<1> DEFINE ts == [a \in Artifacts |-> IF a \in reconcile.pending THEN NewTaskRow ELSE NoTaskRow]
<1>3. JobFor(reconcile.pending, reconcile.key) = [key |-> reconcile.key, tasks |-> ts]
  BY DEF JobFor
<1>4. ts \in [Artifacts -> TaskRows]
      /\ \A a \in Artifacts : ts[a].st = IF a \in reconcile.pending THEN "queued" ELSE "none"
  BY <1>2
<1> HIDE DEF ts
<1> QED
  BY <1>1, <1>3, <1>4 DEF EncodeJob

LEMMA ReconcileMakes ==
    ASSUME EncodeInv, reconcile.pc = "enqueue", Len(encodeJobs) < MaxEncodeJobs,
           encodeJobs' = Append(encodeJobs, JobFor(reconcile.pending, reconcile.key)),
           reconcile' = [reconcile EXCEPT !.pc = "refer", !.job = Len(encodeJobs) + 1],
           doubled' = doubled \cup Doubles(encodeJobs'),
           UNCHANGED <<artifact, encodes, retried>>
    PROVE  EncodeInv'
<1> DEFINE w == JobFor(reconcile.pending, reconcile.key)
           n == Len(encodeJobs)
<1>0. EncodeShape /\ KeysOK /\ n \in Nat /\ encodeJobs \in Seq(EncodeJob)
      /\ \A a \in Artifacts : RefOf(a) \in Nat /\ RefOf(a) <= n
  BY EncodeKnown, KeysAreNumbers DEF EncodeInv, EncodeShape, KeysOK
<1>k. PICK k \in Nat : k = n + 1
  BY <1>0
<1>1. /\ w \in EncodeJob /\ w.key = reconcile.key
      /\ \A a \in Artifacts : w.tasks[a].st = IF a \in reconcile.pending THEN "queued" ELSE "none"
  BY <1>0, MadeJob
<1> HIDE DEF w
<1>2. /\ encodeJobs' \in Seq(EncodeJob) /\ Len(encodeJobs') = k
      /\ encodeJobs'[k] = w /\ \A m \in 1..n : encodeJobs'[m] = encodeJobs[m]
  BY <1>0, <1>1, <1>k DEF w
<1>3. /\ reconcile' \in ReconcileRow /\ reconcile'.pc = "refer" /\ reconcile'.job = k
      /\ reconcile'.pending = reconcile.pending /\ reconcile'.key = reconcile.key
  <2>1. reconcile \in ReconcileRow
    BY <1>0 DEF EncodeShape
  <2> QED
    BY <1>0, <1>k, <2>1 DEF ReconcileRow
<1>4. DOMAIN reconcile.key = reconcile.pending /\ reconcile.pending # {} /\ reconcile.key \in EncodeKeys
  BY <1>0 DEF KeysOK, EncodeShape, ReconcileRow
<1>5. /\ 1..Len(encodeJobs') = 1..n \cup {k} /\ k \notin 1..n /\ n < k /\ k # 0
      /\ \A m \in 1..Len(encodeJobs') : m # k => m \in 1..n
      /\ \A m \in 1..n : m \in Nat /\ m <= n /\ m <= k /\ m # k
  BY <1>0, <1>2, <1>k
<1>6. EncodeShape'
  <2>1. k <= MaxEncodeJobs
    BY <1>0, <1>k, EncodingAssumption
  <2> QED
    BY <1>0, <1>2, <1>3, <2>1 DEF EncodeShape
<1>7. ASSUME NEW m \in 1..n, NEW a \in Artifacts
      PROVE  /\ (HasTask(m, a)' <=> HasTask(m, a)) /\ (LiveTask(m, a)' <=> LiveTask(m, a))
             /\ (DoneTask(m, a)' <=> DoneTask(m, a)) /\ (Keyed(m, a)' <=> Keyed(m, a))
             /\ KeyOf(m, a)' = KeyOf(m, a) /\ EncodeTask(m, a)' = EncodeTask(m, a)
             /\ encodeJobs'[m].key = encodeJobs[m].key
  <2>1. encodeJobs'[m] = encodeJobs[m] /\ (JobExists(m)' <=> JobExists(m)) /\ EncodeTask(m, a)' = EncodeTask(m, a)
    BY <1>2, <1>5 DEF JobExists, EncodeTask
  <2> QED
    BY <2>1 DEF HasTask, LiveTask, DoneTask, Keyed, KeyOf
<1>8. ASSUME NEW a \in Artifacts
      PROVE  /\ (HasTask(k, a)' <=> a \in reconcile.pending) /\ (LiveTask(k, a)' <=> a \in reconcile.pending)
             /\ ~ DoneTask(k, a)' /\ (Keyed(k, a)' <=> a \in reconcile.pending)
             /\ KeyOf(k, a)' = reconcile.key[a]
  <2>1. JobExists(k)' /\ EncodeTask(k, a)' = w.tasks[a] /\ encodeJobs'[k].key = reconcile.key
    BY <1>1, <1>2, <1>5 DEF JobExists, EncodeTask
  <2>2. KeyOf(k, a)' = reconcile.key[a] /\ (Keyed(k, a)' <=> a \in reconcile.pending)
    BY <1>4, <2>1 DEF KeyOf, Keyed
  <2>3. EncodeTask(k, a)'.st = IF a \in reconcile.pending THEN "queued" ELSE "none"
    BY <1>1, <2>1
  <2> QED
    BY <2>1, <2>2, <2>3 DEF HasTask, LiveTask, DoneTask, TaskOpen
<1>9. \A a \in Artifacts :
        /\ RefOf(a)' = RefOf(a) /\ ~ Waits(a)' /\ (Refers(a)' <=> a \in reconcile.pending)
        /\ (Waits(a) <=> a \in reconcile.pending)
        /\ (a \in reconcile.pending => reconcile.key[a] \in Nat /\ reconcile.key[a] <= n)
        /\ \A i \in JobNumbers : /\ (Marked(i, a)' <=> Marked(i, a)) /\ (Loaded(i, a)' <=> Loaded(i, a))
                                 /\ LoadedRef(i, a)' = LoadedRef(i, a)
  <2> SUFFICES ASSUME NEW a \in Artifacts
               PROVE  /\ RefOf(a)' = RefOf(a) /\ ~ Waits(a)' /\ (Refers(a)' <=> a \in reconcile.pending)
                      /\ (Waits(a) <=> a \in reconcile.pending)
                      /\ (a \in reconcile.pending => reconcile.key[a] \in Nat /\ reconcile.key[a] <= n)
                      /\ \A i \in JobNumbers : /\ (Marked(i, a)' <=> Marked(i, a)) /\ (Loaded(i, a)' <=> Loaded(i, a))
                                               /\ LoadedRef(i, a)' = LoadedRef(i, a)
    OBVIOUS
  <2>1. RefOf(a)' = RefOf(a) /\ ~ Waits(a)' /\ (Waits(a) <=> a \in reconcile.pending)
    BY <1>3 DEF RefOf, Waits
  <2>2. Refers(a)' <=> HasTask(k, a)'
    BY <1>3 DEF Refers, HasTask, JobExists, EncodeTask
  <2>3. a \in reconcile.pending => reconcile.key[a] \in Nat
    BY <1>4 DEF EncodeKeys
  <2>4. Waits(a) => reconcile.key[a] <= n
    BY <1>0 DEF KeysOK
  <2>5. \A i \in JobNumbers : /\ (Marked(i, a)' <=> Marked(i, a)) /\ (Loaded(i, a)' <=> Loaded(i, a))
                              /\ LoadedRef(i, a)' = LoadedRef(i, a)
    BY DEF Marked, Loaded, LoadedRef
  <2>6. Refers(a)' <=> a \in reconcile.pending
    BY <1>8, <2>2
  <2> QED
    BY <2>1, <2>3, <2>4, <2>5, <2>6
<1> HIDE DEF Waits, Refers
<1>10. KeysOK'
  <2>1. ASSUME NEW m \in 1..Len(encodeJobs'), NEW a \in Artifacts
        PROVE  /\ Keyed(m, a)' => KeyOf(m, a)' < m /\ HasTask(m, a)'
               /\ HasTask(m, a)' /\ DOMAIN encodeJobs'[m].key # {} => Keyed(m, a)'
    <3>1. CASE m = k
      <4>1. a \in reconcile.pending => reconcile.key[a] < k
        BY <1>0, <1>5, <1>9
      <4> QED
        BY <1>8, <3>1, <4>1
    <3>2. CASE m # k
      BY <1>0, <1>5, <1>7, <3>2 DEF KeysOK
    <3> QED
      BY <3>1, <3>2
  <2>2. /\ DOMAIN reconcile'.key = reconcile'.pending /\ reconcile'.pending # {}
        /\ JobExists(reconcile.job)' /\ SameKeyed(reconcile.job)'
    BY <1>1, <1>2, <1>3, <1>4, <1>5 DEF JobExists, SameKeyed
  <2>3. \A a \in Artifacts : ~ Waits(a)' /\ RefOf(a)' <= Len(encodeJobs')
    BY <1>0, <1>2, <1>5, <1>9
  <2>4. ASSUME NEW i \in JobNumbers, NEW a \in Artifacts
        PROVE  /\ encodes'[i][a].pc # "idle" => LiveTask(i, a)' /\ EncodeTask(i, a)'.st \in Under
               /\ LoadedRef(i, a)' <= Len(encodeJobs')
    <3>1. LoadedRef(i, a)' <= Len(encodeJobs')
      <4>1. LoadedRef(i, a) <= n
        BY <1>0 DEF KeysOK
      <4>2. LoadedRef(i, a) \in Nat
        BY <1>0, KeysAreNumbers
      <4> QED
        BY <1>0, <1>2, <1>5, <1>9, <4>1, <4>2
    <3>2. ASSUME encodes'[i][a].pc # "idle" PROVE LiveTask(i, a)' /\ EncodeTask(i, a)'.st \in Under
      <4>1. i \in 1..n /\ LiveTask(i, a) /\ EncodeTask(i, a).st \in Under
        BY <3>2, UnderWay
      <4> QED
        BY <1>7, <4>1
    <3> QED
      BY <3>1, <3>2
  <2> QED
    BY <2>1, <2>2, <2>3, <2>4 DEF KeysOK
<1>11. ASSUME NEW a \in Artifacts, Tidy(a)', a \notin reconcile.pending PROVE RefsKept(a)' /\ DoneKept(a)'
  <2>1. RefsKept(a) /\ DoneKept(a)
    BY <1>11 DEF EncodeInv, Tidy
  <2>2. ~ HasTask(k, a)' /\ ~ LiveTask(k, a)' /\ ~ DoneTask(k, a)' /\ ~ Keyed(k, a)'
    BY <1>8, <1>11
  <2>3. /\ RefOf(a)' = RefOf(a) /\ ~ Waits(a)' /\ ~ Refers(a)' /\ artifact'[a] = artifact[a]
        /\ \A i \in JobNumbers : /\ (Marked(i, a)' <=> Marked(i, a)) /\ (Loaded(i, a)' <=> Loaded(i, a))
                                 /\ LoadedRef(i, a)' = LoadedRef(i, a) /\ encodes'[i][a] = encodes[i][a]
    BY <1>9, <1>11
  <2>4. \A m \in 1..Len(encodeJobs') : HasTask(m, a)' \/ LiveTask(m, a)' \/ DoneTask(m, a)' \/ Keyed(m, a)' => m \in 1..n
    BY <1>5, <2>2
  <2>5. \A m \in 1..n : m \in 1..Len(encodeJobs')
    BY <1>5
  <2>6. RefsKept(a)'
    BY <1>7, <2>1, <2>3, <2>4, <2>5 DEF RefsKept
  <2>7. DoneKept(a)'
    BY <1>7, <2>1, <2>3, <2>4, <2>5 DEF DoneKept
  <2> QED
    BY <2>6, <2>7
<1>12. ASSUME NEW a \in Artifacts, Tidy(a)', a \in reconcile.pending PROVE RefsKept(a)' /\ DoneKept(a)'
  <2>1. RefsKept(a) /\ DoneKept(a) /\ Waits(a)
    BY <1>9, <1>12 DEF EncodeInv, Tidy
  <2>2. LiveTask(k, a)' /\ ~ DoneTask(k, a)' /\ KeyOf(k, a)' = reconcile.key[a]
    BY <1>8, <1>12
  <2>3. \A m \in 1..n : ~ LiveTask(m, a)
    <3> SUFFICES ASSUME NEW m \in 1..n, LiveTask(m, a) PROVE FALSE
      OBVIOUS
    <3>1. LiveTask(m, a)' /\ LiveTask(k, a)'
      BY <1>7, <2>2
    <3>2. encodeJobs'[m].tasks[a].st \in TaskOpen /\ encodeJobs'[k].tasks[a].st \in TaskOpen
      BY <3>1 DEF LiveTask, EncodeTask
    <3>3. m \in DOMAIN encodeJobs' /\ k \in DOMAIN encodeJobs' /\ m < k
      BY <1>0, <1>2, <1>5
    <3>4. a \in Doubles(encodeJobs')
      BY <3>2, <3>3 DEF Doubles
    <3> QED
      BY <1>12, <3>4 DEF Tidy
  <2>4. \A i \in JobNumbers : encodes[i][a].pc = "idle" /\ ~ Marked(i, a) /\ ~ Marked(i, a)'
    <3> SUFFICES ASSUME NEW i \in JobNumbers PROVE encodes[i][a].pc = "idle" /\ ~ Marked(i, a) /\ ~ Marked(i, a)'
      OBVIOUS
    <3>1. encodes[i][a].pc = "idle"
      BY <2>3, UnderWay
    <3>2. ~ Marked(i, a)
      BY <3>1 DEF Marked
    <3> QED
      BY <1>9, <3>1, <3>2
  <2>5. /\ RefOf(a)' = RefOf(a) /\ ~ Waits(a)' /\ artifact'[a] = artifact[a]
        /\ reconcile'.key[a] = reconcile.key[a] /\ reconcile'.job = k /\ \A i \in JobNumbers : encodes'[i][a] = encodes[i][a]
    BY <1>3, <1>9
  <2>6. /\ reconcile.key[a] \in Nat /\ reconcile.key[a] <= RefOf(a) /\ reconcile.key[a] <= reconcile.key[a]
        /\ RefOf(a) <= k
    BY <1>0, <1>5, <1>9, <1>12, <2>1 DEF RefsKept
  <2>7. RefsKept(a)'
    <3>1. \A j, m \in 1..Len(encodeJobs') : LiveTask(j, a)' /\ HasTask(m, a)' => m <= j
      <4>1. \A j \in 1..Len(encodeJobs') : LiveTask(j, a)' => j = k
        BY <1>5, <1>7, <2>3
      <4>2. \A m \in 1..Len(encodeJobs') : m <= k
        BY <1>0, <1>2, <1>5
      <4> QED
        BY <4>1, <4>2
    <3>2. \A j \in 1..Len(encodeJobs') : LiveTask(j, a)' => RefOf(a)' <= j
      <4>1. \A j \in 1..Len(encodeJobs') : LiveTask(j, a)' => j = k
        BY <1>5, <1>7, <2>3
      <4> QED
        BY <2>5, <2>6, <4>1
    <3>3. ASSUME NEW m \in 1..Len(encodeJobs'), Keyed(m, a)'
          PROVE  KeyOf(m, a)' <= RefOf(a)' /\ KeyOf(m, a)' <= reconcile'.key[a]
      <4>1. CASE m = k
        BY <2>2, <2>5, <2>6, <4>1
      <4>2. CASE m # k
        BY <1>5, <1>7, <2>1, <2>5, <3>3, <4>2 DEF RefsKept
      <4> QED
        BY <4>1, <4>2
    <3> QED
      BY <2>4, <2>5, <3>1, <3>2, <3>3 DEF RefsKept
  <2>8. DoneKept(a)'
    <3>1. ASSUME NEW m \in 1..Len(encodeJobs'), DoneTask(m, a)'
          PROVE  /\ RefOf(a)' # 0 /\ (Keyed(m, a)' => KeyOf(m, a)' < RefOf(a)')
                 /\ reconcile'.job # m /\ (~ artifact'[a].ready => RefOf(a)' # m)
      <4>1. m # k /\ m \in 1..n
        BY <1>5, <2>2, <3>1
      <4>2. DoneTask(m, a)
        BY <1>7, <3>1, <4>1
      <4> QED
        BY <1>7, <2>1, <2>5, <4>1, <4>2 DEF DoneKept
    <3>2. \A i \in JobNumbers : encodes'[i][a].pc # "after"
      BY <2>4, <2>5
    <3> QED
      BY <2>4, <2>5, <3>1, <3>2 DEF DoneKept
  <2> QED
    BY <2>7, <2>8
<1> QED
  BY <1>6, <1>10, <1>11, <1>12 DEF EncodeInv

LEMMA ReconcileEnqueueStep == EncodeInv /\ ReconcileEnqueue => EncodeInv'
<1> SUFFICES ASSUME EncodeInv, ReconcileEnqueue PROVE EncodeInv'
  OBVIOUS
<1>1. /\ reconcile.pc = "enqueue" /\ UNCHANGED <<artifact, encodes, retried>>
      /\ doubled' = doubled \cup Doubles(encodeJobs') /\ doubled \subseteq doubled'
  BY DEF ReconcileEnqueue
<1>2. CASE ~ fileRow
  <2>1. reconcile' = IdleReconcile /\ encodeJobs' = encodeJobs
    BY <1>2 DEF ReconcileEnqueue
  <2>2. /\ encodeJobs' \in Seq(EncodeJob) /\ SameJobs
        /\ \A m \in 1..Len(encodeJobs), a \in Artifacts :
             /\ encodeJobs'[m].tasks[a] = EncodeTask(m, a)
             /\ TaskStep(EncodeTask(m, a), encodeJobs'[m].tasks[a])
    BY <2>1, SameJobRows
  <2>3. /\ encodes' \in [JobNumbers -> [Artifacts -> EncodeRow]]
        /\ \A j \in JobNumbers, a \in Artifacts : Calmer(encodes[j][a], encodes'[j][a])
    BY <1>1, SameHandlers
  <2> QED
    BY <1>1, <2>1, <2>2, <2>3, AllQuiet
<1>3. CASE fileRow /\ SameKey # {}
  <2>1. PICK k \in SameKey : reconcile' = [reconcile EXCEPT !.pc = "refer", !.job = k]
    BY <1>3 DEF ReconcileEnqueue
  <2>2. encodeJobs' = encodeJobs
    BY <1>3 DEF ReconcileEnqueue
  <2> QED
    BY <1>1, <2>1, <2>2, ReconcileFinds
<1>4. CASE fileRow /\ SameKey = {}
  <2>1. /\ Len(encodeJobs) < MaxEncodeJobs
        /\ encodeJobs' = Append(encodeJobs, JobFor(reconcile.pending, reconcile.key))
        /\ reconcile' = [reconcile EXCEPT !.pc = "refer", !.job = Len(encodeJobs) + 1]
    BY <1>4 DEF ReconcileEnqueue
  <2> QED
    BY <1>1, <2>1, ReconcileMakes
<1> QED
  BY <1>2, <1>3, <1>4

LEMMA EncodeInvInit == EncodingInit => EncodeInv
<1> SUFFICES ASSUME EncodingInit PROVE EncodeInv
  OBVIOUS
<1> DEFINE w == JobFor(MediaProcessingTasks, <<>>)
<1>1. /\ artifact = [a \in Artifacts |-> NewArtifact]
      /\ encodes = [j \in JobNumbers |-> [a \in Artifacts |-> NoEncode]]
      /\ reconcile = IdleReconcile
      /\ encodeJobs = <<w>> \/ encodeJobs = <<>>
  BY DEF EncodingInit
<1>2. w \in EncodeJob /\ DOMAIN w.key = {} /\ \A a \in Artifacts : w.tasks[a].st \in {"queued", "none"}
  <2>1. w.key = <<>> /\ w = [key |-> w.key, tasks |-> w.tasks]
        /\ w.tasks = [a \in Artifacts |-> IF a \in MediaProcessingTasks THEN NewTaskRow ELSE NoTaskRow]
    BY DEF JobFor
  <2>2. DOMAIN <<>> = {}
    OBVIOUS
  <2> HIDE DEF w
  <2>3. w.tasks \in [Artifacts -> TaskRows] /\ \A a \in Artifacts : w.tasks[a].st \in {"queued", "none"}
    BY <2>1, TaskNames
  <2>4. w \in EncodeJob
    BY <2>1, <2>3, NoKey0 DEF EncodeJob
  <2> QED
    BY <2>1, <2>2, <2>3, <2>4
<1> HIDE DEF w
<1>3. /\ encodeJobs \in Seq(EncodeJob) /\ Len(encodeJobs) \in {0, 1}
      /\ \A m \in 1..Len(encodeJobs) : m = 1 /\ encodeJobs[m] = w
  <2>1. CASE encodeJobs = <<w>>
    BY <1>2, <2>1
  <2>2. CASE encodeJobs = <<>>
    BY <2>2
  <2> QED
    BY <1>1, <2>1, <2>2
<1>4. NewArtifact \in ArtifactRow /\ NewArtifact.ref = 0
  BY DEF NewArtifact, ArtifactRow
<1>5. NoEncode \in EncodeRow /\ NoEncode.pc = "idle"
  BY <1>4 DEF NoEncode, EncodeRow, EncodePcs
<1>6. IdleReconcile \in ReconcileRow /\ IdleReconcile.pc = "idle"
  BY NoKey0 DEF IdleReconcile, ReconcileRow
<1>7. \A a \in Artifacts : RefOf(a) = 0 /\ ~ Waits(a) /\ ~ Refers(a)
  BY <1>1, <1>4, <1>6 DEF RefOf, Waits, Refers
<1>8. \A j \in JobNumbers, a \in Artifacts :
        encodes[j][a].pc = "idle" /\ ~ Marked(j, a) /\ ~ Loaded(j, a) /\ LoadedRef(j, a) = 0
  BY <1>1, <1>4, <1>5 DEF Marked, Loaded, HasLoaded, LoadedRef, NoEncode
<1>9. \A m \in 1..Len(encodeJobs), a \in Artifacts : ~ Keyed(m, a) /\ ~ DoneTask(m, a)
  BY <1>2, <1>3 DEF Keyed, DoneTask, EncodeTask
<1>10. EncodeShape
  BY <1>1, <1>3, <1>4, <1>5, <1>6, EncodingAssumption DEF EncodeShape
<1>11. KeysOK
  <2>1. \A m \in 1..Len(encodeJobs) : DOMAIN encodeJobs[m].key = {}
    BY <1>2, <1>3
  <2>2. reconcile.pc = "idle"
    BY <1>1, <1>6
  <2>3. \A a \in Artifacts : RefOf(a) <= Len(encodeJobs) /\ 0 <= Len(encodeJobs)
    BY <1>3, <1>7
  <2>4. \A j \in JobNumbers, a \in Artifacts : LoadedRef(j, a) <= Len(encodeJobs)
    BY <1>8, <1>3
  <2> HIDE DEF Waits, Refers
  <2> QED
    BY <1>7, <1>8, <1>9, <2>1, <2>2, <2>3, <2>4 DEF KeysOK
<1>12. ASSUME NEW a \in Artifacts PROVE RefsKept(a) /\ DoneKept(a)
  <2>1. \A j, m \in 1..Len(encodeJobs) : m <= j
    BY <1>3
  <2>2. \A j \in 1..Len(encodeJobs) : RefOf(a) <= j
    BY <1>3, <1>7
  <2> HIDE DEF Waits, Refers
  <2>3. RefsKept(a)
    BY <1>7, <1>8, <1>9, <2>1, <2>2 DEF RefsKept
  <2>4. DoneKept(a)
    BY <1>7, <1>8, <1>9 DEF DoneKept
  <2> QED
    BY <2>3, <2>4
<1> QED
  BY <1>10, <1>11, <1>12 DEF EncodeInv

LEMMA EncodeInvStep == EncodeInv /\ [EncodingNext]_encodingVars => EncodeInv'
<1> SUFFICES ASSUME EncodeInv, [EncodingNext]_encodingVars PROVE EncodeInv'
  OBVIOUS
<1>1. ASSUME NEW j \in JobNumbers, NEW a \in Artifacts, EncodeStep(j, a) PROVE EncodeInv'
  <2>1. CASE EncodingHandler(j, a)
    BY <2>1, EncodingHandlerStep
  <2>2. CASE EncodingRefused(j, a)
    BY <2>2, EncodingRefusedStep
  <2>3. CASE MarkEncodingStarted(j, a)
    BY <2>3, MarkEncodingStartedStep
  <2>4. CASE RunEncode(j, a)
    BY <2>4, RunEncodeStep
  <2>5. CASE ProgressSaved(j, a)
    BY <2>5, ProgressSavedStep
  <2>6. CASE FfmpegEnds(j, a)
    BY <2>6, FfmpegEndsStep
  <2>7. CASE PublishEncodingOutput(j, a)
    BY <2>7, PublishEncodingOutputStep
  <2>8. CASE EncodeCompletes(j, a)
    BY <2>8, EncodeCompletesStep
  <2>9. CASE EncodingReturns(j, a)
    BY <2>9, EncodingReturnsStep
  <2>10. CASE CancelSignaled(j, a)
    BY <2>10, CancelSignaledStep
  <2> QED
    BY <1>1, <2>1, <2>2, <2>3, <2>4, <2>5, <2>6, <2>7, <2>8, <2>9, <2>10 DEF EncodeStep
<1>2. ASSUME NEW j \in JobNumbers, CancelEncodeJob(j) PROVE EncodeInv'
  BY <1>2, CancelEncodeJobStep
<1>3. ASSUME NEW j \in JobNumbers, RetryEncodeJob(j) PROVE EncodeInv'
  BY <1>3, RetryEncodeJobStep
<1>4. ASSUME NEW j \in JobNumbers, RetainEncodeJob(j) PROVE EncodeInv'
  BY <1>4, RetainEncodeJobStep
<1>5. CASE AppendPending
  BY <1>5, AppendPendingStep
<1>6. CASE ReconcileEnqueue
  BY <1>6, ReconcileEnqueueStep
<1>7. CASE SetEncodingTaskReference
  BY <1>7, SetEncodingTaskReferenceStep
<1>8. CASE RunEncoderCleanup
  BY <1>8, EncodingsUntouched DEF RunEncoderCleanup
<1>9. CASE DisableEncoding
  BY <1>9, DisableEncodingStep
<1>10. CASE EnableEncoding
  BY <1>10, EncodingsUntouched DEF EnableEncoding
<1>11. CASE CancelActiveEncodingsForFile
  BY <1>11, CancelActiveStep
<1>12. CASE EncoderStops
  BY <1>12, EncoderStopsStep
<1>13. CASE EncoderCrash
  BY <1>13, EncoderCrashStep
<1>14. CASE UNCHANGED encodingVars
  BY <1>14, EncodingsUntouched DEF encodingVars
<1> QED
  BY <1>1, <1>2, <1>3, <1>4, <1>5, <1>6, <1>7, <1>8, <1>9, <1>10, <1>11, <1>12, <1>13, <1>14 DEF EncodingNext

(* An artifact that has no reference takes over a task that may still run;  *)
(* one that succeeded would have left it ready.                             *)
LEMMA KeptMeansRemembered == EncodeInv => NothingForgotten
<1> SUFFICES ASSUME EncodeInv, NEW a \in Unfinished \ (retried \cup doubled),
                    a \notin Pending, \A j \in JobNumbers : ~ LiveTask(j, a)
             PROVE  FALSE
  BY DEF NothingForgotten
<1>1. a \in Artifacts /\ ~ artifact[a].ready /\ EncodeShape /\ RefsKept(a) /\ DoneKept(a)
  BY DEF Unfinished, EncodeInv, Tidy
<1>2. ASSUME NEW m \in JobNumbers, Usable(m, a) PROVE DoneTask(m, a) /\ m \in 1..Len(encodeJobs)
  <2>1. JobExists(m) /\ EncodeTask(m, a).st \notin {"none", "failed", "canceled"} /\ ~ LiveTask(m, a)
    BY <1>2 DEF Usable
  <2>2. m \in 1..Len(encodeJobs) /\ EncodeTask(m, a) \in TaskRows
    BY <1>1, <2>1, EncodeKnown DEF JobExists
  <2>3. EncodeTask(m, a).st \in TaskStates /\ EncodeTask(m, a).st \notin TaskOpen
    BY <2>1, <2>2, TaskNames DEF LiveTask
  <2> QED
    BY <2>1, <2>2, <2>3, TaskNames DEF DoneTask, TaskOpen
<1>3. CASE RefOf(a) = 0
  <2>1. Adopts(a) # {}
    BY <1>3 DEF Pending, RefOf
  <2>2. PICK m \in JobNumbers : Usable(m, a)
    BY <2>1 DEF Adopts
  <2> QED
    BY <1>1, <1>2, <1>3, <2>2 DEF DoneKept
<1>4. CASE RefOf(a) # 0
  <2>1. PICK m : m = RefOf(a) /\ Usable(m, a)
    BY <1>4 DEF Pending, RefOf
  <2>2. m \in JobNumbers
    BY <1>1, <2>1, EncodeKnown DEF Usable
  <2> QED
    BY <1>1, <1>2, <2>1, <2>2 DEF DoneKept
<1> QED
  BY <1>3, <1>4

(* No artifact of a file that still exists is forgotten: while it is        *)
(* neither ready nor failed, a task that may still run works on it or the   *)
(* reconciliation takes it up (reconcileEncodingTasks).  Left out are the   *)
(* artifacts that are not tidy.                                             *)
THEOREM NoEncodingIsForgotten == EncodingSpec => []NothingForgotten
<1>1. EncodingInit => EncodeInv
  BY EncodeInvInit
<1>2. EncodeInv /\ [EncodingNext]_encodingVars => EncodeInv'
  BY EncodeInvStep
<1>3. EncodeInv => NothingForgotten
  BY KeptMeansRemembered
<1> QED
  BY <1>1, <1>2, <1>3, PTL DEF EncodingSpec
=============================================================================
