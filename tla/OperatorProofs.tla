--------------------------- MODULE OperatorProofs ---------------------------
(***************************************************************************)
(* Theorems about what operators ask of the API: batches of actions        *)
(* (Composing), for every number of batches, of items in one, of targets   *)
(* and templates, and of slips and edits; and the team (Team), for every   *)
(* number of users, requests and sessions and of statements that fail.     *)
(***************************************************************************)
EXTENDS Composing, Team, FiniteSetTheorems, SequenceTheorems, TLAPS

-----------------------------------------------------------------------------
(***************************************************************************)
(* Composing.                                                              *)
(***************************************************************************)

FormStages == {"idle", "check", "insert", "text", "next", "record", "over"}

ItemLists == UNION {[1 .. n -> Items] : n \in 0 .. MaxBatch}

Forms == [at : FormStages, items : ItemLists, i : 1 .. MaxBatch,
          reply : {"none", "invalid", "error", "lost", "created"}]

Slips == [left : 0 .. MaxSlips, tweaks : 0 .. MaxTweaks, on : SUBSET (Batches \cup ItemJobs),
          gone : SUBSET ItemJobs]

ComposingTyped ==
    /\ slip \in Slips
    /\ form \in [Batches -> Forms]
    /\ \A b \in Batches :
        /\ form[b].at = "idle" => form[b].i = 1
        /\ form[b].at \notin {"idle", "over"} => form[b].i <= Len(form[b].items)
    /\ cjob \in [ItemJobs -> JobRow]
    /\ \A j \in ItemJobs : cjob[j].at # "none" => cjob[j].status = "RUNNING"

HasRow(j) == cjob[j].status # "none"

\* How far the insertion of a batch has come; a batch that is neither entirely
\* there nor refused has met a slip.
Progress(b) ==
    LET f == form[b]
        Inserted(n) == \A k \in 1 .. MaxBatch : HasRow(<<b, k>>) <=> k <= n
    IN  /\ f.at \in {"idle", "check"} => Inserted(0)
        /\ f.at = "insert" => Inserted(f.i - 1)
        /\ f.at \in {"text", "next"} => Inserted(f.i)
        /\ f.at = "record" => Inserted(Len(f.items))
        /\ f.at = "over" => CASE f.reply = "created" -> Inserted(Len(f.items))
                              [] f.reply = "invalid" -> Inserted(0)
                              [] OTHER -> b \in slip.on

\* A batch is noted with rows that are there.
Recorded ==
    /\ record \in [Batches -> SUBSET ItemJobs]
    /\ \A b \in Batches : \A j \in record[b] : HasRow(j)

Commented(j) == ItemOf(j).own /\ ItemOf(j).kind = "comment"
Excused(j) == j \in slip.on \/ j[1] \in slip.on

\* The text of a row's own is there, or about to be put, or gone, or excused;
\* a job that left its text behind, and a post without it, are excused.
Worded(j) ==
    /\ HasRow(j) => j \in text \/ Early(j) \/ Excused(j) \/ j \in slip.gone
    /\ cjob[j].at = "pick" => Excused(j)
    /\ cjob[j].at \in {"push", "worker"} => cjob[j].text = "own" \/ Excused(j)

Texts == \A j \in ItemJobs : Commented(j) => Worded(j)

PostedHaveRows == \A p \in posted : p.job \in ItemJobs /\ HasRow(p.job)

ComposingInv ==
    /\ ComposingTyped /\ Recorded /\ Texts /\ PostedHaveRows /\ OwnTextPosted
    /\ \A b \in Batches : Progress(b)

-----------------------------------------------------------------------------
LEMMA ListLength ==
    ASSUME NEW items \in ItemLists
    PROVE  /\ Len(items) \in 0 .. MaxBatch /\ items \in Seq(Items)
           /\ \A k \in 1 .. Len(items) : items[k] \in Items
<1>1. PICK n \in 0 .. MaxBatch : items \in [1 .. n -> Items]
  BY DEF ItemLists
<1>2. n \in Nat
  BY ComposingConstants
<1>3. items \in Seq(Items) /\ Len(items) = n
  BY <1>1, <1>2
<1> QED BY <1>1, <1>3

\* Jobs of different batches are different.
LEMMA JobOf ==
    /\ \A b \in Batches : \A k \in 1 .. MaxBatch : <<b, k>> \in ItemJobs
    /\ \A j \in ItemJobs : j[1] \in Batches /\ j[2] \in 1 .. MaxBatch /\ j = <<j[1], j[2]>>
BY DEF ItemJobs

LEMMA FirstForms == ComposingInit => ComposingInv
<1> SUFFICES ASSUME ComposingInit PROVE ComposingInv
  OBVIOUS
<1>1. NoForm \in Forms
  <2>1. <<>> \in [1 .. 0 -> Items] /\ 0 \in 0 .. MaxBatch /\ 1 \in 1 .. MaxBatch
    BY ComposingConstants
  <2>2. <<>> \in ItemLists
    BY <2>1 DEF ItemLists
  <2> QED BY <2>1, <2>2 DEF NoForm, Forms, FormStages
<1>2. NoCjob \in JobRow
  BY DEF NoCjob, JobRow
<1>3. ComposingTyped
  <2>1. slip \in Slips
    BY ComposingConstants DEF ComposingInit, Slips
  <2> QED BY <1>1, <1>2, <2>1 DEF ComposingInit, ComposingTyped, NoForm, NoCjob
<1>4. Recorded /\ PostedHaveRows /\ OwnTextPosted
  BY DEF ComposingInit, Recorded, PostedHaveRows, OwnTextPosted
<1>5. Texts
  BY DEF ComposingInit, NoCjob, Texts, Worded, HasRow
<1>6. \A b \in Batches : Progress(b)
  BY JobOf DEF ComposingInit, NoForm, NoCjob, Progress, HasRow
<1> QED BY <1>3, <1>4, <1>5, <1>6 DEF ComposingInv

-----------------------------------------------------------------------------
(***************************************************************************)
(* Steps that insert no row: rows stay rows, and lists of items stay.      *)
(***************************************************************************)
SameRows == \A j \in ItemJobs : HasRow(j)' <=> HasRow(j)
Excuses == slip.on \subseteq slip'.on /\ slip.gone \subseteq slip'.gone

\* What went wrong is noted, and nothing forgotten.
LEMMA SlipNoted ==
    ASSUME slip \in Slips
    PROVE  /\ \A x \in Batches \cup ItemJobs :
                Slip(x) => slip' \in Slips /\ slip'.on = slip.on \cup {x} /\ slip'.gone = slip.gone
           /\ \A on \in SUBSET (Batches \cup ItemJobs) :
                slip' = [slip EXCEPT !.on = on] => slip' \in Slips /\ slip'.on = on /\ slip'.gone = slip.gone
           /\ slip.left > 0 /\ slip' = [slip EXCEPT !.left = @ - 1] =>
                slip' \in Slips /\ slip'.on = slip.on /\ slip'.gone = slip.gone
           /\ Tweak => slip' \in Slips /\ slip'.on = slip.on /\ slip'.gone = slip.gone
           /\ Smooth => slip' \in Slips /\ slip'.on = slip.on /\ slip'.gone = slip.gone
<1>1. ASSUME NEW x \in Batches \cup ItemJobs, Slip(x)
      PROVE  slip' \in Slips /\ slip'.on = slip.on \cup {x} /\ slip'.gone = slip.gone
  <2>1. slip.left - 1 \in 0 .. MaxSlips
    BY <1>1, ComposingConstants DEF Slip, Slips
  <2>2. slip.on \cup {x} \in SUBSET (Batches \cup ItemJobs)
    BY DEF Slips
  <2>3. slip' = [slip EXCEPT !.left = slip.left - 1, !.on = slip.on \cup {x}]
    BY <1>1 DEF Slip
  <2> QED BY <2>1, <2>2, <2>3 DEF Slips
<1>2. ASSUME NEW on \in SUBSET (Batches \cup ItemJobs), slip' = [slip EXCEPT !.on = on]
      PROVE  slip' \in Slips /\ slip'.on = on /\ slip'.gone = slip.gone
  BY <1>2 DEF Slips
<1>3. ASSUME slip.left > 0, slip' = [slip EXCEPT !.left = @ - 1]
      PROVE  slip' \in Slips /\ slip'.on = slip.on /\ slip'.gone = slip.gone
  BY <1>3, ComposingConstants DEF Slips
<1>4. ASSUME Tweak PROVE slip' \in Slips /\ slip'.on = slip.on /\ slip'.gone = slip.gone
  BY <1>4, ComposingConstants DEF Tweak, Slips
<1>5. ASSUME Smooth PROVE slip' \in Slips /\ slip'.on = slip.on /\ slip'.gone = slip.gone
  BY <1>5 DEF Smooth
<1> QED BY <1>1, <1>2, <1>3, <1>4, <1>5

\* Requests that stay while jobs change.
LEMMA Dispatches ==
    ASSUME ComposingInv, UNCHANGED <<form, record>>, SameRows, Excuses, slip' \in Slips,
           cjob' \in [ItemJobs -> JobRow],
           \A j \in ItemJobs : cjob'[j].at # "none" => cjob'[j].status = "RUNNING"
    PROVE  ComposingTyped' /\ Recorded' /\ \A b \in Batches : Progress(b)'
<1>1. ComposingTyped'
  BY DEF ComposingInv, ComposingTyped
<1>2. Recorded'
  BY DEF ComposingInv, Recorded, SameRows
<1>3. ASSUME NEW b \in Batches PROVE Progress(b)'
  <2>1. \A k \in 1 .. MaxBatch : HasRow(<<b, k>>)' <=> HasRow(<<b, k>>)
    BY JobOf DEF SameRows
  <2>2. Progress(b)
    BY DEF ComposingInv
  <2> QED BY <2>1, <2>2 DEF Progress, Excuses
<1> QED BY <1>1, <1>2, <1>3

\* A job with a row changes it to r.
LEMMA JobMoves ==
    ASSUME ComposingInv, NEW j \in ItemJobs, HasRow(j), NEW r \in JobRow,
           cjob' = [cjob EXCEPT ![j] = r], r.status # "none",
           r.at # "none" => r.status = "RUNNING",
           UNCHANGED <<form, record, text>>, Excuses, slip' \in Slips,
           Commented(j) =>
              /\ r.at = "pick" => j \in slip'.on \/ j[1] \in slip'.on
              /\ r.at \in {"push", "worker"} => r.text = "own" \/ j \in slip'.on \/ j[1] \in slip'.on
    PROVE  /\ ComposingTyped' /\ Recorded' /\ Texts' /\ \A b \in Batches : Progress(b)'
           /\ SameRows
<1>1. /\ cjob' \in [ItemJobs -> JobRow] /\ cjob'[j] = r
      /\ \A k \in ItemJobs \ {j} : cjob'[k] = cjob[k]
  BY DEF ComposingInv, ComposingTyped
<1>2. SameRows
  BY <1>1 DEF SameRows, HasRow
<1>3. \A k \in ItemJobs : cjob'[k].at # "none" => cjob'[k].status = "RUNNING"
  BY <1>1 DEF ComposingInv, ComposingTyped
<1>4. ComposingTyped' /\ Recorded' /\ \A b \in Batches : Progress(b)'
  BY <1>1, <1>2, <1>3, Dispatches
<1>5. Texts'
  <2> SUFFICES ASSUME NEW k \in ItemJobs, Commented(k)
               PROVE  Worded(k)'
    BY DEF Texts, Commented, ItemOf
  <2>1. Worded(k)
    BY DEF ComposingInv, Texts
  <2>2. HasRow(k)' => k \in text' \/ Early(k)' \/ Excused(k)' \/ k \in slip'.gone
    BY <1>2, <2>1 DEF SameRows, Worded, Early, Excused, Excuses
  <2>3. CASE k = j
    BY <1>1, <2>2, <2>3 DEF Worded, Excused
  <2>4. CASE k # j
    BY <1>1, <2>1, <2>2, <2>4 DEF Worded, Excused, Excuses
  <2> QED BY <2>3, <2>4
<1> QED BY <1>2, <1>4, <1>5

\* Posts stay right when only known ones are left, or words are added that a
\* text of the job's own allows.
LEMMA PostsStay ==
    ASSUME ComposingInv, SameRows, Excuses, UNCHANGED form,
           \A p \in posted' : \/ p \in posted
                              \/ /\ p.job \in ItemJobs /\ HasRow(p.job)
                                 /\ ItemOf(p.job).own => \/ p.text = "own"
                                                         \/ p.job \in slip'.on
                                                         \/ p.job[1] \in slip'.on
    PROVE  PostedHaveRows' /\ OwnTextPosted'
<1>1. PostedHaveRows'
  BY DEF ComposingInv, PostedHaveRows, SameRows
<1>2. OwnTextPosted'
  <2>1. \A j : ItemOf(j)' = ItemOf(j)
    BY DEF ItemOf
  <2> QED BY <2>1 DEF ComposingInv, OwnTextPosted, Excuses
<1> QED BY <1>1, <1>2

-----------------------------------------------------------------------------
(***************************************************************************)
(* Dispatch.                                                               *)
(***************************************************************************)
LEMMA RowShape ==
    ASSUME ComposingTyped, NEW j \in ItemJobs
    PROVE  /\ cjob[j] \in JobRow
           /\ cjob[j].at # "none" => HasRow(j)
           /\ \A at \in {"text", "pick", "push", "worker", "verdict"},
                 words \in Templates \cup {"own", NoText} :
                Goes(j, at, words) /\ cjob[j].at # "none" =>
                   \E r \in JobRow : /\ cjob' = [cjob EXCEPT ![j] = r]
                                     /\ r.status = "RUNNING" /\ r.at = at /\ r.text = words
           /\ \A status \in {"SUCCESS", "FAILED"} :
                Settle(j, status) =>
                   \E r \in JobRow : /\ cjob' = [cjob EXCEPT ![j] = r]
                                     /\ r.status = status /\ r.at = "none"
<1>1. cjob[j] \in JobRow
  BY DEF ComposingTyped
<1>2. cjob[j].at # "none" => HasRow(j)
  BY DEF ComposingTyped, HasRow
<1>3. ASSUME NEW at \in {"text", "pick", "push", "worker", "verdict"},
             NEW words \in Templates \cup {"own", NoText},
             Goes(j, at, words), cjob[j].at # "none"
      PROVE  \E r \in JobRow : /\ cjob' = [cjob EXCEPT ![j] = r]
                               /\ r.status = "RUNNING" /\ r.at = at /\ r.text = words
  <2> DEFINE r == [cjob[j] EXCEPT !.at = at, !.text = words]
  <2>1. r \in JobRow /\ r.status = cjob[j].status /\ r.at = at /\ r.text = words
    BY <1>1 DEF JobRow
  <2>2. cjob' = [cjob EXCEPT ![j] = r]
    BY <1>3 DEF Goes
  <2>3. r.status = "RUNNING"
    BY <1>3, <2>1 DEF ComposingTyped
  <2> HIDE DEF r
  <2> QED BY <2>1, <2>2, <2>3
<1>4. ASSUME NEW status \in {"SUCCESS", "FAILED"}, Settle(j, status)
      PROVE  \E r \in JobRow : /\ cjob' = [cjob EXCEPT ![j] = r]
                               /\ r.status = status /\ r.at = "none"
  <2> DEFINE r == [cjob[j] EXCEPT !.status = status, !.at = "none"]
  <2>1. r \in JobRow /\ r.status = status /\ r.at = "none"
    BY <1>1 DEF JobRow
  <2>2. cjob' = [cjob EXCEPT ![j] = r]
    BY <1>4 DEF Settle
  <2> HIDE DEF r
  <2> QED BY <2>1, <2>2
<1> QED BY <1>1, <1>2, <1>3, <1>4

LEMMA ClaimInv ==
    ASSUME ComposingInv, NEW j \in ItemJobs, ClaimNextActionJob(j)
    PROVE  ComposingInv'
<1> DEFINE at == IF ItemOf(j).kind = "comment" THEN "text" ELSE "push"
           r == [status |-> "RUNNING", at |-> at, text |-> NoText]
<1>1. /\ cjob' = [cjob EXCEPT ![j] = r] /\ HasRow(j)
      /\ UNCHANGED <<form, text, record, posted, slip>>
  BY DEF ClaimNextActionJob, HasRow
<1>2. r \in JobRow /\ r.status = "RUNNING" /\ r.at = at
  BY DEF JobRow
<1>3. Commented(j) => r.at = "text"
  BY DEF Commented
<1>4. Excuses /\ slip' \in Slips
  BY <1>1 DEF Excuses, ComposingInv, ComposingTyped
<1> HIDE DEF r, at
<1>5. ComposingTyped' /\ Recorded' /\ Texts' /\ SameRows /\ \A b \in Batches : Progress(b)'
  BY <1>1, <1>2, <1>3, <1>4, JobMoves
<1>6. PostedHaveRows' /\ OwnTextPosted'
  BY <1>1, <1>4, <1>5, PostsStay
<1> QED BY <1>5, <1>6 DEF ComposingInv

\* A text that is not found is missed: its job is excused, or is none's own.
LEMMA GetTextInv ==
    ASSUME ComposingInv, NEW j \in ItemJobs, GetText(j)
    PROVE  ComposingInv'
<1>1. /\ ComposingTyped /\ HasRow(j) /\ cjob[j].at # "none" /\ slip \in Slips
      /\ UNCHANGED <<form, text, record, posted>>
  BY RowShape DEF GetText, ComposingInv, ComposingTyped
<1>2. /\ slip' \in Slips /\ Excuses
      /\ \/ Goes(j, "push", "own")
         \/ Goes(j, "pick", NoText) /\ (Commented(j) => j \in slip'.on \/ j[1] \in slip'.on)
  <2>1. CASE j \in text /\ Goes(j, "push", "own") /\ Smooth
    BY <1>1, <2>1, SlipNoted DEF Excuses
  <2>2. CASE j \in text /\ Goes(j, "pick", NoText) /\ Slip(j)
    BY <1>1, <2>2, SlipNoted DEF Excuses
  <2>3. CASE /\ j \notin text /\ Goes(j, "pick", NoText)
             /\ slip' = [slip EXCEPT !.on = IF Early(j) \/ j \in slip.gone THEN @ \cup {j} ELSE @]
    <3> DEFINE on == IF Early(j) \/ j \in slip.gone THEN slip.on \cup {j} ELSE slip.on
    <3>1. on \in SUBSET (Batches \cup ItemJobs) /\ slip' = [slip EXCEPT !.on = on]
      BY <1>1, <2>3 DEF Slips
    <3>2. slip' \in Slips /\ slip'.on = on /\ slip'.gone = slip.gone
      BY <1>1, <3>1, SlipNoted
    <3>3. Commented(j) => Early(j) \/ Excused(j) \/ j \in slip.gone
      BY <1>1, <2>3 DEF ComposingInv, Texts, Worded
    <3> QED BY <2>3, <3>2, <3>3 DEF Excuses, Excused
  <2> QED BY <2>1, <2>2, <2>3 DEF GetText
<1>3. PICK r \in JobRow :
        /\ cjob' = [cjob EXCEPT ![j] = r] /\ r.status = "RUNNING"
        /\ \/ r.at = "push" /\ r.text = "own"
           \/ r.at = "pick" /\ (Commented(j) => j \in slip'.on \/ j[1] \in slip'.on)
  BY <1>1, <1>2, RowShape
<1>4. ComposingTyped' /\ Recorded' /\ Texts' /\ SameRows /\ \A b \in Batches : Progress(b)'
  BY <1>1, <1>2, <1>3, JobMoves
<1>5. PostedHaveRows' /\ OwnTextPosted'
  BY <1>1, <1>2, <1>4, PostsStay
<1> QED BY <1>4, <1>5 DEF ComposingInv

LEMMA PickInv ==
    ASSUME ComposingInv, NEW j \in ItemJobs, Pick(j)
    PROVE  ComposingInv'
<1>1. /\ ComposingTyped /\ HasRow(j) /\ cjob[j].at = "pick"
      /\ UNCHANGED <<form, text, record, posted, slip>>
      /\ slip' \in Slips /\ Excuses
  BY RowShape DEF Pick, ComposingInv, ComposingTyped, Excuses
<1>2. (\E m \in Templates : Goes(j, "push", m)) \/ Settle(j, "FAILED")
  BY DEF Pick, PickForTarget
<1>3. PICK r \in JobRow : /\ cjob' = [cjob EXCEPT ![j] = r] /\ r.status # "none"
                          /\ r.at # "none" => r.status = "RUNNING"
                          /\ r.at \in {"push", "none"}
  BY <1>1, <1>2, RowShape
<1>4. Commented(j) => j \in slip.on \/ j[1] \in slip.on
  BY <1>1 DEF ComposingInv, Texts, Worded, Excused
<1>5. ComposingTyped' /\ Recorded' /\ Texts' /\ SameRows /\ \A b \in Batches : Progress(b)'
  BY <1>1, <1>3, <1>4, JobMoves
<1>6. PostedHaveRows' /\ OwnTextPosted'
  BY <1>1, <1>5, PostsStay
<1> QED BY <1>5, <1>6 DEF ComposingInv

LEMMA PushTextInv ==
    ASSUME ComposingInv, NEW j \in ItemJobs, PushText(j)
    PROVE  ComposingInv'
<1>1. /\ ComposingTyped /\ HasRow(j) /\ cjob[j].at = "push" /\ cjob[j] \in JobRow
      /\ UNCHANGED <<form, text, record, posted>>
      /\ slip' \in Slips /\ Excuses
  BY RowShape, SlipNoted DEF PushText, ComposingInv, ComposingTyped, Excuses
<1>2. Commented(j) => cjob[j].text = "own" \/ j \in slip'.on \/ j[1] \in slip'.on
  BY <1>1 DEF ComposingInv, Texts, Worded, Excused, Excuses
<1>3. PICK r \in JobRow : /\ cjob' = [cjob EXCEPT ![j] = r] /\ r.status # "none"
                          /\ r.at # "none" => r.status = "RUNNING"
                          /\ r.at = "none" \/ (r.at = "worker" /\ r.text = cjob[j].text)
  <2>1. CASE Goes(j, "worker", cjob[j].text)
    BY <1>1, <2>1, RowShape DEF JobRow
  <2>2. CASE cjob' = [cjob EXCEPT ![j] = [NoCjob EXCEPT !.status = "PENDING"]]
    <3>1. /\ [NoCjob EXCEPT !.status = "PENDING"] \in JobRow
          /\ [NoCjob EXCEPT !.status = "PENDING"].status = "PENDING"
          /\ [NoCjob EXCEPT !.status = "PENDING"].at = "none"
      BY DEF NoCjob, JobRow
    <3> QED BY <2>2, <3>1
  <2> QED BY <2>1, <2>2 DEF PushText
<1>4. ComposingTyped' /\ Recorded' /\ Texts' /\ SameRows /\ \A b \in Batches : Progress(b)'
  BY <1>1, <1>2, <1>3, JobMoves
<1>5. PostedHaveRows' /\ OwnTextPosted'
  BY <1>1, <1>4, PostsStay
<1> QED BY <1>4, <1>5 DEF ComposingInv

\* What is posted are the words the job was pushed with.
LEMMA PostTextInv ==
    ASSUME ComposingInv, NEW j \in ItemJobs, PostText(j)
    PROVE  ComposingInv'
<1>1. /\ ComposingTyped /\ HasRow(j) /\ cjob[j].at = "worker" /\ cjob[j] \in JobRow
      /\ UNCHANGED <<form, text, record, slip>>
      /\ slip' \in Slips /\ Excuses
  BY RowShape DEF PostText, ComposingInv, ComposingTyped, Excuses
<1>2. Commented(j) => cjob[j].text = "own" \/ j \in slip.on \/ j[1] \in slip.on
  BY <1>1 DEF ComposingInv, Texts, Worded, Excused
<1>3. PICK r \in JobRow : /\ cjob' = [cjob EXCEPT ![j] = r]
                          /\ r.status = "RUNNING" /\ r.at = "verdict"
  BY <1>1, RowShape DEF PostText, JobRow
<1>4. ComposingTyped' /\ Recorded' /\ Texts' /\ SameRows /\ \A b \in Batches : Progress(b)'
  BY <1>1, <1>3, JobMoves
<1>5. \A p \in posted' : \/ p \in posted
                         \/ p.job = j /\ (ItemOf(j).own => \/ p.text = "own"
                                                           \/ j \in slip.on \/ j[1] \in slip.on)
  BY <1>2 DEF PostText, Commented
<1>6. PostedHaveRows' /\ OwnTextPosted'
  BY <1>1, <1>4, <1>5, PostsStay
<1> QED BY <1>4, <1>6 DEF ComposingInv

LEMMA RecordActionInv ==
    ASSUME ComposingInv, NEW j \in ItemJobs, RecordAction(j)
    PROVE  ComposingInv'
<1>1. /\ ComposingTyped /\ HasRow(j) /\ UNCHANGED <<form, text, record, posted, slip>>
      /\ slip' \in Slips /\ Excuses
  BY RowShape DEF RecordAction, ComposingInv, ComposingTyped, Excuses
<1>2. PICK r \in JobRow : /\ cjob' = [cjob EXCEPT ![j] = r]
                          /\ r.status = "SUCCESS" /\ r.at = "none"
  BY <1>1, RowShape DEF RecordAction
<1>3. ComposingTyped' /\ Recorded' /\ Texts' /\ SameRows /\ \A b \in Batches : Progress(b)'
  BY <1>1, <1>2, JobMoves
<1>4. PostedHaveRows' /\ OwnTextPosted'
  BY <1>1, <1>3, PostsStay
<1> QED BY <1>3, <1>4 DEF ComposingInv

\* A text that lapses is noted as gone.
LEMMA TextExpiresInv ==
    ASSUME ComposingInv, NEW j \in ItemJobs, TextExpires(j)
    PROVE  ComposingInv'
<1>1. /\ UNCHANGED <<form, cjob, record, posted>> /\ text' = text \ {j}
      /\ slip \in Slips /\ slip.left > 0
      /\ slip' = [slip EXCEPT !.left = @ - 1, !.gone = @ \cup {j}]
  BY DEF TextExpires, ComposingInv, ComposingTyped
<1>2. slip' \in Slips /\ slip'.on = slip.on /\ slip'.gone = slip.gone \cup {j}
  <2>1. slip.left - 1 \in 0 .. MaxSlips /\ slip.gone \cup {j} \in SUBSET ItemJobs
    BY <1>1, ComposingConstants DEF Slips
  <2> QED BY <1>1, <2>1 DEF Slips
<1>3. Excuses /\ SameRows
  BY <1>1, <1>2 DEF Excuses, SameRows, HasRow
<1>4. ComposingTyped' /\ Recorded' /\ \A b \in Batches : Progress(b)'
  BY <1>1, <1>2, <1>3, Dispatches DEF ComposingInv, ComposingTyped
<1>5. PostedHaveRows' /\ OwnTextPosted'
  BY <1>1, <1>3, PostsStay
<1>6. Texts'
  <2> SUFFICES ASSUME NEW k \in ItemJobs, Commented(k)
               PROVE  Worded(k)'
    BY <1>1 DEF Texts, Commented, ItemOf
  <2>1. Worded(k)
    BY DEF ComposingInv, Texts
  <2> QED BY <1>1, <1>2, <2>1 DEF Worded, HasRow, Early, Excused
<1> QED BY <1>4, <1>5, <1>6 DEF ComposingInv

\* Time passes, and templates are edited, beside the requests and the jobs.
LEMMA BesideInv ==
    ASSUME ComposingInv, UNCHANGED <<form, cjob, text, record>>, posted' \subseteq posted,
           Tweak \/ Smooth
    PROVE  ComposingInv'
<1>1. slip' \in Slips /\ slip'.on = slip.on /\ slip'.gone = slip.gone
  BY SlipNoted DEF ComposingInv, ComposingTyped
<1>2. Excuses /\ SameRows
  BY <1>1 DEF Excuses, SameRows, HasRow
<1>3. ComposingTyped' /\ Recorded' /\ \A b \in Batches : Progress(b)'
  BY <1>1, <1>2, Dispatches DEF ComposingInv, ComposingTyped
<1>4. PostedHaveRows' /\ OwnTextPosted'
  BY <1>2, PostsStay
<1>5. Texts'
  BY <1>1 DEF ComposingInv, Texts, Commented, ItemOf, Worded, HasRow, Early, Excused
<1> QED BY <1>3, <1>4, <1>5 DEF ComposingInv

-----------------------------------------------------------------------------
(***************************************************************************)
(* Requests.                                                               *)
(***************************************************************************)

\* What a step of batch b leaves of the others.
LEMMA Elsewhere ==
    ASSUME ComposingInv, NEW b \in Batches, NEW f \in Forms,
           form' = [form EXCEPT ![b] = f],
           f.at # "idle", f.at # "over" => f.i <= Len(f.items),
           cjob' \in [ItemJobs -> JobRow],
           \A j \in ItemJobs : cjob'[j].at # "none" => cjob'[j].status = "RUNNING",
           \A j \in ItemJobs : j[1] # b => cjob'[j] = cjob[j],
           Excuses, slip' \in Slips,
           Progress(b)'
    PROVE  ComposingTyped' /\ \A c \in Batches : Progress(c)'
<1>1. /\ form' \in [Batches -> Forms] /\ form'[b] = f
      /\ \A c \in Batches \ {b} : form'[c] = form[c]
  BY DEF ComposingInv, ComposingTyped
<1>2. ComposingTyped'
  BY <1>1 DEF ComposingInv, ComposingTyped
<1>3. ASSUME NEW c \in Batches, c # b PROVE Progress(c)'
  <2>1. \A k \in 1 .. MaxBatch : cjob'[<<c, k>>] = cjob[<<c, k>>]
    <3> SUFFICES ASSUME NEW k \in 1 .. MaxBatch PROVE cjob'[<<c, k>>] = cjob[<<c, k>>]
      OBVIOUS
    <3>1. <<c, k>> \in ItemJobs /\ <<c, k>>[1] = c
      BY JobOf
    <3> QED BY <1>3, <3>1
  <2>2. Progress(c) /\ form'[c] = form[c]
    BY <1>1, <1>3 DEF ComposingInv
  <2> QED BY <2>1, <2>2 DEF Progress, HasRow, Excuses
<1> QED BY <1>2, <1>3

\* A step of a request that inserts no row and keeps its items.
LEMMA FormMoves ==
    ASSUME ComposingInv, NEW b \in Batches, NEW f \in Forms,
           form' = [form EXCEPT ![b] = f], f.items = form[b].items,
           f.at # "idle", f.at # "over" => f.i <= Len(f.items),
           UNCHANGED <<cjob, posted>>, Excuses, slip' \in Slips,
           Progress(b)', Recorded',
           text \subseteq text',
           form[b].at = "text" => \/ <<b, form[b].i>> \in text'
                                  \/ <<b, form[b].i>> \in slip'.on \/ b \in slip'.on
    PROVE  ComposingInv'
<1>1. ComposingTyped' /\ \A c \in Batches : Progress(c)'
  BY Elsewhere DEF ComposingInv, ComposingTyped
<1>2. \A c \in Batches : form'[c].items = form[c].items
  BY DEF ComposingInv, ComposingTyped
<1>3. \A j \in ItemJobs : ItemOf(j)' = ItemOf(j)
  BY <1>2, JobOf DEF ItemOf
<1>4. \A j \in ItemJobs : Early(j) => Early(j)' \/ j \in text' \/ j \in slip'.on \/ j[1] \in slip'.on
  <2> SUFFICES ASSUME NEW j \in ItemJobs, Early(j)
               PROVE  Early(j)' \/ j \in text' \/ j \in slip'.on \/ j[1] \in slip'.on
    OBVIOUS
  <2>1. j = <<j[1], j[2]>> /\ j[1] \in Batches
    BY JobOf
  <2>2. CASE j[1] = b
    BY <2>1, <2>2 DEF Early
  <2>3. CASE j[1] # b
    <3>1. form'[j[1]] = form[j[1]]
      BY <2>1, <2>3 DEF ComposingInv, ComposingTyped
    <3> QED BY <3>1 DEF Early
  <2> QED BY <2>2, <2>3
<1>5. Texts'
  <2> SUFFICES ASSUME NEW j \in ItemJobs, Commented(j)' PROVE Worded(j)'
    BY DEF Texts
  <2>1. Worded(j)
    BY <1>3 DEF ComposingInv, Texts, Commented
  <2> QED BY <1>4, <2>1 DEF Worded, HasRow, Excused, Excuses
<1>6. PostedHaveRows'
  BY DEF ComposingInv, PostedHaveRows, HasRow
<1>7. OwnTextPosted'
  BY <1>3 DEF ComposingInv, PostedHaveRows, OwnTextPosted, Excuses
<1> QED BY <1>1, <1>5, <1>6, <1>7 DEF ComposingInv

\* Step and Respond keep the form of a request.
LEMMA FormShape ==
    ASSUME ComposingTyped, NEW b \in Batches
    PROVE  /\ form[b] \in Forms /\ slip \in Slips
           /\ Len(form[b].items) \in 0 .. MaxBatch
           /\ \A at \in FormStages, i \in 1 .. MaxBatch :
                Step(b, at, i) => \E f \in Forms : /\ form' = [form EXCEPT ![b] = f]
                                                   /\ f.at = at /\ f.i = i
                                                   /\ f.items = form[b].items
           /\ \A reply \in {"invalid", "error", "lost", "created"} :
                Respond(b, reply) => \E f \in Forms : /\ form' = [form EXCEPT ![b] = f]
                                                      /\ f.at = "over" /\ f.reply = reply
                                                      /\ f.items = form[b].items
<1>1. form[b] \in Forms /\ slip \in Slips
  BY DEF ComposingTyped
<1>2. Len(form[b].items) \in 0 .. MaxBatch
  BY <1>1, ListLength DEF Forms
<1>3. ASSUME NEW at \in FormStages, NEW i \in 1 .. MaxBatch, Step(b, at, i)
      PROVE  \E f \in Forms : /\ form' = [form EXCEPT ![b] = f]
                              /\ f.at = at /\ f.i = i /\ f.items = form[b].items
  <2> DEFINE f == [form[b] EXCEPT !.at = at, !.i = i]
  <2>1. f \in Forms /\ f.at = at /\ f.i = i /\ f.items = form[b].items
    BY <1>1 DEF Forms
  <2>2. form' = [form EXCEPT ![b] = f]
    BY <1>3 DEF Step
  <2> HIDE DEF f
  <2> QED BY <2>1, <2>2
<1>4. ASSUME NEW reply \in {"invalid", "error", "lost", "created"}, Respond(b, reply)
      PROVE  \E f \in Forms : /\ form' = [form EXCEPT ![b] = f]
                              /\ f.at = "over" /\ f.reply = reply /\ f.items = form[b].items
  <2> DEFINE f == [form[b] EXCEPT !.at = "over", !.reply = reply]
  <2>1. f \in Forms /\ f.at = "over" /\ f.reply = reply /\ f.items = form[b].items
    BY <1>1 DEF Forms, FormStages
  <2>2. form' = [form EXCEPT ![b] = f]
    BY <1>4 DEF Respond
  <2> HIDE DEF f
  <2> QED BY <2>1, <2>2
<1> QED BY <1>1, <1>2, <1>3, <1>4

\* Rows noted stay rows when no row is written.
LEMMA StillRecorded ==
    ASSUME ComposingInv, UNCHANGED <<cjob, record>>
    PROVE  Recorded'
BY DEF ComposingInv, Recorded, HasRow

\* A request that comes in has no row yet, nor words of its jobs anywhere.
LEMMA PostActionsInv ==
    ASSUME ComposingInv, NEW b \in Batches, PostActions(b)
    PROVE  ComposingInv'
<1>1. PICK n \in 1 .. MaxBatch : \E items \in [1 .. n -> Items] :
        form' = [form EXCEPT ![b].at = "check", ![b].items = items]
  BY DEF PostActions
<1>2. PICK items \in [1 .. n -> Items] :
        form' = [form EXCEPT ![b].at = "check", ![b].items = items]
  BY <1>1
<1> DEFINE f == [form[b] EXCEPT !.at = "check", !.items = items]
<1>3. /\ form[b] \in Forms /\ form[b].at = "idle"
      /\ UNCHANGED <<cjob, text, record, posted, slip>>
  BY DEF PostActions, ComposingInv, ComposingTyped
<1>4. items \in ItemLists /\ Len(items) = n
  <2>1. n \in 0 .. MaxBatch
    OBVIOUS
  <2> QED BY <2>1 DEF ItemLists
<1>5. f \in Forms /\ f.at = "check" /\ f.items = items /\ f.i = form[b].i
  BY <1>3, <1>4 DEF Forms, FormStages
<1>6. form' = [form EXCEPT ![b] = f]
  BY <1>2
<1> HIDE DEF f
<1>7. \A k \in 1 .. MaxBatch : ~ HasRow(<<b, k>>)
  BY <1>3, ComposingConstants DEF ComposingInv, Progress
<1>8. Progress(b)'
  <2>1. form'[b] = f
    BY <1>6 DEF ComposingInv, ComposingTyped
  <2> QED BY <1>3, <1>5, <1>7, <2>1 DEF Progress, HasRow
<1>9. Excuses /\ slip' \in Slips
  BY <1>3 DEF Excuses, ComposingInv, ComposingTyped
<1>10. ComposingTyped' /\ \A c \in Batches : Progress(c)'
  <2>1. f.at # "idle" /\ f.i <= Len(f.items)
    BY <1>3, <1>4, <1>5 DEF ComposingInv, ComposingTyped
  <2> QED BY <1>3, <1>5, <1>6, <1>8, <1>9, <2>1, Elsewhere DEF ComposingInv, ComposingTyped
<1>11. Recorded'
  BY <1>3, StillRecorded
<1>12. \A j \in ItemJobs : HasRow(j) => j[1] # b
  <2> SUFFICES ASSUME NEW j \in ItemJobs, HasRow(j), j[1] = b PROVE FALSE
    OBVIOUS
  <2>1. j = <<b, j[2]>> /\ j[2] \in 1 .. MaxBatch
    BY JobOf
  <2> QED BY <1>7, <2>1
<1>13. \A j \in ItemJobs : HasRow(j) => form'[j[1]] = form[j[1]]
  BY <1>6, <1>12, JobOf DEF ComposingInv, ComposingTyped
<1>14. Texts'
  <2> SUFFICES ASSUME NEW j \in ItemJobs, Commented(j)' PROVE Worded(j)'
    BY DEF Texts
  <2>1. CASE HasRow(j)
    <3>1. Worded(j)
      BY <1>13, <2>1 DEF ComposingInv, Texts, Commented, ItemOf
    <3> QED BY <1>3, <1>13, <2>1, <3>1 DEF Worded, HasRow, Early, Excused
  <2>2. CASE ~ HasRow(j)
    <3>1. cjob[j].at = "none"
      BY <2>2 DEF ComposingInv, ComposingTyped, HasRow, JobRow
    <3> QED BY <1>3, <2>2, <3>1 DEF Worded, HasRow
  <2> QED BY <2>1, <2>2
<1>15. PostedHaveRows' /\ OwnTextPosted'
  <2>1. \A p \in posted : ItemOf(p.job)' = ItemOf(p.job)
    BY <1>13 DEF ComposingInv, PostedHaveRows, ItemOf
  <2> QED BY <1>3, <2>1 DEF ComposingInv, PostedHaveRows, OwnTextPosted, HasRow
<1> QED BY <1>10, <1>11, <1>14, <1>15 DEF ComposingInv

LEMMA CheckItemInv ==
    ASSUME ComposingInv, NEW b \in Batches, CheckItem(b)
    PROVE  ComposingInv'
<1>1. /\ ComposingTyped /\ form[b].at = "check" /\ UNCHANGED <<cjob, text, record, posted, slip>>
      /\ Excuses /\ slip' \in Slips /\ Recorded'
  BY StillRecorded DEF CheckItem, ComposingInv, ComposingTyped, Excuses
<1>2. /\ form[b].i \in 1 .. Len(form[b].items) /\ Len(form[b].items) \in 0 .. MaxBatch
      /\ 1 \in 1 .. MaxBatch
  BY <1>1, FormShape, ComposingConstants DEF ComposingTyped, Forms
<1>3. PICK f \in Forms :
        /\ form' = [form EXCEPT ![b] = f] /\ f.items = form[b].items
        /\ \/ /\ f.at \in {"check", "insert"} /\ f.i \in 1 .. Len(f.items)
              /\ f.at = "insert" => f.i = 1
           \/ f.at = "over" /\ f.reply = "invalid"
  <2>1. CASE form[b].i = Len(form[b].items) /\ Step(b, "insert", 1)
    BY <1>1, <1>2, <2>1, FormShape DEF FormStages
  <2>2. CASE form[b].i # Len(form[b].items) /\ Step(b, "check", form[b].i + 1)
    <3>1. form[b].i + 1 \in 1 .. Len(form[b].items) /\ form[b].i + 1 \in 1 .. MaxBatch
      BY <1>2, <2>2, ComposingConstants
    <3> QED BY <1>1, <2>2, <3>1, FormShape DEF FormStages
  <2>3. CASE Respond(b, "invalid")
    BY <1>1, <2>3, FormShape
  <2> QED BY <2>1, <2>2, <2>3 DEF CheckItem
<1>4. \A k \in 1 .. MaxBatch : ~ HasRow(<<b, k>>)
  BY <1>1, ComposingConstants DEF ComposingInv, Progress
<1>5. Progress(b)'
  <2>1. form'[b] = f
    BY <1>1, <1>3 DEF ComposingTyped
  <2>2. \A k \in 1 .. MaxBatch : HasRow(<<b, k>>)' <=> k <= 0
    BY <1>1, <1>4, ComposingConstants DEF HasRow
  <2>3. f.at = "insert" => f.i - 1 = 0
    BY <1>3
  <2> QED BY <1>3, <2>1, <2>2, <2>3 DEF Progress
<1>6. /\ f.at # "idle" /\ form[b].at # "text"
      /\ f.at # "over" => f.i <= Len(f.items)
  BY <1>1, <1>2, <1>3
<1> QED BY <1>1, <1>3, <1>5, <1>6, FormMoves

\* A row at a time: the one inserted is the next of its batch.
LEMMA InsertInv ==
    ASSUME ComposingInv, NEW b \in Batches, InsertActionJob(b)
    PROVE  ComposingInv'
<1>0. PICK i : i = form[b].i
  OBVIOUS
<1> DEFINE j == <<b, i>>
<1>1. /\ ComposingTyped /\ form[b].at = "insert" /\ UNCHANGED <<text, record, posted>>
      /\ form[b] \in Forms /\ slip \in Slips
      /\ i \in 1 .. Len(form[b].items) /\ Len(form[b].items) \in 0 .. MaxBatch
      /\ i \in 1 .. MaxBatch /\ j \in ItemJobs
  <2>1. ComposingTyped /\ form[b].at = "insert" /\ UNCHANGED <<text, record, posted>>
    BY DEF InsertActionJob, ComposingInv
  <2>2. form[b] \in Forms /\ slip \in Slips /\ Len(form[b].items) \in 0 .. MaxBatch
    BY <2>1, FormShape
  <2>3. i \in 1 .. MaxBatch /\ i <= Len(form[b].items)
    BY <1>0, <2>1, <2>2 DEF ComposingTyped, Forms
  <2> QED BY <2>1, <2>2, <2>3, JobOf, ComposingConstants
<1>2. CASE Respond(b, "error") /\ UNCHANGED cjob /\ Slip(b)
  <2>1. slip' \in Slips /\ slip'.on = slip.on \cup {b} /\ slip'.gone = slip.gone
    BY <1>1, <1>2, SlipNoted
  <2>2. PICK f \in Forms : /\ form' = [form EXCEPT ![b] = f] /\ f.items = form[b].items
                           /\ f.at = "over" /\ f.reply = "error"
    BY <1>1, <1>2, FormShape
  <2>3. Progress(b)'
    <3>1. form'[b] = f
      BY <1>1, <2>2 DEF ComposingTyped
    <3> QED BY <2>1, <2>2, <3>1 DEF Progress
  <2>4. Recorded' /\ Excuses
    BY <1>1, <1>2, <2>1, StillRecorded DEF Excuses
  <2> QED BY <1>1, <1>2, <2>1, <2>2, <2>3, <2>4, FormMoves
<1>3. CASE /\ cjob' = [cjob EXCEPT ![j].status = "PENDING"]
           /\ Step(b, IF form[b].items[i].own THEN "text" ELSE "next", i)
           /\ Smooth
  <2> DEFINE r == [cjob[j] EXCEPT !.status = "PENDING"]
             at == IF form[b].items[i].own THEN "text" ELSE "next"
  <2>1. ~ HasRow(j)
    BY <1>0, <1>1, ComposingConstants DEF ComposingInv, Progress
  <2>2. cjob[j] \in JobRow /\ cjob[j].at = "none"
    BY <1>1, <2>1 DEF ComposingTyped, HasRow, JobRow
  <2>3. r \in JobRow /\ r.status = "PENDING" /\ r.at = "none"
    BY <2>2 DEF JobRow
  <2> HIDE DEF r
  <2>4. /\ cjob' = [cjob EXCEPT ![j] = r]
    BY <1>3 DEF r
  <2>5. /\ cjob' \in [ItemJobs -> JobRow] /\ cjob'[j] = r
        /\ \A k \in ItemJobs \ {j} : cjob'[k] = cjob[k]
    BY <1>1, <2>3, <2>4 DEF ComposingTyped
  <2>6. PICK f \in Forms : /\ form' = [form EXCEPT ![b] = f] /\ f.items = form[b].items
                           /\ f.at = at /\ f.i = i
    BY <1>1, <1>3, FormShape DEF FormStages
  <2>7. form'[b] = f /\ \A c \in Batches \ {b} : form'[c] = form[c]
    BY <1>1, <2>6 DEF ComposingTyped
  <2>8. slip' \in Slips /\ slip'.on = slip.on /\ Excuses
    BY <1>1, <1>3, SlipNoted DEF Excuses
  <2>9. Progress(b)'
    <3>1. \A k \in 1 .. MaxBatch : HasRow(<<b, k>>)' <=> k <= i
      <4> SUFFICES ASSUME NEW k \in 1 .. MaxBatch PROVE HasRow(<<b, k>>)' <=> k <= i
        OBVIOUS
      <4>1. <<b, k>> \in ItemJobs /\ (HasRow(<<b, k>>) <=> k <= i - 1)
        BY <1>0, <1>1, JobOf DEF ComposingInv, Progress
      <4>2. CASE k = i
        BY <2>3, <2>5, <4>2 DEF HasRow
      <4>3. CASE k # i
        <5>1. cjob'[<<b, k>>] = cjob[<<b, k>>]
          BY <2>5, <4>1, <4>3
        <5> QED BY <1>1, <4>1, <4>3, <5>1 DEF HasRow
      <4> QED BY <4>2, <4>3
    <3> QED BY <2>6, <2>7, <3>1 DEF Progress
  <2>10. ComposingTyped' /\ \A c \in Batches : Progress(c)'
    <3>1. \A k \in ItemJobs : cjob'[k].at # "none" => cjob'[k].status = "RUNNING"
      BY <1>1, <2>3, <2>5 DEF ComposingTyped
    <3>2. \A k \in ItemJobs : k[1] # b => cjob'[k] = cjob[k]
      BY <2>5
    <3>3. f.at # "idle" /\ f.i <= Len(f.items)
      BY <1>1, <2>6
    <3> QED BY <2>5, <2>6, <2>8, <2>9, <3>1, <3>2, <3>3, Elsewhere
  <2>11. \A k \in ItemJobs : HasRow(k) => HasRow(k)'
    BY <2>1, <2>5 DEF HasRow
  <2>12. Recorded' /\ PostedHaveRows'
    BY <1>1, <2>11 DEF ComposingInv, Recorded, PostedHaveRows
  <2>13. \A k \in ItemJobs : ItemOf(k)' = ItemOf(k)
    <3>1. \A c \in Batches : form'[c].items = form[c].items
      BY <2>6, <2>7
    <3> QED BY <3>1, JobOf DEF ItemOf
  <2>14. OwnTextPosted'
    BY <1>1, <2>8, <2>13 DEF ComposingInv, PostedHaveRows, OwnTextPosted
  <2>15. Texts'
    <3> SUFFICES ASSUME NEW k \in ItemJobs, Commented(k)' PROVE Worded(k)'
      BY DEF Texts
    <3>1. Commented(k)
      BY <2>13 DEF Commented
    <3>2. CASE k = j
      <4>1. ItemOf(j).own
        BY <3>1, <3>2 DEF Commented
      <4>2. at = "text" /\ Early(j)'
        BY <2>6, <2>7, <4>1 DEF ItemOf, Early
      <4> QED BY <2>3, <2>5, <3>2, <4>2 DEF Worded
    <3>3. CASE k # j
      <4>1. Worded(k) /\ cjob'[k] = cjob[k]
        BY <2>5, <3>1, <3>3 DEF ComposingInv, Texts
      <4>2. Early(k) => Early(k)'
        BY <1>1, <2>7, JobOf DEF Early
      <4> QED BY <1>1, <2>8, <4>1, <4>2 DEF Worded, HasRow, Excused, Excuses
    <3> QED BY <3>2, <3>3
  <2> QED BY <2>10, <2>12, <2>14, <2>15 DEF ComposingInv
<1> QED BY <1>0, <1>2, <1>3 DEF InsertActionJob

LEMMA PutTextInv ==
    ASSUME ComposingInv, NEW b \in Batches, PutText(b)
    PROVE  ComposingInv'
<1> DEFINE j == <<b, form[b].i>>
<1>1. /\ ComposingTyped /\ form[b].at = "text" /\ UNCHANGED <<cjob, record, posted>>
      /\ form[b].i \in 1 .. Len(form[b].items) /\ Len(form[b].items) \in 0 .. MaxBatch
      /\ form[b].i \in 1 .. MaxBatch /\ j \in ItemJobs /\ slip \in Slips
  <2>1. ComposingTyped /\ form[b].at = "text" /\ UNCHANGED <<cjob, record, posted>>
    BY DEF PutText, ComposingInv
  <2>2. form[b] \in Forms /\ slip \in Slips /\ Len(form[b].items) \in 0 .. MaxBatch
    BY <2>1, FormShape
  <2>3. form[b].i \in 1 .. MaxBatch /\ form[b].i <= Len(form[b].items)
    BY <2>1, <2>2 DEF ComposingTyped, Forms
  <2> QED BY <2>1, <2>2, <2>3, JobOf, ComposingConstants
<1>2. /\ slip' \in Slips /\ Excuses /\ text \subseteq text'
      /\ j \in text' \/ j \in slip'.on
  BY <1>1, SlipNoted DEF PutText, Excuses
<1>3. PICK f \in Forms : /\ form' = [form EXCEPT ![b] = f] /\ f.items = form[b].items
                         /\ f.at = "next" /\ f.i = form[b].i
  BY <1>1, FormShape DEF PutText, FormStages
<1>4. Progress(b)'
  <2>1. form'[b] = f
    BY <1>1, <1>3 DEF ComposingTyped
  <2>2. Progress(b)
    BY DEF ComposingInv
  <2> QED BY <1>1, <1>3, <2>1, <2>2 DEF Progress, HasRow
<1>5. Recorded'
  BY <1>1, StillRecorded
<1>6. f.at # "idle" /\ f.i <= Len(f.items)
  BY <1>1, <1>3
<1>7. <<b, form[b].i>> \in text' \/ <<b, form[b].i>> \in slip'.on
  BY <1>2
<1> HIDE DEF j
<1> QED BY <1>1, <1>2, <1>3, <1>4, <1>5, <1>6, <1>7, FormMoves

LEMMA NextItemInv ==
    ASSUME ComposingInv, NEW b \in Batches, NextItem(b)
    PROVE  ComposingInv'
<1>1. /\ ComposingTyped /\ form[b].at = "next" /\ UNCHANGED <<cjob, text, record, posted, slip>>
      /\ form[b].i \in 1 .. Len(form[b].items) /\ Len(form[b].items) \in 0 .. MaxBatch
      /\ Excuses /\ slip' \in Slips /\ Recorded'
  BY FormShape, StillRecorded DEF NextItem, ComposingInv, ComposingTyped, Forms, Excuses
<1>2. PICK f \in Forms :
        /\ form' = [form EXCEPT ![b] = f] /\ f.items = form[b].items
        /\ \/ form[b].i = Len(f.items) /\ f.at = "record" /\ f.i = form[b].i
           \/ form[b].i < Len(f.items) /\ f.at = "insert" /\ f.i = form[b].i + 1
  <2>1. CASE form[b].i = Len(form[b].items) /\ Step(b, "record", form[b].i)
    BY <1>1, <2>1, FormShape DEF FormStages
  <2>2. CASE form[b].i # Len(form[b].items) /\ Step(b, "insert", form[b].i + 1)
    <3>1. form[b].i + 1 \in 1 .. MaxBatch /\ form[b].i < Len(form[b].items)
      BY <1>1, <2>2, ComposingConstants
    <3> QED BY <1>1, <2>2, <3>1, FormShape DEF FormStages
  <2> QED BY <2>1, <2>2 DEF NextItem
<1>3. Progress(b)'
  <2>1. form'[b] = f
    BY <1>1, <1>2 DEF ComposingTyped
  <2>2. \A k \in 1 .. MaxBatch : HasRow(<<b, k>>) <=> k <= form[b].i
    BY <1>1 DEF ComposingInv, Progress
  <2>3. CASE f.at = "record"
    BY <1>1, <1>2, <2>1, <2>2, <2>3 DEF Progress, HasRow
  <2>4. CASE f.at = "insert"
    <3>1. f.i - 1 = form[b].i
      BY <1>1, <1>2, <2>4
    <3> QED BY <1>1, <2>1, <2>2, <2>4, <3>1 DEF Progress, HasRow
  <2> QED BY <1>2, <2>3, <2>4
<1>4. f.at # "idle" /\ f.i <= Len(f.items)
  BY <1>1, <1>2
<1> QED BY <1>1, <1>2, <1>3, <1>4, FormMoves

\* The answer "created": every row is there, and only those are noted.
LEMMA RecordBatchInv ==
    ASSUME ComposingInv, NEW b \in Batches, RecordBatch(b)
    PROVE  ComposingInv'
<1>1. /\ ComposingTyped /\ form[b].at = "record" /\ UNCHANGED <<cjob, text, posted>> /\ slip \in Slips
      /\ Len(form[b].items) \in 0 .. MaxBatch
  BY FormShape DEF RecordBatch, ComposingInv, ComposingTyped
<1>2. slip' \in Slips /\ Excuses
  BY <1>1, SlipNoted DEF RecordBatch, Excuses
<1>3. PICK f \in Forms : /\ form' = [form EXCEPT ![b] = f] /\ f.items = form[b].items
                         /\ f.at = "over" /\ f.reply = "created"
  BY <1>1, FormShape DEF RecordBatch
<1>4. \A k \in 1 .. MaxBatch : HasRow(<<b, k>>) <=> k <= Len(form[b].items)
  BY <1>1 DEF ComposingInv, Progress
<1>5. Progress(b)'
  <2>1. form'[b] = f
    BY <1>1, <1>3 DEF ComposingTyped
  <2> QED BY <1>1, <1>3, <1>4, <2>1 DEF Progress, HasRow
<1>6. Made(b) \subseteq ItemJobs /\ \A j \in Made(b) : HasRow(j)
  <2> SUFFICES ASSUME NEW j \in Made(b) PROVE HasRow(j)
    BY DEF Made
  <2>1. j \in ItemJobs /\ j = <<b, j[2]>> /\ j[2] \in 1 .. MaxBatch /\ j[2] <= Len(form[b].items)
    BY JobOf DEF Made
  <2> QED BY <1>4, <2>1
<1>7. Recorded'
  BY <1>1, <1>6 DEF RecordBatch, ComposingInv, Recorded, HasRow
<1> QED BY <1>1, <1>2, <1>3, <1>5, <1>7, FormMoves

LEMMA AbandonBatchInv ==
    ASSUME ComposingInv, NEW b \in Batches, AbandonBatch(b)
    PROVE  ComposingInv'
<1>1. /\ ComposingTyped /\ UNCHANGED <<cjob, text, record, posted>> /\ slip \in Slips /\ Recorded'
  BY StillRecorded DEF AbandonBatch, ComposingInv, ComposingTyped
<1>2. slip' \in Slips /\ b \in slip'.on /\ Excuses
  BY <1>1, SlipNoted DEF AbandonBatch, Excuses
<1>3. PICK f \in Forms : /\ form' = [form EXCEPT ![b] = f] /\ f.items = form[b].items
                         /\ f.at = "over" /\ f.reply = "lost"
  BY <1>1, FormShape DEF AbandonBatch
<1>4. Progress(b)'
  <2>1. form'[b] = f
    BY <1>1, <1>3 DEF ComposingTyped
  <2> QED BY <1>2, <1>3, <2>1 DEF Progress
<1> QED BY <1>1, <1>2, <1>3, <1>4, FormMoves

-----------------------------------------------------------------------------
LEMMA ComposingInvStep == ComposingInv /\ [ComposingNext]_composingVars => ComposingInv'
<1> SUFFICES ASSUME ComposingInv, [ComposingNext]_composingVars PROVE ComposingInv'
  OBVIOUS
<1>1. ASSUME NEW b \in Batches,
             \/ PostActions(b) \/ CheckItem(b) \/ InsertActionJob(b) \/ PutText(b) \/ NextItem(b)
             \/ RecordBatch(b) \/ AbandonBatch(b)
      PROVE  ComposingInv'
  BY <1>1, PostActionsInv, CheckItemInv, InsertInv, PutTextInv, NextItemInv, RecordBatchInv,
     AbandonBatchInv
<1>2. ASSUME NEW j \in ItemJobs,
             \/ TextExpires(j) \/ ClaimNextActionJob(j) \/ GetText(j) \/ Pick(j)
             \/ PushText(j) \/ PostText(j) \/ RecordAction(j)
      PROVE  ComposingInv'
  BY <1>2, TextExpiresInv, ClaimInv, GetTextInv, PickInv, PushTextInv, PostTextInv, RecordActionInv
<1>3. ASSUME NEW j \in ItemJobs, WeekPasses(j) PROVE ComposingInv'
  <2>1. posted' \subseteq posted /\ UNCHANGED <<form, cjob, text, record, slip>>
    BY <1>3 DEF WeekPasses
  <2> QED BY <2>1, BesideInv DEF Smooth
<1>4. ASSUME NEW m \in Templates, CreateTemplate(m) \/ UpdateTemplate(m) \/ DeleteTemplate(m)
      PROVE  ComposingInv'
  BY <1>4, BesideInv DEF CreateTemplate, UpdateTemplate, DeleteTemplate
<1>5. CASE UNCHANGED composingVars
  BY <1>5, BesideInv DEF composingVars, Smooth
<1> QED BY <1>1, <1>2, <1>3, <1>4, <1>5 DEF ComposingNext

\* Once a request is answered its batch is there or not, item for item, unless
\* a statement failed or the request was cut off; a rollup misses no job.
THEOREM BatchesAllOrNothing == ComposingSpec => []AllOrNothing
<1>1. ComposingInv => AllOrNothing
  <2> SUFFICES ASSUME ComposingInv, NEW b \in Batches
               PROVE  /\ form[b].at = "over" /\ b \notin slip.on =>
                            {j \in Made(b) : cjob[j].status # "none"}
                              = IF form[b].reply = "created" THEN Made(b) ELSE {}
                      /\ GetBatchStatus(b).missing = 0
    BY DEF AllOrNothing
  <2>1. \A j \in Made(b) : /\ j = <<b, j[2]>> /\ j[2] \in 1 .. MaxBatch
                           /\ j[2] <= Len(form[b].items)
    BY JobOf DEF Made
  <2>2. ASSUME form[b].at = "over", b \notin slip.on
        PROVE  {j \in Made(b) : cjob[j].status # "none"}
                 = IF form[b].reply = "created" THEN Made(b) ELSE {}
    <3>1. CASE form[b].reply = "created"
      <4>1. \A k \in 1 .. MaxBatch : HasRow(<<b, k>>) <=> k <= Len(form[b].items)
        BY <2>2, <3>1 DEF ComposingInv, Progress
      <4>2. \A j \in Made(b) : HasRow(j)
        BY <2>1, <4>1
      <4> QED BY <3>1, <4>2 DEF HasRow
    <3>2. CASE form[b].reply # "created"
      <4>1. form[b].reply = "invalid"
        BY <2>2, <3>2 DEF ComposingInv, Progress
      <4>2. \A k \in 1 .. MaxBatch : HasRow(<<b, k>>) <=> k <= 0
        BY <2>2, <4>1 DEF ComposingInv, Progress
      <4>3. \A j \in Made(b) : ~ HasRow(j)
        BY <2>1, <4>2
      <4> QED BY <3>2, <4>3 DEF HasRow
    <3> QED BY <3>1, <3>2
  <2>3. {j \in record[b] : cjob[j].status = "none"} = {}
    BY DEF ComposingInv, Recorded, HasRow
  <2>4. GetBatchStatus(b).missing = 0
    BY <2>3, FS_EmptySet DEF GetBatchStatus
  <2> QED BY <2>2, <2>4
<1> QED BY <1>1, FirstForms, ComposingInvStep, PTL DEF ComposingSpec

\* What is posted for an item with a text of its own is that text, but for
\* the excuses: claimed too early, claimed again after the text lapsed, Redis
\* failing, or the request cut off.
THEOREM OperatorsWordsPosted == ComposingSpec => []OwnTextPosted
<1>1. ComposingInv => OwnTextPosted
  BY DEF ComposingInv
<1> QED BY <1>1, FirstForms, ComposingInvStep, PTL DEF ComposingSpec

-----------------------------------------------------------------------------
(***************************************************************************)
(* The shape of the tables.  ComposingInv has most of it; the rest is that *)
(* rows, texts and notes are of the items of a request, whose list is set  *)
(* before the first of them, and that comments go out with words.          *)
(***************************************************************************)
Words == Templates \cup {"own"}
TemplateRows == [there : BOOLEAN, active : BOOLEAN, fit : BOOLEAN]
LogRows == [job : ItemJobs, template : Templates \cup {NoText}]

\* The items of a form looked at so far are right, and only an own text is to be put.
Checked(f) ==
    /\ f.at = "check" => \A k \in 1 .. f.i - 1 : ValidItem(f.items[k])
    /\ f.at \in {"insert", "text", "next"} => \A k \in 1 .. Len(f.items) : ValidItem(f.items[k])
    /\ f.at = "text" => f.items[f.i].own

\* A row is of an item of its batch, at a step as long as it is RUNNING, and
\* goes out with words if it is a comment.
Fitting(j) ==
    /\ HasRow(j) => j \in Made(j[1])
    /\ cjob[j].status = "RUNNING" => cjob[j].at # "none"
    /\ cjob[j].at \in {"push", "worker"} /\ ItemOf(j).kind = "comment" => cjob[j].text \in Words

OwnTexts == \A j \in text : /\ j \in ItemJobs /\ HasRow(j)
                            /\ ItemOf(j).own /\ ItemOf(j).kind = "comment"

StoredRows ==
    /\ tmpl \in [Templates -> TemplateRows]
    /\ logged \subseteq LogRows
    /\ \A p \in posted : p.text \in Words

TableInv ==
    /\ OwnTexts /\ StoredRows
    /\ \A b \in Batches : Checked(form[b]) /\ record[b] \subseteq Made(b)
    /\ \A j \in ItemJobs : Fitting(j)

LEMMA FirstTables == ComposingInit => TableInv
<1> SUFFICES ASSUME ComposingInit PROVE TableInv
  OBVIOUS
<1>1. OwnTexts /\ StoredRows
  <2>1. NoTemplate \in TemplateRows /\ [there |-> TRUE, active |-> TRUE, fit |-> TRUE] \in TemplateRows
    BY DEF NoTemplate, TemplateRows
  <2> QED BY <2>1 DEF ComposingInit, OwnTexts, StoredRows
<1>2. ASSUME NEW b \in Batches PROVE Checked(form[b]) /\ record[b] \subseteq Made(b)
  BY DEF ComposingInit, NoForm, Checked
<1>3. ASSUME NEW j \in ItemJobs PROVE Fitting(j)
  BY DEF ComposingInit, NoCjob, Fitting, HasRow
<1> QED BY <1>1, <1>2, <1>3 DEF TableInv

\* What changes beside requests and jobs are templates, logs and posts.
LEMMA TablesBeside ==
    ASSUME TableInv, UNCHANGED <<form, cjob, text, record>>, StoredRows'
    PROVE  TableInv'
<1>1. \A b \in Batches : Made(b)' = Made(b)
  BY DEF Made
<1>2. \A j \in ItemJobs : Fitting(j)'
  BY <1>1, JobOf DEF TableInv, Fitting, HasRow, ItemOf
<1>3. OwnTexts'
  BY DEF TableInv, OwnTexts, HasRow, ItemOf
<1> QED BY <1>1, <1>2, <1>3 DEF TableInv

\* A job changes its row to r.
LEMMA TablesDispatch ==
    ASSUME ComposingInv, TableInv, NEW j \in ItemJobs, HasRow(j), NEW r \in JobRow,
           cjob' = [cjob EXCEPT ![j] = r], r.status # "none",
           r.status = "RUNNING" => r.at # "none",
           r.at \in {"push", "worker"} /\ ItemOf(j).kind = "comment" => r.text \in Words,
           UNCHANGED <<form, text, record>>, StoredRows'
    PROVE  TableInv'
<1>1. /\ cjob'[j] = r /\ \A k \in ItemJobs \ {j} : cjob'[k] = cjob[k]
      /\ \A k \in ItemJobs : HasRow(k)' <=> HasRow(k)
  BY DEF ComposingInv, ComposingTyped, HasRow
<1>2. /\ \A b \in Batches : Made(b)' = Made(b)
      /\ \A k \in ItemJobs : ItemOf(k)' = ItemOf(k)
  BY DEF Made, ItemOf
<1>3. ASSUME NEW k \in ItemJobs PROVE Fitting(k)'
  <2>1. Fitting(k) /\ k[1] \in Batches
    BY JobOf DEF TableInv
  <2>2. HasRow(k)' => k \in Made(k[1])'
    BY <1>1, <1>2, <2>1 DEF Fitting
  <2>3. CASE k = j
    BY <1>1, <1>2, <2>2, <2>3 DEF Fitting
  <2>4. CASE k # j
    BY <1>1, <1>2, <2>1, <2>2, <2>4 DEF Fitting
  <2> QED BY <2>3, <2>4
<1>4. OwnTexts'
  BY <1>1, <1>2 DEF TableInv, OwnTexts
<1> QED BY <1>2, <1>3, <1>4 DEF TableInv

\* A request goes on with the form f and may insert the next of its rows.
LEMMA TablesForm ==
    ASSUME ComposingInv, TableInv, NEW b \in Batches, NEW f \in Forms,
           form' = [form EXCEPT ![b] = f], f.items = form[b].items, Checked(f),
           \A j \in ItemJobs : \/ cjob'[j] = cjob[j]
                               \/ /\ j \in Made(j[1])
                                  /\ cjob'[j].status = "PENDING" /\ cjob'[j].at = "none",
           \A j \in text' : \/ j \in text
                            \/ /\ j \in ItemJobs /\ HasRow(j)
                               /\ ItemOf(j).own /\ ItemOf(j).kind = "comment",
           \A c \in Batches : record'[c] \subseteq Made(c),
           UNCHANGED <<tmpl, logged, posted>>
    PROVE  TableInv'
<1>1. /\ form'[b] = f
      /\ \A c \in Batches : form'[c].items = form[c].items
      /\ \A c \in Batches : c # b => form'[c] = form[c]
  BY DEF ComposingInv, ComposingTyped
<1>2. /\ \A c \in Batches : Made(c)' = Made(c)
      /\ \A j \in ItemJobs : ItemOf(j)' = ItemOf(j)
  BY <1>1, JobOf DEF Made, ItemOf
<1>3. ASSUME NEW j \in ItemJobs PROVE Fitting(j)' /\ (HasRow(j) => HasRow(j)')
  <2>1. Fitting(j) /\ j[1] \in Batches
    BY JobOf DEF TableInv
  <2>2. CASE cjob'[j] = cjob[j]
    BY <1>2, <2>1, <2>2 DEF Fitting, HasRow
  <2>3. CASE /\ j \in Made(j[1])
             /\ cjob'[j].status = "PENDING" /\ cjob'[j].at = "none"
    BY <1>2, <2>1, <2>3 DEF Fitting, HasRow
  <2> QED BY <2>2, <2>3
<1>4. OwnTexts'
  BY <1>2, <1>3 DEF TableInv, OwnTexts
<1>5. StoredRows'
  BY DEF TableInv, StoredRows
<1>6. \A c \in Batches : Checked(form'[c])
  BY <1>1 DEF TableInv
<1> QED BY <1>2, <1>3, <1>4, <1>5, <1>6 DEF TableInv

\* The list of items is set while no row, text or note of the batch is there.
LEMMA PostActionsTables ==
    ASSUME ComposingInv, TableInv, NEW b \in Batches, PostActions(b)
    PROVE  TableInv'
<1>1. PICK n \in 1 .. MaxBatch : \E items \in [1 .. n -> Items] :
        form' = [form EXCEPT ![b].at = "check", ![b].items = items]
  BY DEF PostActions
<1>2. PICK items \in [1 .. n -> Items] :
        form' = [form EXCEPT ![b].at = "check", ![b].items = items]
  BY <1>1
<1>3. /\ form[b] \in Forms /\ form[b].at = "idle" /\ form[b].i = 1
      /\ UNCHANGED <<cjob, text, record, tmpl, logged, posted, slip>>
  BY DEF PostActions, ComposingInv, ComposingTyped
<1>4. /\ form'[b].at = "check" /\ form'[b].i = 1
      /\ \A c \in Batches : c # b => form'[c] = form[c]
  BY <1>2, <1>3 DEF ComposingInv, ComposingTyped, Forms
<1>5. \A j \in ItemJobs : HasRow(j) => j[1] # b
  <2> SUFFICES ASSUME NEW j \in ItemJobs, HasRow(j), j[1] = b PROVE FALSE
    OBVIOUS
  <2>1. \A k \in 1 .. MaxBatch : ~ HasRow(<<b, k>>)
    BY <1>3, ComposingConstants DEF ComposingInv, Progress
  <2>2. j = <<b, j[2]>> /\ j[2] \in 1 .. MaxBatch
    BY JobOf
  <2> QED BY <2>1, <2>2
<1>6. /\ \A c \in Batches : c # b => Made(c)' = Made(c)
      /\ \A j \in ItemJobs : HasRow(j) => ItemOf(j)' = ItemOf(j)
  BY <1>4, <1>5, JobOf DEF Made, ItemOf
<1>7. record[b] = {}
  <2> SUFFICES ASSUME NEW j \in record[b] PROVE FALSE
    OBVIOUS
  <2>1. j \in ItemJobs /\ j[1] = b /\ HasRow(j)
    BY DEF TableInv, Made, ComposingInv, Recorded
  <2> QED BY <1>5, <2>1
<1>8. ASSUME NEW c \in Batches PROVE Checked(form'[c]) /\ record'[c] \subseteq Made(c)'
  <2>1. CASE c = b
    BY <1>3, <1>4, <1>7, <2>1 DEF Checked
  <2>2. CASE c # b
    BY <1>3, <1>4, <1>6, <2>2 DEF TableInv
  <2> QED BY <2>1, <2>2
<1>9. ASSUME NEW j \in ItemJobs PROVE Fitting(j)'
  <2>1. Fitting(j) /\ j[1] \in Batches
    BY JobOf DEF TableInv
  <2>2. CASE HasRow(j)
    BY <1>3, <1>5, <1>6, <2>1, <2>2 DEF Fitting, HasRow
  <2>3. CASE ~ HasRow(j)
    <3>1. cjob[j].status = "none" /\ cjob[j].at = "none"
      BY <2>3 DEF ComposingInv, ComposingTyped, HasRow, JobRow
    <3> QED BY <1>3, <3>1 DEF Fitting, HasRow
  <2> QED BY <2>2, <2>3
<1>10. OwnTexts'
  BY <1>3, <1>6 DEF TableInv, OwnTexts, HasRow
<1>11. StoredRows'
  BY <1>3 DEF TableInv, StoredRows
<1> QED BY <1>8, <1>9, <1>10, <1>11 DEF TableInv

\* The other steps of a request keep its items.
LEMMA RequestTables ==
    ASSUME ComposingInv, TableInv, NEW b \in Batches,
           \/ CheckItem(b) \/ InsertActionJob(b) \/ PutText(b) \/ NextItem(b)
           \/ RecordBatch(b) \/ AbandonBatch(b)
    PROVE  TableInv'
<1>1. PICK i, n : i = form[b].i /\ n = Len(form[b].items)
  OBVIOUS
<1>2. /\ ComposingTyped /\ form[b] \in Forms /\ n \in 0 .. MaxBatch /\ i \in 1 .. MaxBatch
      /\ form[b].at \notin {"idle", "over"} => i <= n
      /\ Checked(form[b])
      /\ \A c \in Batches : record[c] \subseteq Made(c)
  BY <1>1, FormShape DEF ComposingInv, ComposingTyped, TableInv, Forms
<1>3. ASSUME NEW reply \in {"invalid", "error", "lost", "created"}, Respond(b, reply),
             \A c \in Batches : record'[c] \subseteq Made(c),
             UNCHANGED <<cjob, text, tmpl, logged, posted>>
      PROVE  TableInv'
  <2>1. PICK f \in Forms : /\ form' = [form EXCEPT ![b] = f] /\ f.items = form[b].items
                           /\ f.at = "over"
    BY <1>2, <1>3, FormShape
  <2>2. Checked(f)
    BY <2>1 DEF Checked
  <2> QED BY <1>3, <2>1, <2>2, TablesForm
<1>4. ASSUME CheckItem(b) PROVE TableInv'
  <2>1. /\ form[b].at = "check" /\ UNCHANGED <<cjob, text, record, tmpl, logged, posted, slip>>
        /\ \A k \in 1 .. i - 1 : ValidItem(form[b].items[k])
    BY <1>1, <1>2, <1>4 DEF CheckItem, Checked
  <2>2. CASE Respond(b, "invalid")
    BY <1>2, <1>3, <2>1, <2>2
  <2>3. CASE /\ ValidItem(form[b].items[i])
             /\ IF i = n THEN Step(b, "insert", 1) ELSE Step(b, "check", i + 1)
    <3>1. PICK f \in Forms : /\ form' = [form EXCEPT ![b] = f] /\ f.items = form[b].items
                             /\ \/ i = n /\ f.at = "insert"
                                \/ f.at = "check" /\ f.i = i + 1
      <4>1. 1 \in 1 .. MaxBatch /\ (i # n => i + 1 \in 1 .. MaxBatch)
        BY <1>2, <2>1, ComposingConstants
      <4> QED BY <1>2, <2>3, <4>1, FormShape DEF FormStages
    <3>2. \A k \in 1 .. i : ValidItem(form[b].items[k])
      BY <1>2, <2>1, <2>3
    <3>3. Checked(f)
      <4>1. CASE i = n /\ f.at = "insert"
        BY <1>1, <3>1, <3>2, <4>1 DEF Checked
      <4>2. CASE f.at = "check" /\ f.i = i + 1
        <5>1. f.i - 1 = i
          BY <1>2, <4>2
        <5> QED BY <3>1, <3>2, <4>2, <5>1 DEF Checked
      <4> QED BY <3>1, <4>1, <4>2
    <3> QED BY <1>2, <2>1, <3>1, <3>3, TablesForm
  <2> QED BY <1>1, <1>4, <2>2, <2>3 DEF CheckItem
<1>5. ASSUME InsertActionJob(b) PROVE TableInv'
  <2>1. /\ form[b].at = "insert" /\ UNCHANGED <<text, record, tmpl, logged, posted>>
        /\ \A k \in 1 .. n : ValidItem(form[b].items[k])
    BY <1>1, <1>2, <1>5 DEF InsertActionJob, Checked
  <2>2. CASE Respond(b, "error") /\ UNCHANGED cjob
    BY <1>2, <1>3, <2>1, <2>2
  <2>3. CASE /\ cjob' = [cjob EXCEPT ![<<b, i>>].status = "PENDING"]
             /\ Step(b, IF form[b].items[i].own THEN "text" ELSE "next", i)
    <3>1. PICK f \in Forms : /\ form' = [form EXCEPT ![b] = f] /\ f.items = form[b].items
                             /\ f.at = IF form[b].items[i].own THEN "text" ELSE "next"
                             /\ f.i = i
      BY <1>2, <2>3, FormShape DEF FormStages
    <3>2. Checked(f)
      BY <1>1, <2>1, <3>1 DEF Checked
    <3>3. PICK j \in ItemJobs : j = <<b, i>>
      BY <1>2, JobOf
    <3>4. j[1] = b /\ j[2] = i /\ j \in Made(j[1]) /\ ~ HasRow(j)
      <4>1. j[1] = b /\ j[2] = i /\ i <= n
        BY <1>2, <2>1, <3>3
      <4>2. ~ HasRow(j)
        BY <1>1, <1>2, <2>1, <3>3, ComposingConstants DEF ComposingInv, Progress
      <4> QED BY <1>1, <4>1, <4>2 DEF Made
    <3>5. cjob[j] \in JobRow /\ cjob[j].at = "none"
      BY <1>2, <3>4 DEF ComposingTyped, HasRow, JobRow
    <3>6. /\ cjob'[j].status = "PENDING" /\ cjob'[j].at = "none"
          /\ \A k \in ItemJobs : k # j => cjob'[k] = cjob[k]
      BY <1>2, <2>3, <3>3, <3>5 DEF ComposingTyped, JobRow
    <3> QED BY <1>2, <2>1, <3>1, <3>2, <3>4, <3>6, TablesForm
  <2> QED BY <1>1, <1>5, <2>2, <2>3 DEF InsertActionJob
<1>6. ASSUME PutText(b) PROVE TableInv'
  <2>1. /\ form[b].at = "text" /\ UNCHANGED <<cjob, record, tmpl, logged, posted>>
        /\ Step(b, "next", i) /\ text' \subseteq text \cup {<<b, i>>}
        /\ form[b].items[i].own /\ \A k \in 1 .. n : ValidItem(form[b].items[k])
    BY <1>1, <1>2, <1>6 DEF PutText, Checked
  <2>2. PICK f \in Forms : /\ form' = [form EXCEPT ![b] = f] /\ f.items = form[b].items
                           /\ f.at = "next"
    BY <1>2, <2>1, FormShape DEF FormStages
  <2>3. Checked(f)
    BY <1>1, <2>1, <2>2 DEF Checked
  <2>4. PICK j \in ItemJobs : j = <<b, i>>
    BY <1>2, JobOf
  <2>5. HasRow(j) /\ ItemOf(j).own /\ ItemOf(j).kind = "comment"
    <3>1. HasRow(j)
      BY <1>1, <1>2, <2>1, <2>4 DEF ComposingInv, Progress
    <3>2. ItemOf(j) = form[b].items[i]
      BY <2>4 DEF ItemOf
    <3>3. form[b].items[i].kind = "comment"
      BY <1>2, <2>1 DEF ValidItem
    <3> QED BY <2>1, <3>1, <3>2, <3>3
  <2> QED BY <1>2, <2>1, <2>2, <2>3, <2>4, <2>5, TablesForm
<1>7. ASSUME NextItem(b) PROVE TableInv'
  <2>1. /\ form[b].at = "next" /\ UNCHANGED <<cjob, text, record, tmpl, logged, posted>>
        /\ \A k \in 1 .. n : ValidItem(form[b].items[k])
    BY <1>1, <1>2, <1>7 DEF NextItem, Checked
  <2>2. PICK f \in Forms : /\ form' = [form EXCEPT ![b] = f] /\ f.items = form[b].items
                           /\ f.at \in {"record", "insert"}
    <3>1. i # n => i + 1 \in 1 .. MaxBatch
      BY <1>2, <2>1, ComposingConstants
    <3> QED BY <1>1, <1>2, <1>7, <3>1, FormShape DEF NextItem, FormStages
  <2>3. Checked(f)
    BY <1>1, <2>1, <2>2 DEF Checked
  <2> QED BY <1>2, <2>1, <2>2, <2>3, TablesForm
<1>8. ASSUME RecordBatch(b) PROVE TableInv'
  <2>1. \A c \in Batches : record'[c] \subseteq Made(c)
    BY <1>2, <1>8 DEF RecordBatch, ComposingInv, Recorded
  <2> QED BY <1>3, <1>8, <2>1 DEF RecordBatch
<1>9. ASSUME AbandonBatch(b) PROVE TableInv'
  BY <1>2, <1>3, <1>9 DEF AbandonBatch
<1> QED BY <1>4, <1>5, <1>6, <1>7, <1>8, <1>9

LEMMA DispatchTables ==
    ASSUME ComposingInv, TableInv, NEW j \in ItemJobs,
           \/ ClaimNextActionJob(j) \/ GetText(j) \/ Pick(j) \/ PushText(j) \/ PostText(j)
           \/ RecordAction(j)
    PROVE  TableInv'
<1>1. /\ ComposingTyped /\ cjob[j] \in JobRow /\ Fitting(j) /\ StoredRows
      /\ cjob[j].at # "none" => HasRow(j)
  BY RowShape DEF ComposingInv, TableInv
<1>2. UNCHANGED <<tmpl, logged, posted>> => StoredRows'
  BY <1>1 DEF StoredRows
<1>3. ASSUME NEW at \in {"pick", "push", "worker", "verdict"},
             NEW words \in Templates \cup {"own", NoText},
             Goes(j, at, words), cjob[j].at # "none", UNCHANGED <<form, text, record>>, StoredRows',
             at \in {"push", "worker"} /\ ItemOf(j).kind = "comment" => words \in Words
      PROVE  TableInv'
  <2>1. PICK r \in JobRow : /\ cjob' = [cjob EXCEPT ![j] = r]
                            /\ r.status = "RUNNING" /\ r.at = at /\ r.text = words
    BY <1>1, <1>3, RowShape
  <2> QED BY <1>1, <1>3, <2>1, TablesDispatch
<1>4. ASSUME NEW status \in {"SUCCESS", "FAILED"}, Settle(j, status), cjob[j].at # "none",
             UNCHANGED <<form, text, record>>, StoredRows'
      PROVE  TableInv'
  <2>1. PICK r \in JobRow : /\ cjob' = [cjob EXCEPT ![j] = r]
                            /\ r.status = status /\ r.at = "none"
    BY <1>1, <1>4, RowShape
  <2> QED BY <1>1, <1>4, <2>1, TablesDispatch
<1>5. ASSUME ClaimNextActionJob(j) PROVE TableInv'
  <2>1. HasRow(j) /\ UNCHANGED <<form, text, record, tmpl, logged, posted, slip>>
    BY <1>5 DEF ClaimNextActionJob, HasRow
  <2>2. PICK r \in JobRow : /\ cjob' = [cjob EXCEPT ![j] = r] /\ r.status = "RUNNING"
                            /\ r.at = IF ItemOf(j).kind = "comment" THEN "text" ELSE "push"
    <3> DEFINE r == [status |-> "RUNNING",
                     at |-> IF ItemOf(j).kind = "comment" THEN "text" ELSE "push",
                     text |-> NoText]
    <3>1. r \in JobRow
      BY DEF JobRow
    <3> QED BY <1>5, <3>1 DEF ClaimNextActionJob
  <2> QED BY <1>2, <2>1, <2>2, TablesDispatch
<1>6. ASSUME GetText(j) PROVE TableInv'
  <2>1. cjob[j].at # "none" /\ UNCHANGED <<form, text, record>> /\ StoredRows'
    BY <1>2, <1>6 DEF GetText
  <2>2. Goes(j, "push", "own") \/ Goes(j, "pick", NoText)
    BY <1>6 DEF GetText
  <2> QED BY <1>3, <2>1, <2>2 DEF Words
<1>7. ASSUME Pick(j) PROVE TableInv'
  <2>1. cjob[j].at # "none" /\ UNCHANGED <<form, text, record>> /\ StoredRows'
    BY <1>2, <1>7 DEF Pick
  <2>2. (\E m \in Templates : Goes(j, "push", m)) \/ Settle(j, "FAILED")
    BY <1>7 DEF Pick, PickForTarget
  <2> QED BY <1>3, <1>4, <2>1, <2>2 DEF Words
<1>8. ASSUME PushText(j) PROVE TableInv'
  <2>1. /\ cjob[j].at = "push" /\ UNCHANGED <<form, text, record>> /\ StoredRows'
        /\ cjob[j].text \in Templates \cup {"own", NoText}
        /\ ItemOf(j).kind = "comment" => cjob[j].text \in Words
    BY <1>1, <1>2, <1>8 DEF PushText, JobRow, Fitting
  <2>2. CASE Goes(j, "worker", cjob[j].text)
    BY <1>3, <2>1, <2>2
  <2>3. CASE cjob' = [cjob EXCEPT ![j] = [NoCjob EXCEPT !.status = "PENDING"]]
    <3>1. /\ [NoCjob EXCEPT !.status = "PENDING"] \in JobRow
          /\ [NoCjob EXCEPT !.status = "PENDING"].status = "PENDING"
          /\ [NoCjob EXCEPT !.status = "PENDING"].at = "none"
      BY DEF NoCjob, JobRow
    <3> QED BY <1>1, <2>1, <2>3, <3>1, TablesDispatch
  <2> QED BY <1>8, <2>2, <2>3 DEF PushText
<1>9. ASSUME PostText(j) PROVE TableInv'
  <2>1. /\ cjob[j].at = "worker" /\ UNCHANGED <<form, text, record, tmpl, logged>>
        /\ cjob[j].text \in Templates \cup {"own", NoText} /\ Goes(j, "verdict", cjob[j].text)
        /\ ItemOf(j).kind = "comment" => cjob[j].text \in Words
    BY <1>1, <1>9 DEF PostText, JobRow, Fitting
  <2>2. StoredRows'
    <3>1. \A p \in posted' : p \in posted \/ (ItemOf(j).kind = "comment" /\ p.text = cjob[j].text)
      BY <1>9 DEF PostText
    <3> QED BY <1>1, <2>1, <3>1 DEF StoredRows
  <2> QED BY <1>3, <2>1, <2>2
<1>10. ASSUME RecordAction(j) PROVE TableInv'
  <2>1. /\ cjob[j].at = "verdict" /\ UNCHANGED <<form, text, record, tmpl, posted>>
        /\ Settle(j, "SUCCESS")
    BY <1>10 DEF RecordAction
  <2>2. [job |-> j, template |-> NoText] \in LogRows
    BY DEF LogRows
  <2>3. StoredRows'
    BY <1>1, <1>10, <2>1, <2>2 DEF StoredRows, RecordAction, UpsertActionLog
  <2> QED BY <1>4, <2>1, <2>3
<1> QED BY <1>5, <1>6, <1>7, <1>8, <1>9, <1>10

\* A text that lapses leaves the others.
LEMMA TextExpiresTables ==
    ASSUME TableInv, NEW j \in ItemJobs, TextExpires(j)
    PROVE  TableInv'
<1>1. UNCHANGED <<form, cjob, record, tmpl, logged, posted>> /\ text' \subseteq text
  BY DEF TextExpires
<1>2. \A b \in Batches : Made(b)' = Made(b)
  BY <1>1 DEF Made
<1>3. \A k \in ItemJobs : Fitting(k)'
  BY <1>1, <1>2, JobOf DEF TableInv, Fitting, HasRow, ItemOf
<1>4. OwnTexts' /\ StoredRows'
  BY <1>1 DEF TableInv, OwnTexts, StoredRows, HasRow, ItemOf
<1> QED BY <1>1, <1>2, <1>3, <1>4 DEF TableInv

LEMMA TemplateTables ==
    ASSUME TableInv, NEW m \in Templates,
           CreateTemplate(m) \/ UpdateTemplate(m) \/ DeleteTemplate(m)
    PROVE  TableInv'
<1>1. UNCHANGED <<form, cjob, text, record, posted>> /\ StoredRows
  BY DEF CreateTemplate, UpdateTemplate, DeleteTemplate, TableInv
<1>2. tmpl' \in [Templates -> TemplateRows]
  <2>1. CASE CreateTemplate(m)
    BY <1>1, <2>1 DEF CreateTemplate, StoredRows, TemplateRows
  <2>2. CASE UpdateTemplate(m)
    <3>1. PICK fit, active \in BOOLEAN :
            tmpl' = [tmpl EXCEPT ![m].active = active, ![m].fit = fit]
      BY <2>2 DEF UpdateTemplate
    <3>2. [tmpl[m] EXCEPT !.active = active, !.fit = fit] \in TemplateRows
      BY <1>1 DEF StoredRows, TemplateRows
    <3>3. tmpl' = [tmpl EXCEPT ![m] = [tmpl[m] EXCEPT !.active = active, !.fit = fit]]
      BY <3>1
    <3> QED BY <1>1, <3>2, <3>3 DEF StoredRows
  <2>3. CASE DeleteTemplate(m)
    <3>1. NoTemplate \in TemplateRows
      BY DEF NoTemplate, TemplateRows
    <3> QED BY <1>1, <2>3, <3>1 DEF DeleteTemplate, StoredRows
  <2> QED BY <2>1, <2>2, <2>3
<1>3. logged' \subseteq LogRows
  <2>1. CASE UNCHANGED logged
    BY <1>1, <2>1 DEF StoredRows
  <2>2. CASE DeleteTemplate(m)
    <3> SUFFICES ASSUME NEW l \in LogRows
                 PROVE  [l EXCEPT !.template = IF @ = m THEN NoText ELSE @] \in LogRows
      BY <1>1, <2>2 DEF StoredRows, DeleteTemplate
    <3> QED BY DEF LogRows
  <2> QED BY <2>1, <2>2 DEF CreateTemplate, UpdateTemplate
<1>4. StoredRows'
  BY <1>1, <1>2, <1>3 DEF StoredRows
<1> QED BY <1>1, <1>4, TablesBeside

LEMMA TableInvStep == ComposingInv /\ TableInv /\ [ComposingNext]_composingVars => TableInv'
<1> SUFFICES ASSUME ComposingInv, TableInv, [ComposingNext]_composingVars PROVE TableInv'
  OBVIOUS
<1>1. ASSUME NEW b \in Batches,
             \/ PostActions(b) \/ CheckItem(b) \/ InsertActionJob(b) \/ PutText(b) \/ NextItem(b)
             \/ RecordBatch(b) \/ AbandonBatch(b)
      PROVE  TableInv'
  BY <1>1, PostActionsTables, RequestTables
<1>2. ASSUME NEW j \in ItemJobs,
             \/ TextExpires(j) \/ ClaimNextActionJob(j) \/ GetText(j) \/ Pick(j)
             \/ PushText(j) \/ PostText(j) \/ RecordAction(j)
      PROVE  TableInv'
  BY <1>2, TextExpiresTables, DispatchTables
<1>3. ASSUME NEW j \in ItemJobs, WeekPasses(j) PROVE TableInv'
  <2>1. UNCHANGED <<form, cjob, text, record, tmpl>> /\ posted' \subseteq posted /\ logged' \subseteq logged
    BY <1>3 DEF WeekPasses
  <2>2. StoredRows'
    BY <2>1 DEF TableInv, StoredRows
  <2> QED BY <2>1, <2>2, TablesBeside
<1>4. ASSUME NEW m \in Templates, CreateTemplate(m) \/ UpdateTemplate(m) \/ DeleteTemplate(m)
      PROVE  TableInv'
  BY <1>4, TemplateTables
<1>5. CASE UNCHANGED composingVars
  <2>1. UNCHANGED <<form, cjob, text, record, tmpl, logged, posted>>
    BY <1>5 DEF composingVars
  <2>2. StoredRows'
    BY <2>1 DEF TableInv, StoredRows
  <2> QED BY <2>1, <2>2, TablesBeside
<1> QED BY <1>1, <1>2, <1>3, <1>4, <1>5 DEF ComposingNext

\* The tables of a batch, its jobs, texts and templates keep their shape: among
\* others every row, note and text is of an item of its request, a RUNNING row
\* is at a step of its dispatch, and a comment is never posted without words.
THEOREM ComposingTypeCorrect == ComposingSpec => []ComposingTypeOK
<1>1. ComposingInv /\ TableInv => ComposingTypeOK
  <2> SUFFICES ASSUME ComposingInv, TableInv PROVE ComposingTypeOK
    OBVIOUS
  <2>1. ASSUME NEW b \in Batches
        PROVE  /\ form[b].at \in {"idle", "check", "insert", "text", "next", "record", "over"}
               /\ form[b].i \in 1 .. MaxBatch
               /\ form[b].items \in UNION {[1 .. n -> Items] : n \in 0 .. MaxBatch}
               /\ form[b].reply \in {"none", "invalid", "error", "lost", "created"}
               /\ record[b] \subseteq Made(b)
    BY DEF ComposingInv, ComposingTyped, TableInv, Forms, FormStages, ItemLists
  <2>2. /\ cjob \in [ItemJobs -> JobRow]
        /\ \A j \in ItemJobs : (cjob[j].status = "RUNNING") = (cjob[j].at # "none")
        /\ \A j \in ItemJobs : cjob[j].status # "none" => j \in Made(j[1])
    BY DEF ComposingInv, ComposingTyped, TableInv, Fitting, HasRow
  <2>3. /\ text \subseteq ItemJobs
        /\ \A j \in text : ItemOf(j).own /\ ItemOf(j).kind = "comment"
    BY DEF TableInv, OwnTexts
  <2>4. /\ tmpl \in [Templates -> [there : BOOLEAN, active : BOOLEAN, fit : BOOLEAN]]
        /\ \A l \in logged : l.job \in ItemJobs /\ l.template \in Templates \cup {NoText}
        /\ \A p \in posted : p.job \in ItemJobs /\ p.text \in Templates \cup {"own"}
    <3>1. /\ tmpl \in [Templates -> TemplateRows] /\ logged \subseteq LogRows
          /\ \A p \in posted : p.job \in ItemJobs /\ p.text \in Words
      BY DEF ComposingInv, PostedHaveRows, TableInv, StoredRows
    <3> QED BY <3>1 DEF TemplateRows, LogRows, Words
  <2>5. /\ slip.left \in 0 .. MaxSlips /\ slip.tweaks \in 0 .. MaxTweaks
        /\ slip.on \subseteq Batches \cup ItemJobs /\ slip.gone \subseteq ItemJobs
    BY DEF ComposingInv, ComposingTyped, Slips
  <2> QED BY <2>1, <2>2, <2>3, <2>4, <2>5 DEF ComposingTypeOK
<1> QED BY <1>1, FirstForms, FirstTables, ComposingInvStep, TableInvStep, PTL DEF ComposingSpec

-----------------------------------------------------------------------------
(***************************************************************************)
(* Team.                                                                   *)
(***************************************************************************)

SessionRows == [user : Users \cup {NoUser}, role : Roles \cup {"none"}, live : BOOLEAN]

CallStages == {"idle", "mint", "rotate", "count", "write", "revoke", "audit", "over"}

TeamRequests == [op : Audited \cup {"none", "login", "refresh", "logout"},
                 by : Users \cup {NoUser}, user : Users \cup {NoUser},
                 role : Roles \cup {"same"}, had : Roles \cup {"none", "gone"},
                 id : Sessions \cup {0}, at : CallStages, done : BOOLEAN]

Troubles == [left : 0 .. MaxStumbles, lost : SUBSET TeamCalls]

\* What the stage of a request says about its other fields.
RequestShape(r) ==
    /\ r.at \in {"count", "write"} =>
          r.user \in Users /\ r.had \in Roles /\ r.op \in {"update", "remove"}
    /\ r.at \in {"mint", "rotate"} =>
          r.user \in Users /\ r.had \in Roles /\ r.op \in {"login", "refresh"}
    /\ r.at = "revoke" => r.op = "update"
    /\ r.at = "audit" => r.op \in Audited
    /\ r.at = "idle" => r.op = "none"
    /\ r.op \in Audited => r.by \in Users

TeamTyped ==
    /\ member \in [Users -> Roles \cup {"none", "gone"}]
    /\ session \in [Sessions -> SessionRows]
    /\ call \in [TeamCalls -> TeamRequests]
    /\ \A c \in TeamCalls : RequestShape(call[c])
    /\ trail \in [TeamCalls -> {"none", "ok", "error"}]
    /\ trouble \in Troubles
    /\ crossed \in BOOLEAN

\* A live session's user exists; whoever has or had a session, or asked for
\* something to be audited, has been a user.
SessionsKnown ==
    \A s \in Sessions :
        /\ session[s].live => session[s].user # NoUser
        /\ session[s].role # "none" => session[s].user # NoUser
        /\ session[s].user # NoUser =>
              /\ member[session[s].user] # "none"
              /\ session[s].live => Exist(session[s].user)

ActorsKnown ==
    \A c \in TeamCalls : call[c].op \in Audited => member[call[c].by] # "none"

\* A request has no row in the trail before it is over.
TrailLate == \A c \in TeamCalls : call[c].at # "over" => trail[c] = "none"

\* The write unmakes an owner.
Unmakes(r) == r.had = "OWNER" /\ (r.op = "remove" \/ r.role \notin {"same", "OWNER"})

\* Unless two requests have crossed, there is an owner, at most one request
\* decides, what it read still holds, and its write leaves another owner.
OneDecides ==
    crossed \/ /\ Owners # {}
               /\ \A c, d \in TeamCalls : Deciding(c) /\ Deciding(d) => c = d
               /\ \A c \in TeamCalls :
                    /\ Deciding(c) => member[call[c].user] = call[c].had
                    /\ call[c].at = "write" /\ Unmakes(call[c]) => Owners \ {call[c].user} # {}

TeamInv == TeamTyped /\ SessionsKnown /\ ActorsKnown /\ TrailLate /\ TrailIsTrue /\ OneDecides

-----------------------------------------------------------------------------
(***************************************************************************)
(* Requests.                                                               *)
(***************************************************************************)
LEMMA NoCallShape == NoCall \in TeamRequests /\ RequestShape(NoCall)
BY DEF NoCall, TeamRequests, RequestShape, CallStages, Audited, Roles

\* A request moves on, and the others stay where they are.
LEMMA RequestMoves ==
    ASSUME TeamTyped, NEW c \in TeamCalls, NEW r \in TeamRequests, RequestShape(r), call' = [call EXCEPT ![c] = r]
    PROVE  /\ call' \in [TeamCalls -> TeamRequests]
           /\ \A d \in TeamCalls : RequestShape(call'[d])
           /\ call'[c] = r
           /\ \A d \in TeamCalls \ {c} : call'[d] = call[d]
<1>1. /\ call' \in [TeamCalls -> TeamRequests]
      /\ call'[c] = r
      /\ \A d \in TeamCalls \ {c} : call'[d] = call[d]
  BY DEF TeamTyped
<1>2. \A d \in TeamCalls : RequestShape(call[d])
  BY DEF TeamTyped
<1> QED BY <1>1, <1>2

\* The handler returns: audited requests have their row still to come.
LEMMA Returns ==
    ASSUME TeamTyped, NEW c \in TeamCalls, NEW done \in BOOLEAN, Return(c, done)
    PROVE  \E r \in TeamRequests :
              /\ RequestShape(r) /\ call' = [call EXCEPT ![c] = r]
              /\ r.at = IF r.op \in Audited THEN "audit" ELSE "over"
              /\ r.op = call[c].op /\ r.by = call[c].by /\ r.done = done
<1> DEFINE at == IF call[c].op \in Audited THEN "audit" ELSE "over"
           r == [call[c] EXCEPT !.done = done, !.at = at]
<1>1. call[c] \in TeamRequests /\ RequestShape(call[c])
  BY DEF TeamTyped
<1>2. r \in TeamRequests
  <2>1. at \in CallStages
    BY DEF CallStages
  <2> QED BY <1>1, <2>1 DEF TeamRequests
<1>3. /\ r.op = call[c].op /\ r.by = call[c].by /\ r.done = done /\ r.at = at
  BY <1>1 DEF TeamRequests
<1>4. RequestShape(r)
  BY <1>1, <1>3 DEF RequestShape
<1>5. call' = [call EXCEPT ![c] = r]
  BY DEF Return
<1>6. r.at = IF r.op \in Audited THEN "audit" ELSE "over"
  BY <1>3
<1> HIDE DEF r
<1> QED BY <1>2, <1>3, <1>4, <1>5, <1>6

\* A failure is taken from those left.
LEMMA Stumbles ==
    ASSUME trouble \in Troubles, NEW who \in SUBSET TeamCalls, Stumble(who)
    PROVE  trouble' \in Troubles /\ trouble'.lost = trouble.lost \cup who
BY TeamConstants DEF Stumble, Troubles

-----------------------------------------------------------------------------
(***************************************************************************)
(* What a step leaves in place.                                            *)
(***************************************************************************)

\* Whoever has been a user stays one or is gone, and for good.
MembersAge ==
    \A u \in Users : /\ member[u] # "none" => member'[u] # "none"
                     /\ member[u] = "gone" => member'[u] = "gone"

\* A request c that is not over moves to r.
LEMMA OnwardAges ==
    ASSUME TeamInv, NEW c \in TeamCalls, NEW r \in TeamRequests, RequestShape(r), call' = [call EXCEPT ![c] = r],
           call[c].at # "over",
           MembersAge, UNCHANGED trail,
           trouble' \in Troubles, trouble.lost \subseteq trouble'.lost,
           r.op \in Audited => r.at # "over" /\ member[r.by] # "none"
    PROVE  ActorsKnown' /\ TrailLate' /\ TrailIsTrue'
<1>1. /\ call'[c] = r
      /\ \A d \in TeamCalls \ {c} : call'[d] = call[d]
  BY RequestMoves DEF TeamInv
<1>2. trail[c] = "none"
  BY DEF TeamInv, TrailLate
<1>3. \A d \in TeamCalls : call[d].op \in Audited =>
        /\ call[d].by \in Users
        /\ member[call[d].by] \in Roles \cup {"gone"}
  BY DEF TeamInv, ActorsKnown, TeamTyped, RequestShape
<1>4. r.op \in Audited => r.by \in Users
  BY DEF RequestShape
<1>5. ActorsKnown'
  BY <1>1, <1>3, <1>4 DEF TeamInv, ActorsKnown, MembersAge
<1>6. TrailLate'
  BY <1>1, <1>2 DEF TeamInv, TrailLate
<1>7. TrailIsTrue'
  <2> SUFFICES ASSUME NEW d \in TeamCalls
               PROVE  /\ trail'[d] = "ok" => call'[d].done
                      /\ trail'[d] = "error" => ~ call'[d].done
                      /\ call'[d].op \in Audited /\ call'[d].at = "over" /\ call'[d].done =>
                            trail'[d] = "ok" \/ d \in trouble'.lost
                            \/ member'[call'[d].by] \notin Roles
    BY DEF TrailIsTrue, Exist
  <2>1. CASE d = c
    BY <1>1, <1>2, <2>1
  <2>2. CASE d # c
    <3>1. call'[d] = call[d] /\ trail'[d] = trail[d]
      BY <1>1, <2>2
    <3>2. call[d].op \in Audited /\ ~ Exist(call[d].by) => member'[call[d].by] \notin Roles
      BY <1>3, <3>1 DEF MembersAge, Exist, Roles
    <3> QED BY <3>1, <3>2 DEF TeamInv, TrailIsTrue
  <2> QED BY <2>1, <2>2
<1> QED BY <1>5, <1>6, <1>7

\* The same when no user is written.
LEMMA Onward ==
    ASSUME TeamInv, NEW c \in TeamCalls, NEW r \in TeamRequests, RequestShape(r), call' = [call EXCEPT ![c] = r],
           call[c].at # "over",
           UNCHANGED <<member, trail>>,
           trouble' \in Troubles, trouble.lost \subseteq trouble'.lost,
           r.op \in Audited => r.at # "over" /\ member[r.by] # "none"
    PROVE  ActorsKnown' /\ TrailLate' /\ TrailIsTrue'
<1>1. MembersAge
  BY DEF MembersAge
<1> QED BY <1>1, OnwardAges

\* A request that decides nothing, or no longer, is not in the way.
LEMMA NotDeciding ==
    ASSUME TeamInv, NEW c \in TeamCalls, NEW r \in TeamRequests, RequestShape(r), call' = [call EXCEPT ![c] = r],
           r.at \notin {"count", "write"}, UNCHANGED <<member, crossed>>
    PROVE  OneDecides'
<1>1. /\ call'[c] = r
      /\ \A d \in TeamCalls \ {c} : call'[d] = call[d]
  BY RequestMoves DEF TeamInv
<1>2. \A d \in TeamCalls : Deciding(d)' => Deciding(d) /\ d # c
  BY <1>1 DEF Deciding
<1>3. Owners' = Owners
  BY DEF Owners
<1>4. \A d \in TeamCalls : call'[d].at = "write" => call'[d] = call[d]
  BY <1>1
<1> QED BY <1>1, <1>2, <1>3, <1>4 DEF TeamInv, OneDecides, Deciding

\* Sessions that lose their life at most.
LEMMA FewerLive ==
    ASSUME TeamInv, NEW dead \in SUBSET Sessions, UNCHANGED member,
           session' = [s \in Sessions |-> IF s \in dead THEN [session[s] EXCEPT !.live = FALSE]
                                                        ELSE session[s]]
    PROVE  session' \in [Sessions -> SessionRows] /\ SessionsKnown'
<1>1. \A s \in Sessions : /\ session'[s] \in SessionRows
                          /\ session'[s].user = session[s].user
                          /\ session'[s].role = session[s].role
                          /\ session'[s].live => session[s].live
  <2> SUFFICES ASSUME NEW s \in Sessions
               PROVE  /\ session'[s] \in SessionRows
                      /\ session'[s].user = session[s].user
                      /\ session'[s].role = session[s].role
                      /\ session'[s].live => session[s].live
    OBVIOUS
  <2>1. session[s] \in SessionRows
    BY DEF TeamInv, TeamTyped
  <2>2. session'[s] = [session[s] EXCEPT !.live = FALSE] \/ session'[s] = session[s]
    OBVIOUS
  <2> QED BY <2>1, <2>2 DEF SessionRows
<1>2. session' \in [Sessions -> SessionRows]
  BY <1>1
<1>3. SessionsKnown'
  BY <1>1 DEF TeamInv, SessionsKnown, Exist
<1> QED BY <1>2, <1>3

\* A session that begins is of a user there is, and has taken an unused row.
LEMMA NewSession ==
    ASSUME TeamInv, NEW u \in Users, NEW role \in Roles, Exist(u), UNCHANGED member,
           insertAuthSession(u, role)
    PROVE  session' \in [Sessions -> SessionRows] /\ SessionsKnown'
<1> DEFINE new == [user |-> u, role |-> role, live |-> TRUE]
<1>1. PICK s \in Sessions : session' = [session EXCEPT ![s] = new]
  BY DEF insertAuthSession
<1>2. new \in SessionRows /\ new.user = u /\ u # NoUser
  BY TeamConstants DEF SessionRows
<1>3. member[u] # "none"
  BY DEF Exist, Roles
<1>4. /\ session' \in [Sessions -> SessionRows] /\ session'[s] = new
      /\ \A t \in Sessions \ {s} : session'[t] = session[t]
  BY <1>1, <1>2 DEF TeamInv, TeamTyped
<1>5. SessionsKnown'
  BY <1>2, <1>3, <1>4 DEF TeamInv, SessionsKnown, Exist
<1> QED BY <1>4, <1>5

-----------------------------------------------------------------------------
(***************************************************************************)
(* Sessions.                                                               *)
(***************************************************************************)
LEMMA FirstMembers == TeamInit => TeamInv
<1> SUFFICES ASSUME TeamInit PROVE TeamInv
  OBVIOUS
<1>1. PICK n \in 0 .. MaxSessions : \E who \in [1 .. n -> {u \in Users : Exist(u)}] :
        session = [s \in Sessions |->
            IF s > n THEN NoSession ELSE [user |-> who[s], role |-> member[who[s]], live |-> TRUE]]
  BY DEF TeamInit
<1>2. PICK who \in [1 .. n -> {u \in Users : Exist(u)}] :
        session = [s \in Sessions |->
            IF s > n THEN NoSession ELSE [user |-> who[s], role |-> member[who[s]], live |-> TRUE]]
  BY <1>1
<1>3. member \in [Users -> Roles \cup {"none"}] /\ Owners # {}
  BY DEF TeamInit
<1>4. \A s \in Sessions :
        \/ session[s] = NoSession
        \/ \E u \in Users : Exist(u) /\ session[s] = [user |-> u, role |-> member[u], live |-> TRUE]
  <2> SUFFICES ASSUME NEW s \in Sessions, ~(s > n)
               PROVE  \E u \in Users : Exist(u) /\ session[s] = [user |-> u, role |-> member[u],
                                                                 live |-> TRUE]
    BY <1>2
  <2>1. s \in 1 .. n
    BY TeamConstants DEF Sessions
  <2> QED BY <1>2, <2>1
<1>5. \A s \in Sessions : session[s] \in SessionRows
  <2>1. NoSession \in SessionRows
    BY DEF NoSession, SessionRows
  <2>2. \A u \in Users : Exist(u) => [user |-> u, role |-> member[u], live |-> TRUE] \in SessionRows
    BY DEF Exist, SessionRows
  <2> QED BY <1>4, <2>1, <2>2
<1>6. session \in [Sessions -> SessionRows]
  BY <1>2, <1>5
<1>7. TeamTyped
  <2>1. call \in [TeamCalls -> TeamRequests] /\ \A c \in TeamCalls : RequestShape(call[c])
    BY NoCallShape DEF TeamInit
  <2>2. trail \in [TeamCalls -> {"none", "ok", "error"}] /\ crossed \in BOOLEAN
    BY DEF TeamInit
  <2>3. trouble \in Troubles
    BY TeamConstants DEF TeamInit, Troubles
  <2> QED BY <1>3, <1>6, <2>1, <2>2, <2>3 DEF TeamTyped
<1>8. SessionsKnown
  <2> SUFFICES ASSUME NEW s \in Sessions
               PROVE  /\ session[s].live => session[s].user # NoUser
                      /\ session[s].role # "none" => session[s].user # NoUser
                      /\ session[s].user # NoUser =>
                            /\ member[session[s].user] # "none"
                            /\ session[s].live => Exist(session[s].user)
    BY DEF SessionsKnown
  <2>1. CASE session[s] = NoSession
    BY <2>1 DEF NoSession
  <2>2. ASSUME NEW u \in Users, Exist(u), session[s] = [user |-> u, role |-> member[u], live |-> TRUE]
        PROVE  /\ session[s].user = u /\ u # NoUser /\ member[u] # "none"
    BY <2>2, TeamConstants DEF Exist, Roles
  <2> QED BY <1>4, <2>1, <2>2
<1>9. ActorsKnown /\ TrailLate /\ TrailIsTrue
  BY DEF TeamInit, NoCall, ActorsKnown, TrailLate, TrailIsTrue, Audited
<1>10. OneDecides
  BY <1>3 DEF TeamInit, NoCall, OneDecides, Deciding
<1> QED BY <1>7, <1>8, <1>9, <1>10 DEF TeamInv

LEMMA LoginInv ==
    ASSUME TeamInv, NEW c \in TeamCalls, NEW u \in Users, Login(c, u)
    PROVE  TeamInv'
<1> DEFINE r == [NoCall EXCEPT !.op = "login", !.user = u, !.had = member[u], !.id = 0, !.at = "mint"]
<1>1. /\ member[u] \in Roles /\ call[c].at = "idle"
      /\ UNCHANGED <<member, session, trail, trouble, crossed>>
      /\ call' = [call EXCEPT ![c] = r]
  BY DEF Login, Exist, Enter
<1>2. r \in TeamRequests /\ RequestShape(r) /\ r.op \notin Audited /\ r.at = "mint"
  BY <1>1 DEF NoCall, TeamRequests, CallStages, RequestShape, Audited
<1> HIDE DEF r
<1>3. ActorsKnown' /\ TrailLate' /\ TrailIsTrue'
  BY <1>1, <1>2, Onward DEF TeamInv, TeamTyped
<1>4. OneDecides'
  BY <1>1, <1>2, NotDeciding
<1>5. TeamTyped' /\ SessionsKnown'
  BY <1>1, <1>2, RequestMoves DEF TeamInv, TeamTyped, SessionsKnown, Exist
<1> QED BY <1>3, <1>4, <1>5 DEF TeamInv

LEMMA RefreshInv ==
    ASSUME TeamInv, NEW c \in TeamCalls, NEW s \in Sessions, Refresh(c, s)
    PROVE  TeamInv'
<1> DEFINE u == session[s].user
           r == [NoCall EXCEPT !.op = "refresh", !.user = u, !.had = member[u], !.id = s,
                               !.at = "rotate"]
<1>1. /\ call[c].at = "idle" /\ session[s].live
      /\ UNCHANGED <<member, session, trail, trouble, crossed>>
      /\ call' = [call EXCEPT ![c] = r]
  BY DEF Refresh, Active, Enter
<1>2. u \in Users /\ member[u] \in Roles
  BY <1>1 DEF TeamInv, TeamTyped, SessionsKnown, Exist, SessionRows
<1>3. r \in TeamRequests /\ RequestShape(r) /\ r.op \notin Audited /\ r.at = "rotate"
  BY <1>2 DEF NoCall, TeamRequests, CallStages, RequestShape, Audited
<1> HIDE DEF r, u
<1>4. ActorsKnown' /\ TrailLate' /\ TrailIsTrue'
  BY <1>1, <1>3, Onward DEF TeamInv, TeamTyped
<1>5. OneDecides'
  BY <1>1, <1>3, NotDeciding
<1>6. TeamTyped' /\ SessionsKnown'
  BY <1>1, <1>3, RequestMoves DEF TeamInv, TeamTyped, SessionsKnown, Exist
<1> QED BY <1>4, <1>5, <1>6 DEF TeamInv

\* One session at most is revoked.
LEMMA Revokes ==
    ASSUME TeamInv, UNCHANGED member, NEW s \in Sessions \cup {0}, Revoke(s)
    PROVE  session' \in [Sessions -> SessionRows] /\ SessionsKnown'
<1>1. session' = [t \in Sessions |-> IF t \in {s} \cap Sessions
                                     THEN [session[t] EXCEPT !.live = FALSE] ELSE session[t]]
  BY DEF Revoke, TeamInv, TeamTyped
<1> QED BY <1>1, FewerLive

\* The stages of a login or refresh, which no audit sees.
LEMMA RotateInv ==
    ASSUME TeamInv, NEW c \in TeamCalls, Rotate(c)
    PROVE  TeamInv'
<1>1. /\ call[c] \in TeamRequests /\ RequestShape(call[c]) /\ call[c].at = "rotate"
      /\ UNCHANGED <<member, trail, crossed>>
      /\ call[c].op \notin Audited
  BY DEF Rotate, TeamInv, TeamTyped, RequestShape, Audited
<1>2. PICK r \in TeamRequests : /\ RequestShape(r) /\ call' = [call EXCEPT ![c] = r]
                                /\ r.op \notin Audited /\ r.at \notin {"count", "write"}
  <2>1. CASE GoTo(c, "mint")
    <3> DEFINE r == [call[c] EXCEPT !.at = "mint"]
    <3>1. r \in TeamRequests /\ RequestShape(r) /\ r.op \notin Audited /\ r.at = "mint"
      BY <1>1 DEF TeamRequests, RequestShape, CallStages
    <3>2. call' = [call EXCEPT ![c] = r]
      BY <2>1 DEF GoTo
    <3> QED BY <3>1, <3>2
  <2>2. CASE Return(c, FALSE)
    BY <1>1, <2>2, Returns DEF TeamInv
  <2> QED BY <2>1, <2>2 DEF Rotate
<1>3. trouble' \in Troubles /\ trouble.lost \subseteq trouble'.lost
  BY Stumbles DEF Rotate, Steady, TeamInv, TeamTyped
<1>4. session' \in [Sessions -> SessionRows] /\ SessionsKnown'
  <2>1. CASE Revoke(call[c].id)
    BY <1>1, <2>1, Revokes DEF TeamRequests
  <2>2. CASE UNCHANGED session
    BY <1>1, <2>2 DEF TeamInv, TeamTyped, SessionsKnown, Exist
  <2> QED BY <2>1, <2>2 DEF Rotate
<1>5. ActorsKnown' /\ TrailLate' /\ TrailIsTrue'
  BY <1>1, <1>2, <1>3, Onward
<1>6. OneDecides'
  BY <1>1, <1>2, NotDeciding
<1>7. TeamTyped'
  BY <1>1, <1>2, <1>3, <1>4, RequestMoves DEF TeamInv, TeamTyped
<1> QED BY <1>4, <1>5, <1>6, <1>7 DEF TeamInv

LEMMA CreateSessionInv ==
    ASSUME TeamInv, NEW c \in TeamCalls, CreateSession(c)
    PROVE  TeamInv'
<1>1. /\ call[c] \in TeamRequests /\ call[c].at = "mint"
      /\ call[c].user \in Users /\ call[c].had \in Roles /\ call[c].op \notin Audited
      /\ UNCHANGED <<member, trail, crossed>>
  BY DEF CreateSession, TeamInv, TeamTyped, RequestShape, Audited
<1>2. Return(c, TRUE) \/ Return(c, FALSE)
  BY DEF CreateSession
<1>3. PICK r \in TeamRequests : /\ RequestShape(r) /\ call' = [call EXCEPT ![c] = r]
                                /\ r.op \notin Audited /\ r.at = "over"
  BY <1>1, <1>2, Returns DEF TeamInv
<1>4. trouble' \in Troubles /\ trouble.lost \subseteq trouble'.lost
  BY Stumbles DEF CreateSession, Steady, TeamInv, TeamTyped
<1>5. session' \in [Sessions -> SessionRows] /\ SessionsKnown'
  <2>1. CASE Exist(call[c].user) /\ insertAuthSession(call[c].user, call[c].had)
    BY <1>1, <2>1, NewSession
  <2>2. CASE UNCHANGED session
    BY <1>1, <2>2 DEF TeamInv, TeamTyped, SessionsKnown, Exist
  <2> QED BY <2>1, <2>2 DEF CreateSession
<1>6. ActorsKnown' /\ TrailLate' /\ TrailIsTrue'
  BY <1>1, <1>3, <1>4, Onward
<1>7. OneDecides'
  BY <1>1, <1>3, NotDeciding
<1>8. TeamTyped'
  BY <1>1, <1>3, <1>4, <1>5, RequestMoves DEF TeamInv, TeamTyped
<1> QED BY <1>5, <1>6, <1>7, <1>8 DEF TeamInv

LEMMA LogoutInv ==
    ASSUME TeamInv, NEW c \in TeamCalls, NEW s \in Sessions, Logout(c, s)
    PROVE  TeamInv'
<1> DEFINE r == [NoCall EXCEPT !.op = "logout", !.user = session[s].user, !.had = "none", !.id = s,
                               !.at = "over"]
<1>1. /\ call[c].at = "idle" /\ Revoke(s)
      /\ UNCHANGED <<member, trail, trouble, crossed>>
      /\ call' = [call EXCEPT ![c] = r]
      /\ session[s] \in SessionRows
  BY DEF Logout, Enter, TeamInv, TeamTyped
<1>2. r \in TeamRequests /\ RequestShape(r) /\ r.op \notin Audited /\ r.at = "over"
  BY <1>1 DEF NoCall, TeamRequests, SessionRows, CallStages, RequestShape, Audited
<1> HIDE DEF r
<1>3. ActorsKnown' /\ TrailLate' /\ TrailIsTrue'
  BY <1>1, <1>2, Onward DEF TeamInv, TeamTyped
<1>4. OneDecides'
  BY <1>1, <1>2, NotDeciding
<1>5. session' \in [Sessions -> SessionRows] /\ SessionsKnown'
  BY <1>1, Revokes
<1>6. TeamTyped'
  BY <1>1, <1>2, <1>5, RequestMoves DEF TeamInv, TeamTyped
<1> QED BY <1>3, <1>4, <1>5, <1>6 DEF TeamInv

-----------------------------------------------------------------------------
(***************************************************************************)
(* The users.                                                              *)
(***************************************************************************)

\* The claims of an owner's token name somebody who has been a user.
LEMMA Administrator ==
    ASSUME TeamInv, NEW by \in Sessions, MayAdminister(by)
    PROVE  Claims(by).user \in Users /\ member[Claims(by).user] # "none"
<1>1. session[by] \in SessionRows /\ session[by].role = "OWNER"
  BY DEF TeamInv, TeamTyped, MayAdminister, Claims
<1> QED BY <1>1 DEF TeamInv, SessionsKnown, SessionRows, Claims

LEMMA CreateUserInv ==
    ASSUME TeamInv, NEW c \in TeamCalls, NEW by \in Sessions, NEW u \in Users, NEW role \in Roles,
           CreateUser(c, by, u, role)
    PROVE  TeamInv'
<1> DEFINE r == [NoCall EXCEPT !.op = "create", !.by = Claims(by).user, !.user = u, !.at = "audit",
                               !.done = member[u] = "none"]
<1>1. /\ call[c].at = "idle" /\ member[u] # "gone"
      /\ call' = [call EXCEPT ![c] = r]
      /\ UNCHANGED <<session, trail, trouble, crossed>>
  BY DEF CreateUser
<1>2. Claims(by).user \in Users /\ member[Claims(by).user] # "none"
  BY Administrator DEF CreateUser
<1>3. /\ r \in TeamRequests /\ RequestShape(r) /\ r.at = "audit" /\ member[r.by] # "none"
  BY <1>2 DEF NoCall, TeamRequests, CallStages, RequestShape, Audited
<1> HIDE DEF r
<1>4. CASE member[u] # "none"
  <2>1. UNCHANGED member
    BY <1>4 DEF CreateUser
  <2>2. ActorsKnown' /\ TrailLate' /\ TrailIsTrue'
    BY <1>1, <1>3, <2>1, Onward DEF TeamInv, TeamTyped
  <2>3. OneDecides'
    BY <1>1, <1>3, <2>1, NotDeciding
  <2>4. TeamTyped' /\ SessionsKnown'
    BY <1>1, <1>3, <2>1, RequestMoves DEF TeamInv, TeamTyped, SessionsKnown, Exist
  <2> QED BY <2>2, <2>3, <2>4 DEF TeamInv
<1>5. CASE member[u] = "none"
  <2>1. member' = [member EXCEPT ![u] = role]
    BY <1>5 DEF CreateUser, insertUser
  <2>2. /\ member' \in [Users -> Roles \cup {"none", "gone"}]
        /\ member'[u] = role /\ \A v \in Users \ {u} : member'[v] = member[v]
    BY <2>1 DEF TeamInv, TeamTyped
  <2>3. MembersAge
    BY <1>5, <2>2 DEF MembersAge, Roles
  <2>4. ActorsKnown' /\ TrailLate' /\ TrailIsTrue'
    BY <1>1, <1>3, <2>3, OnwardAges DEF TeamInv, TeamTyped
  <2>5. TeamTyped'
    BY <1>1, <1>3, <2>2, RequestMoves DEF TeamInv, TeamTyped
  <2>6. SessionsKnown'
    <3>1. \A s \in Sessions : session[s].user \in Users \cup {NoUser}
      BY DEF TeamInv, TeamTyped, SessionRows
    <3> QED BY <1>1, <1>5, <2>2, <3>1 DEF TeamInv, SessionsKnown, Exist
  <2>7. OneDecides'
    <3>1. /\ call'[c] = r /\ \A d \in TeamCalls \ {c} : call'[d] = call[d]
      BY <1>1, <1>3, RequestMoves DEF TeamInv
    <3>2. \A d \in TeamCalls : Deciding(d)' => Deciding(d) /\ call'[d] = call[d]
      BY <1>3, <3>1 DEF Deciding
    <3>3. Owners \subseteq Owners'
      BY <1>5, <2>2 DEF Owners
    <3>4. \A d \in TeamCalls : Deciding(d) => /\ call[d].user \in Users /\ call[d].had \in Roles
      BY DEF TeamInv, TeamTyped, RequestShape, Deciding
    <3>5. \A d \in TeamCalls : Deciding(d) /\ member[call[d].user] = call[d].had =>
                                  member'[call[d].user] = call[d].had
      BY <1>5, <2>2, <3>4 DEF Roles
    <3>6. \A d \in TeamCalls : call'[d].at = "write" => Deciding(d)'
      BY DEF Deciding
    <3> QED BY <1>1, <3>2, <3>3, <3>5, <3>6 DEF TeamInv, OneDecides
  <2> QED BY <2>4, <2>5, <2>6, <2>7 DEF TeamInv
<1> QED BY <1>4, <1>5

\* A request that begins to decide has read what there is; if another is
\* deciding, they have crossed.
LEMMA Begins ==
    ASSUME TeamInv, NEW c \in TeamCalls, NEW r \in TeamRequests, RequestShape(r), call' = [call EXCEPT ![c] = r],
           Begin(c), UNCHANGED member,
           r.at \in {"count", "write"} => member[r.user] = r.had,
           r.at = "write" => ~ Unmakes(r)
    PROVE  OneDecides'
<1>1. /\ call'[c] = r
      /\ \A d \in TeamCalls \ {c} : call'[d] = call[d]
  BY RequestMoves DEF TeamInv
<1> SUFFICES ASSUME ~ crossed'
             PROVE  /\ Owners' # {}
                    /\ \A d, e \in TeamCalls : Deciding(d)' /\ Deciding(e)' => d = e
                    /\ \A d \in TeamCalls :
                        /\ Deciding(d)' => member[call'[d].user] = call'[d].had
                        /\ call'[d].at = "write" /\ Unmakes(call'[d]) => (Owners \ {call[d].user} # {})'
  BY DEF OneDecides
<1>2. ~ crossed /\ \A d \in TeamCalls \ {c} : ~ Deciding(d)
  BY DEF Begin
<1>3. \A d \in TeamCalls : Deciding(d)' => d = c /\ r.at \in {"count", "write"}
  BY <1>1, <1>2 DEF Deciding
<1>4. Owners' # {}
  BY <1>2 DEF TeamInv, OneDecides, Owners
<1>5. \A d \in TeamCalls : call'[d].at = "write" => Deciding(d)'
  BY DEF Deciding
<1> QED BY <1>1, <1>3, <1>4, <1>5

LEMMA ReadsInv ==
    ASSUME TeamInv, NEW c \in TeamCalls, NEW by \in Sessions, NEW u \in Users,
           \/ \E role \in Roles \cup {"same"} : ReadForUpdate(c, by, u, role)
           \/ ReadForRemove(c, by, u)
    PROVE  TeamInv'
<1>1. PICK op \in {"update", "remove"}, role \in Roles \cup {"same"},
           at \in {"audit", "count", "write"} :
        /\ TeamAsk(c, by, op, u, role, at)
        /\ at # "audit" => Exist(u)
        /\ at = "write" /\ member[u] = "OWNER" => op = "update" /\ role \in {"same", "OWNER"}
  BY DEF ReadForUpdate, ReadForRemove
<1>2. /\ call[c].at = "idle" /\ Begin(c) /\ MayAdminister(by)
      /\ UNCHANGED <<member, session, trail, trouble>>
  BY DEF ReadForUpdate, ReadForRemove
<1>3. Claims(by).user \in Users /\ member[Claims(by).user] # "none"
  BY <1>2, Administrator
<1>4. member[u] \in Roles \cup {"none", "gone"} /\ (Exist(u) => member[u] \in Roles)
  BY DEF TeamInv, TeamTyped, Exist
<1> DEFINE r == [op |-> op, by |-> Claims(by).user, user |-> u, role |-> role, had |-> member[u],
                 id |-> 0, at |-> at, done |-> FALSE]
<1>5. /\ r \in TeamRequests /\ RequestShape(r) /\ r.at = at /\ member[r.by] # "none"
      /\ r.at # "over" /\ member[r.user] = r.had
      /\ at = "write" => ~ Unmakes(r)
  BY <1>1, <1>3, <1>4 DEF TeamRequests, CallStages, RequestShape, Audited, Unmakes
<1>6. call' = [call EXCEPT ![c] = r]
  BY <1>1 DEF TeamAsk
<1> HIDE DEF r
<1>7. ActorsKnown' /\ TrailLate' /\ TrailIsTrue'
  BY <1>2, <1>5, <1>6, Onward DEF TeamInv, TeamTyped
<1>8. OneDecides'
  BY <1>2, <1>5, <1>6, Begins
<1>9. crossed' \in BOOLEAN
  BY <1>2 DEF Begin
<1>10. TeamTyped' /\ SessionsKnown'
  BY <1>2, <1>5, <1>6, <1>9, RequestMoves DEF TeamInv, TeamTyped, SessionsKnown, Exist
<1> QED BY <1>7, <1>8, <1>10 DEF TeamInv

\* The check counts the owners but for the user; a request that goes on to
\* its write leaves one of them.
LEMMA CheckLastOwnerInv ==
    ASSUME TeamInv, NEW c \in TeamCalls, CheckLastOwner(c)
    PROVE  TeamInv'
<1>1. /\ call[c] \in TeamRequests /\ RequestShape(call[c]) /\ call[c].at = "count" /\ Deciding(c)
      /\ UNCHANGED <<member, session, trail, crossed>>
  BY DEF CheckLastOwner, TeamInv, TeamTyped, Deciding
<1>2. call[c].op \in Audited /\ member[call[c].by] # "none"
  BY <1>1 DEF TeamInv, ActorsKnown, RequestShape, Audited
<1>3. trouble' \in Troubles /\ trouble.lost \subseteq trouble'.lost
  BY Stumbles DEF CheckLastOwner, Steady, TeamInv, TeamTyped
<1>4. CASE CountOwnersExcept(call[c].user) # 0 /\ GoTo(c, "write")
  <2> DEFINE r == [call[c] EXCEPT !.at = "write"]
  <2>1. /\ r \in TeamRequests /\ RequestShape(r) /\ r.at = "write" /\ r.op = call[c].op /\ r.by = call[c].by
        /\ r.user = call[c].user /\ r.had = call[c].had
    BY <1>1 DEF TeamRequests, RequestShape, CallStages
  <2>2. call' = [call EXCEPT ![c] = r]
    BY <1>4 DEF GoTo
  <2>3. Owners \ {call[c].user} # {}
    BY <1>4, FS_EmptySet DEF CountOwnersExcept
  <2> HIDE DEF r
  <2>4. /\ call'[c] = r /\ \A d \in TeamCalls \ {c} : call'[d] = call[d]
    BY <2>1, <2>2, RequestMoves DEF TeamInv
  <2>5. ActorsKnown' /\ TrailLate' /\ TrailIsTrue'
    BY <1>1, <1>2, <1>3, <2>1, <2>2, Onward
  <2>6. OneDecides'
    <3>1. \A d \in TeamCalls : Deciding(d)' <=> Deciding(d)
      BY <1>1, <2>1, <2>4 DEF Deciding
    <3>2. Owners' = Owners
      BY <1>1 DEF Owners
    <3> QED BY <1>1, <2>1, <2>3, <2>4, <3>1, <3>2 DEF TeamInv, OneDecides
  <2>7. TeamTyped' /\ SessionsKnown'
    BY <1>1, <1>3, <2>1, <2>2, RequestMoves DEF TeamInv, TeamTyped, SessionsKnown, Exist
  <2> QED BY <2>5, <2>6, <2>7 DEF TeamInv
<1>5. CASE Return(c, FALSE)
  <2>1. PICK r \in TeamRequests : /\ RequestShape(r) /\ call' = [call EXCEPT ![c] = r]
                                  /\ r.at = "audit" /\ r.by = call[c].by
    BY <1>2, <1>5, Returns DEF TeamInv
  <2>2. ActorsKnown' /\ TrailLate' /\ TrailIsTrue'
    BY <1>1, <1>2, <1>3, <2>1, Onward
  <2>3. OneDecides'
    BY <1>1, <2>1, NotDeciding
  <2>4. TeamTyped' /\ SessionsKnown'
    BY <1>1, <1>3, <2>1, RequestMoves DEF TeamInv, TeamTyped, SessionsKnown, Exist
  <2> QED BY <2>2, <2>3, <2>4 DEF TeamInv
<1> QED BY <1>4, <1>5 DEF CheckLastOwner

\* The write of a request that decided: with nobody in its way, the team is
\* as it read it, and keeps an owner.
LEMMA Writes ==
    ASSUME TeamInv, NEW c \in TeamCalls, call[c].at = "write",
           NEW x \in Roles \cup {"gone"}, Exist(call[c].user) \/ x = "gone",
           member' = [member EXCEPT ![call[c].user] = x],
           x # "OWNER" /\ call[c].had = "OWNER" => Unmakes(call[c]),
           NEW r \in TeamRequests, RequestShape(r), call' = [call EXCEPT ![c] = r],
           r.at \notin {"count", "write"}, UNCHANGED crossed
    PROVE  /\ member' \in [Users -> Roles \cup {"none", "gone"}]
           /\ MembersAge
           /\ OneDecides'
<1> DEFINE u == call[c].user
<1>1. /\ u \in Users /\ call[c].had \in Roles /\ Deciding(c)
      /\ member \in [Users -> Roles \cup {"none", "gone"}]
  BY DEF TeamInv, TeamTyped, RequestShape, Deciding
<1>2. /\ member' \in [Users -> Roles \cup {"none", "gone"}]
      /\ member'[u] = x /\ \A v \in Users \ {u} : member'[v] = member[v]
  BY <1>1
<1>3. MembersAge
  BY <1>1, <1>2 DEF MembersAge, Exist, Roles
<1>4. /\ call'[c] = r /\ \A d \in TeamCalls \ {c} : call'[d] = call[d]
  BY RequestMoves DEF TeamInv
<1>5. ASSUME ~ crossed PROVE OneDecides'
  <2>1. /\ Owners # {} /\ \A d \in TeamCalls : ~ Deciding(d)'
    BY <1>1, <1>4, <1>5 DEF TeamInv, OneDecides, Deciding
  <2>2. Owners' # {}
    <3>1. CASE x = "OWNER"
      BY <1>1, <1>2, <3>1 DEF Owners
    <3>2. CASE x # "OWNER" /\ call[c].had = "OWNER"
      <4>1. Owners \ {u} # {}
        BY <1>5, <3>2 DEF TeamInv, OneDecides
      <4> QED BY <1>2, <4>1 DEF Owners
    <3>3. CASE x # "OWNER" /\ call[c].had # "OWNER"
      <4>1. member[u] # "OWNER"
        BY <1>1, <1>5, <3>3 DEF TeamInv, OneDecides
      <4> QED BY <1>2, <2>1, <4>1 DEF Owners
    <3> QED BY <3>1, <3>2, <3>3
  <2>3. \A d \in TeamCalls : call'[d].at # "write"
    BY <2>1 DEF Deciding
  <2> QED BY <2>1, <2>2, <2>3 DEF OneDecides
<1>6. crossed => OneDecides'
  BY DEF OneDecides
<1> QED BY <1>2, <1>3, <1>5, <1>6

LEMMA UpdateUserInv ==
    ASSUME TeamInv, NEW c \in TeamCalls, UpdateUser(c)
    PROVE  TeamInv'
<1>1. /\ call[c] \in TeamRequests /\ RequestShape(call[c]) /\ call[c].at = "write" /\ call[c].op = "update"
      /\ call[c].user \in Users /\ call[c].had \in Roles
      /\ UNCHANGED <<session, trail, crossed>>
  BY DEF UpdateUser, TeamInv, TeamTyped, RequestShape
<1>2. call[c].op \in Audited /\ member[call[c].by] # "none"
  BY <1>1 DEF TeamInv, ActorsKnown, Audited
<1>3. trouble' \in Troubles /\ trouble.lost \subseteq trouble'.lost
  BY Stumbles DEF UpdateUser, Steady, TeamInv, TeamTyped
<1> DEFINE done == [call[c] EXCEPT !.at = "revoke", !.done = TRUE]
<1>4. PICK r \in TeamRequests : /\ RequestShape(r) /\ call' = [call EXCEPT ![c] = r]
                                /\ r.at \in {"audit", "revoke"} /\ r.by = call[c].by
  <2>1. CASE Return(c, TRUE) \/ Return(c, FALSE)
    BY <1>2, <2>1, Returns DEF TeamInv
  <2>2. CASE call' = [call EXCEPT ![c].at = "revoke", ![c].done = TRUE]
    <3>1. done \in TeamRequests /\ RequestShape(done) /\ done.at = "revoke" /\ done.by = call[c].by
      BY <1>1 DEF TeamRequests, RequestShape, CallStages
    <3>2. call' = [call EXCEPT ![c] = done]
      BY <2>2
    <3> QED BY <3>1, <3>2
  <2> QED BY <2>1, <2>2 DEF UpdateUser
<1> HIDE DEF done
<1>5. CASE UNCHANGED member
  <2>1. ActorsKnown' /\ TrailLate' /\ TrailIsTrue'
    BY <1>1, <1>2, <1>3, <1>4, <1>5, Onward
  <2>2. OneDecides'
    BY <1>1, <1>4, <1>5, NotDeciding
  <2>3. TeamTyped' /\ SessionsKnown'
    BY <1>1, <1>3, <1>4, <1>5, RequestMoves DEF TeamInv, TeamTyped, SessionsKnown, Exist
  <2> QED BY <2>1, <2>2, <2>3 DEF TeamInv
<1>6. CASE /\ Exist(call[c].user)
           /\ updateUser(call[c].user, IF call[c].role = "same" THEN call[c].had ELSE call[c].role)
  <2> DEFINE x == IF call[c].role = "same" THEN call[c].had ELSE call[c].role
  <2>1. x \in Roles
    BY <1>1 DEF TeamRequests
  <2>2. x # "OWNER" /\ call[c].had = "OWNER" => Unmakes(call[c])
    BY <1>1 DEF Unmakes
  <2>3. member' = [member EXCEPT ![call[c].user] = x]
    BY <1>6 DEF updateUser
  <2> HIDE DEF x
  <2>4. member' \in [Users -> Roles \cup {"none", "gone"}] /\ MembersAge /\ OneDecides'
    BY <1>1, <1>4, <1>6, <2>1, <2>2, <2>3, Writes
  <2>5. ActorsKnown' /\ TrailLate' /\ TrailIsTrue'
    BY <1>1, <1>2, <1>3, <1>4, <2>4, OnwardAges
  <2>6. TeamTyped'
    BY <1>1, <1>3, <1>4, <2>4, RequestMoves DEF TeamInv, TeamTyped
  <2>7. SessionsKnown'
    <3>1. \A s \in Sessions : session[s].user \in Users \cup {NoUser}
      BY DEF TeamInv, TeamTyped, SessionRows
    <3>2. \A v \in Users : Exist(v) => Exist(v)'
      BY <1>1, <2>1, <2>3 DEF TeamInv, TeamTyped, Exist
    <3> QED BY <1>1, <2>4, <3>1, <3>2 DEF TeamInv, SessionsKnown, MembersAge
  <2> QED BY <2>4, <2>5, <2>6, <2>7 DEF TeamInv
<1> QED BY <1>5, <1>6 DEF UpdateUser

LEMMA EndSessionsInv ==
    ASSUME TeamInv, NEW c \in TeamCalls, EndSessions(c)
    PROVE  TeamInv'
<1>1. /\ call[c] \in TeamRequests /\ RequestShape(call[c]) /\ call[c].at = "revoke" /\ Return(c, TRUE)
      /\ UNCHANGED <<member, trail, trouble, crossed>>
  BY DEF EndSessions, TeamInv, TeamTyped
<1>2. call[c].op \in Audited /\ member[call[c].by] # "none"
  BY <1>1 DEF TeamInv, ActorsKnown, RequestShape, Audited
<1>3. PICK r \in TeamRequests : /\ RequestShape(r) /\ call' = [call EXCEPT ![c] = r]
                                /\ r.at = "audit" /\ r.by = call[c].by
  BY <1>1, <1>2, Returns DEF TeamInv
<1>4. ActorsKnown' /\ TrailLate' /\ TrailIsTrue'
  BY <1>1, <1>2, <1>3, Onward DEF TeamInv, TeamTyped
<1>5. OneDecides'
  BY <1>1, <1>3, NotDeciding
<1>6. session' \in [Sessions -> SessionRows] /\ SessionsKnown'
  <2> DEFINE dead == {s \in Sessions : session[s].user = call[c].user}
  <2>1. CASE UNCHANGED session
    BY <1>1, <2>1 DEF TeamInv, TeamTyped, SessionsKnown, Exist
  <2>2. CASE session' = [s \in Sessions |-> IF session[s].user = call[c].user
                                            THEN [session[s] EXCEPT !.live = FALSE] ELSE session[s]]
    <3>1. session' = [s \in Sessions |-> IF s \in dead THEN [session[s] EXCEPT !.live = FALSE]
                                                       ELSE session[s]]
      BY <2>2
    <3> HIDE DEF dead
    <3>2. dead \in SUBSET Sessions
      BY DEF dead
    <3> QED BY <1>1, <3>1, <3>2, FewerLive
  <2> QED BY <2>1, <2>2 DEF EndSessions, RevokeAll
<1>7. TeamTyped'
  BY <1>1, <1>3, <1>6, RequestMoves DEF TeamInv, TeamTyped
<1> QED BY <1>4, <1>5, <1>6, <1>7 DEF TeamInv

LEMMA DeleteUserInv ==
    ASSUME TeamInv, NEW c \in TeamCalls, DeleteUser(c)
    PROVE  TeamInv'
<1>1. /\ call[c] \in TeamRequests /\ RequestShape(call[c]) /\ call[c].at = "write" /\ call[c].op = "remove"
      /\ call[c].user \in Users /\ call[c].had \in Roles
      /\ UNCHANGED <<trail, crossed>>
      /\ Return(c, TRUE) \/ Return(c, FALSE)
  BY DEF DeleteUser, TeamInv, TeamTyped, RequestShape
<1>2. call[c].op \in Audited /\ member[call[c].by] # "none"
  BY <1>1 DEF TeamInv, ActorsKnown, Audited
<1>3. trouble' \in Troubles /\ trouble.lost \subseteq trouble'.lost
  BY Stumbles DEF DeleteUser, Steady, TeamInv, TeamTyped
<1>4. PICK r \in TeamRequests : /\ RequestShape(r) /\ call' = [call EXCEPT ![c] = r]
                                /\ r.at = "audit" /\ r.by = call[c].by
  BY <1>1, <1>2, Returns DEF TeamInv
<1>5. CASE UNCHANGED <<member, session>>
  <2>1. ActorsKnown' /\ TrailLate' /\ TrailIsTrue'
    BY <1>1, <1>2, <1>3, <1>4, <1>5, Onward
  <2>2. OneDecides'
    BY <1>1, <1>4, <1>5, NotDeciding
  <2>3. TeamTyped' /\ SessionsKnown'
    BY <1>1, <1>3, <1>4, <1>5, RequestMoves DEF TeamInv, TeamTyped, SessionsKnown, Exist
  <2> QED BY <2>1, <2>2, <2>3 DEF TeamInv
<1>6. CASE deleteUser(call[c].user)
  <2>1. member' = [member EXCEPT ![call[c].user] = "gone"]
    BY <1>6 DEF deleteUser
  <2>2. "gone" # "OWNER" /\ call[c].had = "OWNER" => Unmakes(call[c])
    BY <1>1 DEF Unmakes
  <2>3. member' \in [Users -> Roles \cup {"none", "gone"}] /\ MembersAge /\ OneDecides'
    BY <1>1, <1>4, <2>1, <2>2, Writes
  <2>4. ActorsKnown' /\ TrailLate' /\ TrailIsTrue'
    BY <1>1, <1>2, <1>3, <1>4, <2>3, OnwardAges
  <2>5. \A s \in Sessions : /\ session'[s] \in SessionRows
                            /\ session'[s].user = session[s].user
                            /\ session'[s].role = session[s].role
                            /\ session'[s].live => session[s].live /\ session[s].user # call[c].user
    <3> SUFFICES ASSUME NEW s \in Sessions
                 PROVE  /\ session'[s] \in SessionRows
                        /\ session'[s].user = session[s].user
                        /\ session'[s].role = session[s].role
                        /\ session'[s].live => session[s].live /\ session[s].user # call[c].user
      OBVIOUS
    <3>1. session[s] \in SessionRows
      BY DEF TeamInv, TeamTyped
    <3>2. session'[s] = IF session[s].user = call[c].user THEN [session[s] EXCEPT !.live = FALSE]
                                                          ELSE session[s]
      BY <1>6 DEF deleteUser
    <3> QED BY <3>1, <3>2 DEF SessionRows
  <2>6. session' \in [Sessions -> SessionRows]
    BY <1>6, <2>5 DEF deleteUser
  <2>7. SessionsKnown'
    <3>1. \A s \in Sessions : session[s].user \in Users \cup {NoUser}
      BY DEF TeamInv, TeamTyped, SessionRows
    <3>2. \A v \in Users \ {call[c].user} : Exist(v) => Exist(v)'
      BY <2>1 DEF TeamInv, TeamTyped, Exist
    <3> QED BY <2>3, <2>5, <3>1, <3>2 DEF TeamInv, SessionsKnown, MembersAge
  <2>8. TeamTyped'
    BY <1>1, <1>3, <1>4, <2>3, <2>6, RequestMoves DEF TeamInv, TeamTyped
  <2> QED BY <2>3, <2>4, <2>7, <2>8 DEF TeamInv
<1> QED BY <1>5, <1>6 DEF DeleteUser

\* The middleware writes what the handler came to, or loses the row.
LEMMA RecordTrailInv ==
    ASSUME TeamInv, NEW c \in TeamCalls, Record(c)
    PROVE  TeamInv'
<1> DEFINE r == [call[c] EXCEPT !.at = "over"]
<1>1. /\ call[c] \in TeamRequests /\ RequestShape(call[c]) /\ call[c].at = "audit"
      /\ UNCHANGED <<member, session, crossed>>
      /\ call' = [call EXCEPT ![c] = r]
      /\ trail[c] = "none" /\ call[c].op \in Audited
  BY DEF Record, GoTo, TeamInv, TeamTyped, TrailLate, RequestShape
<1>2. /\ r \in TeamRequests /\ RequestShape(r) /\ r.at = "over" /\ r.op = call[c].op /\ r.by = call[c].by
      /\ r.done = call[c].done
  BY <1>1 DEF TeamRequests, RequestShape, CallStages
<1> HIDE DEF r
<1>3. /\ call'[c] = r /\ \A d \in TeamCalls \ {c} : call'[d] = call[d]
  BY <1>1, <1>2, RequestMoves DEF TeamInv
<1>4. trouble' \in Troubles /\ trouble.lost \subseteq trouble'.lost
  BY Stumbles DEF Record, Steady, TeamInv, TeamTyped
<1>5. /\ trail' \in [TeamCalls -> {"none", "ok", "error"}]
      /\ \A d \in TeamCalls \ {c} : trail'[d] = trail[d]
      /\ trail'[c] = "ok" => r.done
      /\ trail'[c] = "error" => ~ r.done
      /\ r.done => trail'[c] = "ok" \/ c \in trouble'.lost \/ ~ Exist(r.by)
  <2>1. CASE insertAuditLog(c, Outcome(c))
    <3>1. CASE Exist(call[c].by)
      BY <1>2, <2>1, <3>1 DEF insertAuditLog, Outcome, TeamInv, TeamTyped
    <3>2. CASE ~ Exist(call[c].by)
      BY <1>1, <1>2, <2>1, <3>2 DEF insertAuditLog, TeamInv, TeamTyped
    <3> QED BY <3>1, <3>2
  <2>2. CASE trail' = trail /\ Stumble({c})
    BY <1>1, <1>2, <2>2, Stumbles DEF TeamInv, TeamTyped
  <2> QED BY <2>1, <2>2 DEF Record
<1>6. ActorsKnown'
  BY <1>1, <1>2, <1>3 DEF TeamInv, ActorsKnown
<1>7. TrailLate'
  BY <1>2, <1>3, <1>5 DEF TeamInv, TrailLate
<1>8. TrailIsTrue'
  BY <1>1, <1>2, <1>3, <1>4, <1>5 DEF TeamInv, TrailIsTrue, Exist
<1>9. OneDecides'
  BY <1>1, <1>2, NotDeciding
<1>10. TeamTyped' /\ SessionsKnown'
  BY <1>1, <1>2, <1>4, <1>5, RequestMoves DEF TeamInv, TeamTyped, SessionsKnown, Exist
<1> QED BY <1>6, <1>7, <1>8, <1>9, <1>10 DEF TeamInv

-----------------------------------------------------------------------------
LEMMA TeamInvStep == TeamInv /\ [TeamNext]_teamVars => TeamInv'
<1> SUFFICES ASSUME TeamInv, [TeamNext]_teamVars PROVE TeamInv'
  OBVIOUS
<1>1. ASSUME NEW c \in TeamCalls, Auth(c) PROVE TeamInv'
  BY <1>1, LoginInv, RefreshInv, LogoutInv, RotateInv, CreateSessionInv DEF Auth
<1>2. ASSUME NEW c \in TeamCalls, Administer(c) PROVE TeamInv'
  BY <1>2, CreateUserInv, ReadsInv, CheckLastOwnerInv, UpdateUserInv, EndSessionsInv,
     DeleteUserInv, RecordTrailInv DEF Administer
<1>3. CASE UNCHANGED teamVars
  BY <1>3 DEF teamVars, TeamInv, TeamTyped, SessionsKnown, ActorsKnown, TrailLate, TrailIsTrue,
              OneDecides, Owners, Deciding, Exist
<1> QED BY <1>1, <1>2, <1>3 DEF TeamNext

\* Rows and requests keep their shape; a live session always has a user who
\* exists, whatever is removed or refreshed meanwhile.
THEOREM TeamTypeCorrect == TeamSpec => []TeamTypeOK
<1>1. TeamInv => TeamTypeOK
  <2> SUFFICES ASSUME TeamInv PROVE TeamTypeOK
    OBVIOUS
  <2>1. \A s \in Sessions : session[s].live => session[s].user # NoUser /\ Exist(session[s].user)
    BY DEF TeamInv, SessionsKnown
  <2>2. \A c \in TeamCalls : Deciding(c) => call[c].user # NoUser /\ call[c].had \in Roles
    BY TeamConstants DEF TeamInv, TeamTyped, RequestShape, Deciding
  <2>3. /\ session \in [Sessions -> SessionRows] /\ call \in [TeamCalls -> TeamRequests]
        /\ trouble \in Troubles
    BY DEF TeamInv, TeamTyped
  <2> QED BY <2>1, <2>2, <2>3 DEF TeamInv, TeamTyped, TeamTypeOK, SessionRows, TeamRequests, CallStages, Troubles
<1> QED BY <1>1, FirstMembers, TeamInvStep, PTL DEF TeamSpec

\* As long as no two requests that may unmake an owner cross, the team keeps
\* one, with any number of users and of requests one after the other.
THEOREM TeamKeepsAnOwner == TeamSpec => []OwnersLeft
<1>1. TeamInv => OwnersLeft
  BY DEF TeamInv, OneDecides, OwnersLeft
<1> QED BY <1>1, FirstMembers, TeamInvStep, PTL DEF TeamSpec

\* The audit trail is right about every request it has, and has them all but
\* those the store refused or whose actor is gone.
THEOREM TrailCorrect == TeamSpec => []TrailIsTrue
<1>1. TeamInv => TrailIsTrue
  BY DEF TeamInv
<1> QED BY <1>1, FirstMembers, TeamInvStep, PTL DEF TeamSpec

=============================================================================
