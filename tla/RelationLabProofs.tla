------------------------- MODULE RelationLabProofs -------------------------
(***************************************************************************)
(* The relation laboratory, for any series, request, bodies, grades and    *)
(* number of commands, and for any graphs, queries and rankings.           *)
(*                                                                         *)
(* The review: what a finished evaluation rests on, that valid passes can  *)
(* be reconciled, and that the labels frozen from them can be evaluated.   *)
(* Commands hold their writes back and may be killed between them, so the  *)
(* invariant is about contents: whatever is in a file, or on its way into  *)
(* one, was made by a command whose checks then held.  The files it was    *)
(* made from may have changed or gone since.                               *)
(*                                                                         *)
(* The diagnostics: a selection never fails for a reason of its own, and   *)
(* the caps of the frontier lose neither a bridge nor the best edge.  The  *)
(* argument goes up from components to keys of one shape, which put any    *)
(* candidates of an anchor group in one strict order; from there to the    *)
(* buckets, each of which has at most one bridge to make room for; and to  *)
(* the reservations, which keep that up one bridge after the other.        *)
(*                                                                         *)
(* The reports: what a run says of charges, ties and misses is exact.  The *)
(* scores collapse into one strict order, in which the parents ahead of a  *)
(* score are counted; siblings are emitted one by one, all of them under   *)
(* the largest budget; and the rows of the closures are a ledger, which    *)
(* every further row keeps.  Either part of the laboratory keeps to itself.*)
(***************************************************************************)
EXTENDS RelationLab, DataTheorems, SequenceTheorems, TLAPS

(* A packet was prepared with every body there was to cite.                *)
PreparedOk(prepared) ==
  /\ prepared.dirs \in Series /\ prepared.queries \in DOMAIN Inputs
  /\ ValidateReviewQueries(prepared.queries, prepared.dirs)
  /\ \A r \in References(prepared.dirs, prepared.queries) : r[2] \in DOMAIN Bodies

(* No label is above what one of the two reviewers gave, nor about a group *)
(* that its query does not have.                                           *)
LabelsGraded(base) ==
  \A id \in DOMAIN base.labels :
    /\ base.labels[id].grade <= 2
    /\ base.labels[id].grade = 2 =>
         /\ 2 \in {base.one.grades[id].grade, base.two.grades[id].grade}
         /\ base.labels[id].groups \subseteq ReviewQueryTopologyGroupIDs(base.prepared, id)

FrozenOk(frozen) ==
  /\ \A pass \in {frozen.base.one, frozen.base.two} : pass.packet.prepared = frozen.base.prepared
  /\ frozen.base.one.reviewer.family # frozen.base.two.reviewer.family
  /\ LabelsGraded(frozen.base)

EvidenceOk(evidence) ==
  /\ evidence.frozen.base.prepared = evidence.prepared
  /\ FrozenOk(evidence.frozen)
  /\ evidence.frozen.adoption.frozen = evidence.frozen.base
  /\ evidence.prelabel.queries = Prelabel(evidence.prepared.queries)

Contents(file, content) ==
  /\ file = "prepared" => PreparedOk(content)
  /\ file \in {"pass-1-grades", "pass-2-grades"} => content.pass \in Passes
  /\ file = "frozen" => FrozenOk(content)
  /\ file \in {"selection", "checksums"} => EvidenceOk(content)

Typed ==
  /\ files = [f \in FileNames |-> files[f]]
  /\ Len(writing) \in Nat
  /\ writing = [i \in 1..Len(writing) |-> writing[i]]

Filed == \A f \in FileNames : files[f] # NoFile => Contents(f, files[f])
Pending ==
  \A i \in 1..Len(writing) :
    writing[i].file \in FileNames /\ Contents(writing[i].file, writing[i].content)

(* The two files of a selection are written in order, or not at all.       *)
Selecting ==
  /\ files["checksums"] # NoFile => files["selection"] = files["checksums"]
  /\ \/ \A i \in 1..Len(writing) : writing[i].file \notin {"selection", "checksums"}
     \/ /\ Len(writing) = 2 /\ files["checksums"] = NoFile
        /\ writing[1].file = "selection" /\ writing[2].file = "checksums"
        /\ writing[1].content = writing[2].content
     \/ /\ Len(writing) = 1 /\ files["checksums"] = NoFile
        /\ writing[1].file = "checksums" /\ writing[1].content = files["selection"]

IInv == Typed /\ Filed /\ Pending /\ Selecting

-----------------------------------------------------------------------------
(* Files and what a command still writes. *)

Names == {"emissions", "prepared", "prelabels", "pass-1", "pass-2", "adoption-input", "frozen",
          "owner-adoption", "adjudications", "selection", "checksums", "pass-1-grades",
          "pass-2-grades", "adjudication", "adoption"}

(* What a selection leaves behind.                                         *)
LEMMA SelectionIs == Selection = {"selection", "checksums"}
<1>1. SelectionFiles[1] = "selection" /\ SelectionFiles[2] = "checksums" /\ Len(SelectionFiles) = 2
  BY DEF SelectionFiles
<1>2. \A i : i \in 1..2 <=> i = 1 \/ i = 2
  OBVIOUS
<1> QED
  BY <1>1, <1>2 DEF Selection

(* The names of the files, one by one.                                     *)
LEMMA FileNamesAre == FileNames = Names
  BY SelectionIs DEF FileNames, Inputs3, Names

(* What an idle command or a person may do to the files.                   *)
LEMMA HandStep ==
  ASSUME IInv, NEW file \in FileNames, NEW content, Hand(file, content),
         Contents(file, content), file \notin {"selection", "checksums"}
  PROVE  IInv'
<1>1. writing = <<>> /\ writing' = <<>> /\ files' = [files EXCEPT ![file] = content]
  BY DEF Hand
<1>2. /\ files'[file] = content
      /\ \A f \in FileNames : f # file => files'[f] = files[f]
      /\ files' = [f \in FileNames |-> files'[f]]
  BY <1>1 DEF IInv, Typed
<1>3. Filed'
  BY <1>2 DEF IInv, Filed
<1>4. Selecting'
  BY <1>1, <1>2, FileNamesAre DEF IInv, Selecting, Names
<1> QED
  BY <1>1, <1>2, <1>3, <1>4 DEF IInv, Typed, Pending

(* A command that starts.                                                  *)
LEMMA StartStep ==
  ASSUME IInv, NEW writes, Start(writes),
         Len(writes) \in Nat, writes = [i \in 1..Len(writes) |-> writes[i]],
         \A i \in 1..Len(writes) : /\ writes[i].file \in FileNames
                                   /\ Contents(writes[i].file, writes[i].content),
         \/ \A i \in 1..Len(writes) : writes[i].file \notin {"selection", "checksums"}
         \/ /\ Len(writes) = 2 /\ files["checksums"] = NoFile
            /\ writes[1].file = "selection" /\ writes[2].file = "checksums"
            /\ writes[1].content = writes[2].content
  PROVE  IInv'
<1>1. writing' = writes /\ files' = files
  BY DEF Start
<1>2. Typed' /\ Filed'
  BY <1>1 DEF IInv, Typed, Filed
<1>3. Pending'
  BY <1>1 DEF Pending
<1>4. Selecting'
  BY <1>1 DEF IInv, Selecting
<1> QED
  BY <1>2, <1>3, <1>4 DEF IInv

(* A write puts into a file what was on its way into it.                   *)
LEMMA WriteStep == ASSUME IInv, WriteReviewJSON PROVE IInv'
<1> DEFINE w == writing[1]
<1>1. Len(writing) \in Nat /\ writing \in Seq({writing[i] : i \in 1..Len(writing)}) /\ writing # <<>>
  BY DEF WriteReviewJSON, IInv, Typed
<1>2. /\ Len(writing) >= 1 /\ Head(writing) = w
      /\ Len(Tail(writing)) = Len(writing) - 1
      /\ \A i \in 1..Len(Tail(writing)) : Tail(writing)[i] = writing[i + 1]
      /\ Tail(writing) = [i \in 1..Len(Tail(writing)) |-> Tail(writing)[i]]
  <2>1. Len(writing) >= 1 /\ Head(writing) = w
    BY <1>1
  <2>2. Tail(writing) \in Seq({writing[i] : i \in 1..Len(writing)}) /\ Len(Tail(writing)) = Len(writing) - 1
    BY <1>1
  <2>3. \A i \in 1..Len(Tail(writing)) : Tail(writing)[i] = writing[i + 1]
    BY <1>1
  <2>4. Tail(writing) = [i \in 1..Len(Tail(writing)) |-> Tail(writing)[i]]
    BY <2>2, LenProperties
  <2> QED
    BY <2>1, <2>2, <2>3, <2>4
<1>3. w.file \in FileNames /\ Contents(w.file, w.content)
  BY <1>1, <1>2 DEF IInv, Pending
<1>4. writing' = Tail(writing) /\ files' = [files EXCEPT ![w.file] = w.content]
  BY <1>2 DEF WriteReviewJSON
<1> HIDE DEF w
<1>5. /\ files'[w.file] = w.content
      /\ \A f \in FileNames : f # w.file => files'[f] = files[f]
      /\ files' = [f \in FileNames |-> files'[f]]
  BY <1>3, <1>4 DEF IInv, Typed
<1>6. /\ Len(writing') = Len(writing) - 1
      /\ \A i \in 1..Len(writing') : writing'[i] = writing[i + 1] /\ i + 1 \in 1..Len(writing)
      /\ writing' = [i \in 1..Len(writing') |-> writing'[i]]
  BY <1>1, <1>2, <1>4
<1>7. Typed' /\ Filed' /\ Pending'
  BY <1>1, <1>2, <1>3, <1>5, <1>6 DEF IInv, Typed, Filed, Pending
<1>8. Selecting'
  <2>1. "selection" \in FileNames /\ "checksums" \in FileNames /\ 1 \in 1..Len(writing)
    BY <1>1, <1>2, FileNamesAre DEF Names
  <2>2. CASE \A i \in 1..Len(writing) : writing[i].file \notin {"selection", "checksums"}
    BY <1>5, <1>6, <2>1, <2>2 DEF IInv, Selecting, w
  <2>3. CASE /\ Len(writing) = 2 /\ files["checksums"] = NoFile
             /\ writing[1].file = "selection" /\ writing[2].file = "checksums"
             /\ writing[1].content = writing[2].content
    BY <1>5, <1>6, <2>1, <2>3 DEF Selecting, w
  <2>4. CASE /\ Len(writing) = 1 /\ files["checksums"] = NoFile
             /\ writing[1].file = "checksums" /\ writing[1].content = files["selection"]
    BY <1>5, <1>6, <2>1, <2>4 DEF Selecting, w
  <2> QED
    BY <2>2, <2>3, <2>4 DEF IInv, Selecting
<1> QED
  BY <1>7, <1>8 DEF IInv

(* A killed command leaves the files as they are.                          *)
LEMMA KilledStep == ASSUME IInv, Killed PROVE IInv'
<1>1. writing' = <<>> /\ writing # <<>>
  BY DEF Killed
<1>2. CASE files' = files
  BY <1>1, <1>2 DEF IInv, Typed, Filed, Pending, Selecting
<1>3. CASE files' = [files EXCEPT ![Head(writing).file] = NoFile]
  <2> DEFINE w == writing[1]
  <2>1. Len(writing) \in Nat /\ writing \in Seq({writing[i] : i \in 1..Len(writing)}) /\ writing # <<>>
    BY <1>1 DEF IInv, Typed
  <2>2. Len(writing) >= 1 /\ Head(writing) = w
    BY <2>1
  <2>3. w.file \in FileNames
    BY <2>1, <2>2 DEF IInv, Pending
  <2> HIDE DEF w
  <2>4. /\ files'[w.file] = NoFile
        /\ \A f \in FileNames : f # w.file => files'[f] = files[f]
        /\ files' = [f \in FileNames |-> files'[f]]
    BY <1>3, <2>2, <2>3 DEF IInv, Typed
  <2>5. Typed' /\ Filed' /\ Pending'
    BY <1>1, <2>4 DEF IInv, Typed, Filed, Pending
  <2>6. Selecting'
    <3>1. "selection" \in FileNames /\ "checksums" \in FileNames /\ 1 \in 1..Len(writing)
      BY <2>1, <2>2, FileNamesAre DEF Names
    <3>2. files'["checksums"] # NoFile => files'["selection"] = files'["checksums"]
      BY <2>1, <2>4, <3>1 DEF IInv, Selecting, w
    <3> QED
      BY <1>1, <3>2 DEF Selecting
  <2> QED
    BY <2>5, <2>6 DEF IInv
<1> QED
  BY <1>2, <1>3 DEF Killed

-----------------------------------------------------------------------------
(* Packets and grades *)

(* What a packet shows of a candidate.                                     *)
LEMMA ShownIs ==
  ASSUME NEW prepared, PreparedOk(prepared)
  PROVE  /\ ReviewCandidates(prepared) = CandidatesOf(prepared.dirs, prepared.queries)
         /\ Relations(prepared) = RelationsOf(prepared.dirs)
<1> DEFINE shown == [dirs |-> prepared.dirs, queries |-> prepared.queries,
                     candidates |-> CandidatesOf(prepared.dirs, prepared.queries),
                     relations |-> RelationsOf(prepared.dirs)]
<1>1. shown \in Packets
  BY DEF Packets, PreparedOk
<1>2. \A e \in Packets : e.dirs = prepared.dirs /\ e.queries = prepared.queries => e = shown
  BY DEF Packets
<1>3. Shown(prepared) = shown
  BY <1>1, <1>2 DEF Shown
<1> QED
  BY <1>3 DEF ReviewCandidates, Relations

(* A relation points at a candidate of the packet.                         *)
LEMMA TargetsAreCandidates ==
  ASSUME NEW prepared, PreparedOk(prepared), NEW r \in Relations(prepared)
  PROVE  r.id \in RelationIDs(prepared) /\ r.target \in CandidateIDs(prepared)
<1> DEFINE dirs == prepared.dirs
           refs == References(dirs, prepared.queries)
<1>1. r \in RelationsOf(dirs)
  BY ShownIs
<1>2. \E x \in All(dirs, "features") \cup All(dirs, "hints") \cup All(dirs, "closures") :
        r.target = ReviewAttachmentID(x.query, x.target)
  BY <1>1 DEF RelationsOf
<1>3. PICK x \in All(dirs, "features") \cup All(dirs, "hints") \cup All(dirs, "closures") :
        r.target = ReviewAttachmentID(x.query, x.target)
  BY <1>2
<1>4. \E ref \in refs : ref[1] = x.query /\ ref[2] = x.target
  <2>1. CASE x \in All(dirs, "features")
    <3>1. <<x.query, x.target, "semantic">> \in
            {<<x.query, x.target, "semantic">>, <<x.query, x.source, "semantic_source">>}
      OBVIOUS
    <3>2. <<x.query, x.target, "semantic">> \in refs
      BY <3>1, <2>1 DEF References
    <3> QED
      BY <3>2
  <2>2. CASE x \in All(dirs, "hints")
    <3>1. <<x.query, x.target, "hint">> \in
            {<<x.query, x.target, "hint">>, <<x.query, x.source, "hint_source">>}
      OBVIOUS
    <3>2. <<x.query, x.target, "hint">> \in refs
      BY <3>1, <2>2 DEF References
    <3> QED
      BY <3>2
  <2>3. CASE x \in All(dirs, "closures")
    <3>1. <<x.query, x.target, "closure">> \in
            {<<x.query, x.target, "closure">>, <<x.query, x.source, "closure_source">>}
      OBVIOUS
    <3>2. <<x.query, x.target, "closure">> \in refs
      BY <3>1, <2>3 DEF References
    <3> QED
      BY <3>2
  <2> QED
    BY <1>3, <2>1, <2>2, <2>3
<1>5. PICK ref \in refs : ref[1] = x.query /\ ref[2] = x.target
  BY <1>4
<1>6. ref[2] \in DOMAIN Bodies
  BY <1>5 DEF PreparedOk
<1>7. \E c \in CandidatesOf(dirs, prepared.queries) : c.id = ReviewAttachmentID(ref[1], ref[2])
  <2> DEFINE cited == {r0 \in refs : r0[2] \in DOMAIN Bodies}
             id(r0) == ReviewAttachmentID(r0[1], r0[2])
             candidate(r0) == [id |-> id(r0), query |-> r0[1],
                               families |-> {t[3] : t \in {u \in cited : id(u) = id(r0)}}]
  <2>1. CandidatesOf(dirs, prepared.queries) = {candidate(r0) : r0 \in cited}
    BY DEF CandidatesOf
  <2>2. ref \in cited
    BY <1>5, <1>6
  <2>3. candidate(ref).id = id(ref)
    OBVIOUS
  <2> QED
    BY <2>1, <2>2, <2>3
<1>8. r.target \in CandidateIDs(prepared)
  BY <1>3, <1>5, <1>7, ShownIs DEF CandidateIDs
<1> QED
  BY <1>8 DEF RelationIDs

(* What a packet and its grades say of each other.                         *)
LEMMA PassIs ==
  ASSUME IInv, NEW pass, pass.pass \in Passes, ValidateReviewPass(pass)
  PROVE  /\ PreparedOk(files["prepared"])
         /\ pass.packet.prepared = files["prepared"]
         /\ DOMAIN pass.grades = CandidateIDs(files["prepared"]) \cup RelationIDs(files["prepared"])
         /\ \A id \in DOMAIN pass.grades :
              /\ pass.grades[id].grade \in 0..2
              /\ ValidReviewGradeFor(files["prepared"], id, pass.grades[id])
         /\ RelationsSubordinate(files["prepared"], pass.grades)
<1>1. files["prepared"] # NoFile /\ "prepared" \in FileNames
  BY FileNamesAre DEF ValidateReviewPass, ReadReviewPrepared, Names
<1>2. PreparedOk(files["prepared"])
  BY <1>1 DEF IInv, Filed, Contents
<1>3. pass.packet.prepared = files["prepared"]
  <2>1. pass.packet = Packet(files["prepared"], pass.pass)
    BY DEF ValidateReviewPass, ReadReviewPrepared
  <2> QED
    BY <2>1 DEF Packet
<1>4. \A id \in DOMAIN pass.grades : ValidReviewGradeFor(files["prepared"], id, pass.grades[id])
  BY DEF ValidateReviewPass
<1>5. \A id \in DOMAIN pass.grades : pass.grades[id].grade \in 0..2
  BY <1>4 DEF ValidReviewGradeFor
<1> QED
  BY <1>2, <1>3, <1>4, <1>5 DEF ValidateReviewPass

(* What a label becomes when conflicts are settled by t.                   *)
Taken(l, r, t) ==
  IF Conflict(l, r) THEN ReviewLabel(t.grade, t.groups, t.hard, t.hardGroups) ELSE Settled(l, r)

(* Taking one side in every conflict leaves no relation above its parent.  *)
LEMMA SideSubordinate ==
  ASSUME NEW a, NEW A, NEW b, NEW B, NEW c, NEW C,
         a.grade \in 0..2, A.grade \in 0..2, b.grade \in 0..2, B.grade \in 0..2,
         Subordinate(a, A), Subordinate(b, B),
         (c = a /\ C = A) \/ (c = b /\ C = B)
  PROVE  Subordinate(Taken(a, b, c), Taken(A, B, C))
<1>1. \A l, r, t : /\ Conflict(l, r) => Taken(l, r, t).grade = t.grade /\ Taken(l, r, t).groups = t.groups
                   /\ ~Conflict(l, r) =>
                        /\ Taken(l, r, t).grade = (IF l.grade = r.grade THEN l.grade ELSE 0)
                        /\ Taken(l, r, t).groups = (IF l.grade = 2 /\ r.grade = 2 THEN l.groups ELSE {})
  BY DEF Taken, Settled, ReviewLabel
<1>2. CASE Conflict(a, b) /\ Conflict(A, B)
  BY <1>1, <1>2 DEF Subordinate
<1>3. CASE Conflict(a, b) /\ ~Conflict(A, B)
  BY <1>1, <1>3 DEF Subordinate, Conflict
<1>4. CASE ~Conflict(a, b) /\ Conflict(A, B)
  BY <1>1, <1>4 DEF Subordinate, Conflict
<1>5. CASE ~Conflict(a, b) /\ ~Conflict(A, B)
  BY <1>1, <1>5 DEF Subordinate, Conflict
<1> QED
  BY <1>2, <1>3, <1>4, <1>5

(* Either reviewer's side settles every conflict.                          *)
LEMMA EitherSide ==
  ASSUME IInv, files["pass-1-grades"] # NoFile, files["pass-2-grades"] # NoFile,
         ValidateReviewPass(files["pass-1-grades"]), ValidateReviewPass(files["pass-2-grades"]),
         NEW side \in {files["pass-1-grades"], files["pass-2-grades"]}
  PROVE  Reconcilable(files["prepared"], files["pass-1-grades"].grades, files["pass-2-grades"].grades, side.grades)
<1> DEFINE prepared == files["prepared"]
           one == files["pass-1-grades"].grades
           two == files["pass-2-grades"].grades
           ids == CandidateIDs(prepared) \cup RelationIDs(prepared)
           labels == Reconcile(one, two, side.grades)
<1>1. /\ PreparedOk(prepared) /\ DOMAIN one = ids /\ DOMAIN two = ids /\ DOMAIN side.grades = ids
      /\ \A id \in ids : one[id].grade \in 0..2 /\ two[id].grade \in 0..2
      /\ RelationsSubordinate(prepared, one) /\ RelationsSubordinate(prepared, two)
  <2>1. files["pass-1-grades"].pass \in Passes /\ files["pass-2-grades"].pass \in Passes
    BY FileNamesAre DEF IInv, Filed, Contents, Names
  <2> QED
    BY <2>1, PassIs
<1>2. \A id \in ids : labels[id] = Taken(one[id], two[id], side.grades[id])
  BY <1>1 DEF Reconcile, Taken
<1>3. ASSUME NEW r \in Relations(prepared)
      PROVE  Subordinate(labels[r.id], labels[r.target])
  <2>1. r.id \in ids /\ r.target \in ids
    BY <1>1, <1>3, TargetsAreCandidates
  <2>2. /\ Subordinate(one[r.id], one[r.target]) /\ Subordinate(two[r.id], two[r.target])
    BY <1>1, <1>3 DEF RelationsSubordinate
  <2>3. \/ side.grades[r.id] = one[r.id] /\ side.grades[r.target] = one[r.target]
        \/ side.grades[r.id] = two[r.id] /\ side.grades[r.target] = two[r.target]
    OBVIOUS
  <2> HIDE DEF labels, one, two
  <2> QED
    BY <1>1, <1>2, <2>1, <2>2, <2>3, SideSubordinate
<1> QED
  BY <1>1, <1>3 DEF Reconcilable, RelationsSubordinate

-----------------------------------------------------------------------------
(* The commands *)

(* Freezing what the variants emitted.                                     *)
LEMMA EmissionsStep ==
  ASSUME IInv, NEW dirs \in Series, NEW payload \in DOMAIN Inputs, PrepareReviewEmissions(dirs, payload)
  PROVE  IInv'
<1> DEFINE writes == <<To("emissions", EmissionFreeze(dirs, payload))>>
<1>1. Start(writes)
  BY DEF PrepareReviewEmissions
<1>2. /\ Len(writes) = 1 /\ writes = [i \in 1..Len(writes) |-> writes[i]]
      /\ writes[1].file = "emissions"
  BY DEF To
<1> HIDE DEF writes
<1>3. \A i \in 1..Len(writes) : i = 1
  BY <1>2
<1> QED
  BY <1>1, <1>2, <1>3, FileNamesAre, StartStep DEF Contents, Names

(* Preparing a packet, which needs every body there is to cite.            *)
LEMMA PrepareStep ==
  ASSUME IInv, NEW dirs \in Series, NEW payload \in DOMAIN Inputs, PrepareReview(dirs, payload)
  PROVE  IInv'
<1> DEFINE prepared == [dirs |-> dirs, queries |-> payload, prelabel |-> files["emissions"]]
           writes == <<To("prepared", prepared), To("prelabels", files["emissions"]),
                       To("pass-1", Packet(prepared, "pass-1")), To("pass-2", Packet(prepared, "pass-2"))>>
<1>1. Start(writes) /\ PreparedOk(prepared)
  BY DEF PrepareReview, PreparedOk
<1>2. /\ Len(writes) = 4 /\ writes = [i \in 1..Len(writes) |-> writes[i]]
      /\ writes[1].file = "prepared" /\ writes[1].content = prepared
      /\ writes[2].file = "prelabels" /\ writes[3].file = "pass-1" /\ writes[4].file = "pass-2"
  BY DEF To
<1> HIDE DEF writes, prepared
<1>3. \A i \in 1..Len(writes) : i = 1 \/ i = 2 \/ i = 3 \/ i = 4
  BY <1>2
<1>4. \A i \in 1..Len(writes) : /\ writes[i].file \in FileNames
                                /\ Contents(writes[i].file, writes[i].content)
                                /\ writes[i].file \notin {"selection", "checksums"}
  BY <1>1, <1>2, <1>3, FileNamesAre DEF Contents, Names
<1>5. Len(writes) \in Nat
  BY <1>2
<1> QED
  BY <1>1, <1>2, <1>4, <1>5, StartStep

(* Writing out what is to be adopted.                                      *)
LEMMA AdoptionInputStep ==
  ASSUME IInv, NEW adjudicated \in BOOLEAN, PrepareReviewAdoption(adjudicated)
  PROVE  IInv'
<1> DEFINE writes == <<To("adoption-input", [frozen |-> Reconciled(adjudicated),
                                             prelabel |-> files["prepared"].prelabel, adopted |-> FALSE])>>
<1>1. Start(writes)
  BY DEF PrepareReviewAdoption
<1>2. /\ Len(writes) = 1 /\ writes = [i \in 1..Len(writes) |-> writes[i]]
      /\ writes[1].file = "adoption-input"
  BY DEF To
<1> HIDE DEF writes
<1>3. \A i \in 1..Len(writes) : i = 1
  BY <1>2
<1> QED
  BY <1>1, <1>2, <1>3, FileNamesAre, StartStep DEF Contents, Names

(* What reconciling two passes makes: both graders saw the packet, they    *)
(* are of two families, and only their 2s and the adjudicator's are kept.  *)
LEMMA ReconciledOk ==
  ASSUME IInv, NEW adjudicated \in BOOLEAN, CanReconcile(adjudicated)
  PROVE  \A adoption : FrozenOk([base |-> Reconciled(adjudicated), adoption |-> adoption])
<1> DEFINE base == Reconciled(adjudicated)
           one == files["pass-1-grades"]
           two == files["pass-2-grades"]
           entries == IF adjudicated THEN files["adjudication"].entries ELSE NoEntries
           Given(id, g) ==
             /\ g.grade \in 0..2
             /\ g.grade = 2 => g.groups \subseteq ReviewQueryTopologyGroupIDs(files["prepared"], id)
<1>1. /\ base.prepared = files["prepared"] /\ base.one = one /\ base.two = two
      /\ base.labels = Reconcile(one.grades, two.grades, entries)
  BY DEF Reconciled
<1>2. /\ one.pass \in Passes /\ two.pass \in Passes
      /\ ValidateReviewPass(one) /\ ValidateReviewPass(two)
      /\ one.reviewer.family # two.reviewer.family
      /\ Reconcilable(files["prepared"], one.grades, two.grades, entries)
  BY FileNamesAre DEF CanReconcile, IInv, Filed, Contents, Names
<1>3. \A id \in DOMAIN entries : Given(id, entries[id])
  BY DEF CanReconcile, AdjudicationBinds, ValidReviewGradeFor, NoEntries, Given
<1>4. /\ DOMAIN base.labels = DOMAIN one.grades
      /\ \A id \in DOMAIN one.grades : base.labels[id] = Taken(one.grades[id], two.grades[id], entries[id])
  BY <1>1 DEF Reconcile, Taken
<1>5. \A id \in DOMAIN one.grades : Given(id, one.grades[id]) /\ Given(id, two.grades[id])
  <2>1. DOMAIN one.grades = DOMAIN two.grades
    BY <1>2, PassIs
  <2> QED
    BY <1>2, <2>1, PassIs DEF Given, ValidReviewGradeFor
<1> HIDE DEF base, entries, one, two
<1>6. ASSUME NEW id \in DOMAIN base.labels
      PROVE  /\ base.labels[id].grade <= 2
             /\ base.labels[id].grade = 2 =>
                  /\ 2 \in {one.grades[id].grade, two.grades[id].grade}
                  /\ base.labels[id].groups \subseteq ReviewQueryTopologyGroupIDs(files["prepared"], id)
  <2> DEFINE l == one.grades[id]
             r == two.grades[id]
  <2>1. /\ Given(id, l) /\ Given(id, r) /\ l.grade \in 0..2 /\ r.grade \in 0..2
        /\ base.labels[id] = Taken(l, r, entries[id])
    BY <1>4, <1>5, <1>6 DEF Given
  <2>2. CASE Conflict(l, r)
    <3>1. id \in DOMAIN entries
      BY <1>2, <1>4, <1>6, <2>2 DEF Reconcilable
    <3>2. base.labels[id].grade = entries[id].grade /\ base.labels[id].groups = entries[id].groups
      BY <2>1, <2>2 DEF Taken, ReviewLabel
    <3> QED
      BY <1>3, <2>2, <3>1, <3>2 DEF Conflict, Given
  <2>3. CASE ~Conflict(l, r)
    <3>1. /\ base.labels[id].grade = (IF l.grade = r.grade THEN l.grade ELSE 0)
          /\ base.labels[id].groups = (IF l.grade = 2 /\ r.grade = 2 THEN l.groups ELSE {})
      BY <2>1, <2>3 DEF Taken, Settled, ReviewLabel
    <3> QED
      BY <2>1, <3>1 DEF Given
  <2> QED
    BY <2>2, <2>3
<1>7. LabelsGraded(base)
  BY <1>1, <1>6 DEF LabelsGraded
<1>8. one.packet.prepared = files["prepared"] /\ two.packet.prepared = files["prepared"]
  BY <1>2, PassIs
<1> QED
  BY <1>1, <1>2, <1>7, <1>8 DEF FrozenOk, base

(* Freezing labels from a packet, two passes on it and an adoption.        *)
LEMMA FreezeStep ==
  ASSUME IInv, NEW adjudicated \in BOOLEAN, FreezeReview(adjudicated)
  PROVE  IInv'
<1> DEFINE frozen == [base |-> Reconciled(adjudicated), adoption |-> files["adoption"]]
           first == To("frozen", frozen)
           second == To("owner-adoption", files["adoption"])
           third == To("adjudications", files["adjudication"])
           writes == <<first, second>> \o (IF adjudicated THEN <<third>> ELSE <<>>)
<1>1. Start(writes) /\ FrozenOk(frozen)
  BY ReconciledOk DEF FreezeReview
<1>2. first.file = "frozen" /\ first.content = frozen /\ second.file = "owner-adoption" /\ third.file = "adjudications"
  BY DEF To
<1> HIDE DEF first, second, third, frozen
<1>3. /\ Len(writes) \in Nat
      /\ writes = [i \in 1..Len(writes) |-> writes[i]]
      /\ \A i \in 1..Len(writes) : writes[i] \in {first, second, third}
  <2> DEFINE tail == IF adjudicated THEN <<third>> ELSE <<>>
  <2>1. /\ <<first, second>> \in Seq({first, second, third}) /\ Len(<<first, second>>) = 2
        /\ tail \in Seq({first, second, third}) /\ (Len(tail) = 0 \/ Len(tail) = 1)
    <3>1. <<first, second>> \in Seq({first, second, third}) /\ Len(<<first, second>>) = 2
      OBVIOUS
    <3>2. <<third>> \in Seq({first, second, third}) /\ Len(<<third>>) = 1
      OBVIOUS
    <3>3. <<>> \in Seq({first, second, third}) /\ Len(<<>>) = 0
      OBVIOUS
    <3>4. tail = <<third>> \/ tail = <<>>
      OBVIOUS
    <3> HIDE DEF tail
    <3>5. tail \in Seq({first, second, third}) /\ (Len(tail) = 0 \/ Len(tail) = 1)
      <4>1. CASE tail = <<third>>
        BY <3>2, <4>1
      <4>2. CASE tail = <<>>
        BY <3>3, <4>2
      <4> QED
        BY <3>4, <4>1, <4>2
    <3> QED
      BY <3>1, <3>5
  <2> HIDE DEF tail
  <2>2. writes \in Seq({first, second, third}) /\ (Len(writes) = 2 \/ Len(writes) = 3)
    <3>1. writes = <<first, second>> \o tail
      BY DEF tail
    <3> HIDE DEF writes
    <3>2. writes \in Seq({first, second, third}) /\ Len(writes) = Len(<<first, second>>) + Len(tail)
      BY <2>1, <3>1, ConcatProperties
    <3>3. CASE Len(tail) = 0
      BY <2>1, <3>2, <3>3
    <3>4. CASE Len(tail) = 1
      BY <2>1, <3>2, <3>4
    <3> QED
      BY <2>1, <3>3, <3>4
  <2> HIDE DEF writes
  <2>3. writes \in [1..Len(writes) -> {first, second, third}]
    BY <2>2, LenProperties
  <2> QED
    BY <2>2, <2>3
<1> HIDE DEF writes
<1>4. \A i \in 1..Len(writes) : /\ writes[i].file \in FileNames
                                /\ Contents(writes[i].file, writes[i].content)
                                /\ writes[i].file \notin {"selection", "checksums"}
  BY <1>1, <1>2, <1>3, FileNamesAre DEF Contents, Names
<1> QED
  BY <1>1, <1>3, <1>4, StartStep

(* Evaluating frozen labels and emissions of one packet.                   *)
LEMMA SelectStep == ASSUME IInv, SelectReview PROVE IInv'
<1> DEFINE evidence == [frozen |-> files["frozen"], prelabel |-> files["prelabels"], prepared |-> files["prepared"]]
           writes == [i \in 1..Len(SelectionFiles) |-> To(SelectionFiles[i], evidence)]
<1>1. Start(writes) /\ files["checksums"] = NoFile
  BY SelectionIs DEF SelectReview
<1>2. EvidenceOk(evidence)
  <2>1. FrozenOk(files["frozen"])
    BY FileNamesAre DEF SelectReview, ValidatedReviewFrozenLabels, IInv, Filed, Contents, Names
  <2>2. /\ files["frozen"].base.prepared = files["prepared"]
        /\ files["frozen"].adoption.frozen = files["frozen"].base
        /\ files["prelabels"].queries = Prelabel(files["prepared"].queries)
    BY DEF SelectReview, ValidatedReviewFrozenLabels, ValidReviewAdoption, ReadReviewPrepared
  <2> QED
    BY <2>1, <2>2 DEF EvidenceOk
<1> HIDE DEF evidence
<1>3. /\ Len(writes) = 2 /\ writes = [i \in 1..Len(writes) |-> writes[i]]
      /\ writes[1].file = "selection" /\ writes[1].content = evidence
      /\ writes[2].file = "checksums" /\ writes[2].content = evidence
  BY DEF SelectionFiles, To
<1> HIDE DEF writes
<1>4. \A i \in 1..Len(writes) : i = 1 \/ i = 2
  BY <1>3
<1>5. \A i \in 1..Len(writes) : /\ writes[i].file \in FileNames
                                /\ Contents(writes[i].file, writes[i].content)
  BY <1>2, <1>3, <1>4, FileNamesAre DEF Contents, Names
<1> QED
  BY <1>1, <1>3, <1>5, StartStep

-----------------------------------------------------------------------------
(* People *)

(* What people write, adopt or clear by hand.                              *)
LEMMA PeopleStep == ASSUME IInv, People PROVE IInv'
<1>1. ASSUME NEW p \in Passes, NEW grades \in Gradings, NEW reviewer \in Reviewers[p], Grade(p, reviewer, grades)
      PROVE  IInv'
  <2> DEFINE content == [prepared |-> files[p].prepared, packet |-> files[p], pass |-> p,
                         reviewer |-> reviewer, grades |-> grades]
  <2>1. Hand(GradesOf(p), content) /\ content.pass = p
    BY <1>1 DEF Grade
  <2>2. GradesOf(p) \in {"pass-1-grades", "pass-2-grades"}
    BY DEF GradesOf
  <2> HIDE DEF content
  <2> QED
    BY <1>1, <2>1, <2>2, FileNamesAre, HandStep DEF Contents, Names
<1>2. ASSUME NEW g \in Rulings, Adjudicate(g)
      PROVE  IInv'
  <2>1. \E content : Hand("adjudication", content)
    BY <1>2 DEF Adjudicate
  <2> QED
    BY <2>1, FileNamesAre, HandStep DEF Contents, Names
<1>3. CASE Adopt
  <2>1. \E content : Hand("adoption", content)
    BY <1>3 DEF Adopt
  <2> QED
    BY <2>1, FileNamesAre, HandStep DEF Contents, Names
<1>4. CASE EditSource
  BY <1>4 DEF EditSource, IInv, Typed, Filed, Pending, Selecting
<1>5. CASE ClearSelection
  <2>1. /\ writing = <<>> /\ writing' = writing
        /\ files' = [f \in FileNames |-> IF f \in {"selection", "checksums"} THEN NoFile ELSE files[f]]
    BY <1>5, SelectionIs DEF ClearSelection
  <2>2. \A f \in FileNames : files'[f] = NoFile \/ files'[f] = files[f]
    BY <2>1
  <2>3. files' = [f \in FileNames |-> files'[f]] /\ files'["checksums"] = NoFile
    BY <2>1, FileNamesAre DEF Names
  <2>4. Filed'
    BY <2>2 DEF IInv, Filed
  <2>5. Typed' /\ Pending' /\ Selecting'
    BY <2>1, <2>3 DEF IInv, Typed, Pending, Selecting
  <2> QED
    BY <2>4, <2>5 DEF IInv
<1> QED
  BY <1>1, <1>2, <1>3, <1>4, <1>5 DEF People

(* At first there is no file and nothing on its way into one.              *)
LEMMA Initially == ReviewInit => IInv
<1> SUFFICES ASSUME ReviewInit
             PROVE  IInv
  OBVIOUS
<1>1. writing = <<>> /\ \A f \in FileNames : files[f] = NoFile
  BY DEF ReviewInit
<1>2. files["checksums"] = NoFile
  BY <1>1, FileNamesAre DEF Names
<1> QED
  BY <1>1, <1>2 DEF ReviewInit, IInv, Typed, Filed, Pending, Selecting

(* Every command, kill and edit keeps the invariant.                       *)
LEMMA Inductive == IInv /\ [ReviewNext]_reviewVars => IInv'
<1> SUFFICES ASSUME IInv, [ReviewNext]_reviewVars
             PROVE  IInv'
  OBVIOUS
<1>1. CASE Commands
  BY <1>1, EmissionsStep, PrepareStep, AdoptionInputStep, FreezeStep, SelectStep, WriteStep, KilledStep
  DEF Commands
<1>2. CASE UNCHANGED reviewVars
  BY <1>2 DEF reviewVars, IInv, Typed, Filed, Pending, Selecting
<1> QED
  BY <1>1, <1>2, PeopleStep DEF ReviewNext

(* Every file, and all that is on its way into one, was made by a command  *)
(* whose checks held.                                                      *)
THEOREM Invariance == ReviewSpec => []IInv
  BY Initially, Inductive, PTL DEF ReviewSpec

(* What the files say of a finished evaluation.                            *)
LEMMA OneChain ==
  ASSUME IInv
  PROVE  SelectionRestsOnOneChain
<1>1. ASSUME files["checksums"] # NoFile
      PROVE  EvidenceOk(files["checksums"]) /\ files["selection"] = files["checksums"]
  BY <1>1, FileNamesAre DEF IInv, Filed, Contents, Selecting, Names
<1> QED
  BY <1>1, SelectionIs DEF SelectionRestsOnOneChain, EvidenceOk, FrozenOk, LabelsGraded

(* A finished evaluation rests on one chain of packet, passes, adoption    *)
(* and frozen emissions, through kills between any two writes.             *)
THEOREM EvaluationRestsOnOneChain == ReviewSpec => []SelectionRestsOnOneChain
<1>1. IInv => SelectionRestsOnOneChain
  BY OneChain
<1> QED
  BY <1>1, Invariance, PTL

(* Two valid passes can be reconciled by taking either reviewer's side.    *)
THEOREM ConflictsCanBeSettled == ReviewSpec => []EitherSideSettles
<1>1. IInv => EitherSideSettles
  BY EitherSide DEF EitherSideSettles
<1> QED
  BY <1>1, Invariance, PTL

-----------------------------------------------------------------------------
(* Totals. *)

(* The sum of a property is the one of DataTheorems.                       *)
LEMMA SumOfIs ==
  ASSUME NEW f, NEW S
  PROVE  SumOf(f, S) = Sums(f, S)[S]
  BY DEF SumOf, MapThenSumSet, MapThenFoldSet, Sums, Adding

(* One more element adds its value.                                        *)
LEMMA SumOfMore ==
  ASSUME NEW T, IsFiniteSet(T), NEW x, x \notin T, NEW f, \A y \in T \cup {x} : f[y] \in Int
  PROVE  SumOf(f, T) \in Int /\ SumOf(f, T \cup {x}) = SumOf(f, T) + f[x]
<1> DEFINE O == T \cup {x}
           g == Sums(f, T)
           h == Sums(f, O)
<1>1. IsFiniteSet(O)
  BY FS_AddElement
<1>2. g = Adding(f, T, g) /\ h = Adding(f, O, h)
  BY <1>1, SumExists
<1>3. SumOf(f, T) = g[T] /\ SumOf(f, T \cup {x}) = h[O]
  BY SumOfIs
<1> HIDE DEF g, h
<1>4. g[T] = h[T]
  BY <1>2, OneSum
<1>5. h[T] \in Int /\ h[O] = h[T] + f[x]
  <2>1. T \in SUBSET O /\ x \in O \ T
    OBVIOUS
  <2> HIDE DEF O
  <2>2. (\A s \in SUBSET O : h[s] \in Int) /\ OneByOne(h, f, O)
    <3>1. \A y \in O : f[y] \in Int
      BY DEF O
    <3> QED
      BY <1>1, <1>2, <3>1, SumAdds
  <2>3. h[T \cup {x}] = h[T] + f[x]
    BY <2>1, <2>2 DEF OneByOne
  <2> QED
    BY <2>1, <2>2, <2>3 DEF O
<1> QED
  BY <1>3, <1>4, <1>5

(* Only the values on the set count.                                       *)
LEMMA SumOfSame ==
  ASSUME NEW T, IsFiniteSet(T), NEW f, NEW e, \A y \in T : e[y] = f[y]
  PROVE  SumOf(f, T) = SumOf(e, T)
<1> DEFINE g == Sums(f, T)
           h == Sums(e, T)
<1>1. g = Adding(f, T, g) /\ h = Adding(e, T, h)
  BY SumExists
<1>2. SumOf(f, T) = g[T] /\ SumOf(e, T) = h[T]
  BY SumOfIs
<1> HIDE DEF g, h
<1>3. g[T] = h[T]
  BY <1>1, OneSum
<1> QED
  BY <1>2, <1>3

(* Nothing adds up to nothing.                                             *)
LEMMA SumOfNothing == \A f : SumOf(f, {}) = 0
<1> SUFFICES ASSUME NEW f PROVE SumOf(f, {}) = 0
  OBVIOUS
<1> DEFINE g == Sums(f, {})
<1>1. g = Adding(f, {}, g)
  BY FS_EmptySet, SumExists
<1>2. SumOf(f, {}) = g[{}]
  BY SumOfIs
<1> HIDE DEF g
<1>3. g[{}] = 0
  BY <1>1, FS_EmptySet, SumAdds
<1> QED
  BY <1>2, <1>3

(* A part of what is not negative is not worth more.                       *)
LEMMA SumOfPart ==
  ASSUME NEW S, IsFiniteSet(S), NEW f, \A y \in S : f[y] \in Nat, NEW T \in SUBSET S
  PROVE  SumOf(f, T) \in Int /\ SumOf(f, S) \in Int /\ SumOf(f, T) <= SumOf(f, S)
<1> DEFINE g == Sums(f, T)
           h == Sums(f, S)
<1>0. IsFiniteSet(T)
  BY FS_Subset
<1>1. g = Adding(f, T, g) /\ h = Adding(f, S, h)
  BY <1>0, SumExists
<1>2. SumOf(f, T) = g[T] /\ SumOf(f, S) = h[S]
  BY SumOfIs
<1> HIDE DEF g, h
<1>3. g[T] = h[T]
  BY <1>0, <1>1, OneSum
<1>4. h[T] <= h[S]
  BY <1>1, SumGrows
<1>5. \A s \in SUBSET S : h[s] \in Int
  <2>1. \A y \in S : f[y] \in Int
    OBVIOUS
  <2> QED
    BY <1>1, <2>1, SumAdds
<1> QED
  BY <1>2, <1>3, <1>4, <1>5

Total(f) == SumOf(f, DOMAIN f)

(* Counting the elements of a finite set by their kinds counts them all.   *)
LEMMA CountByKind ==
  ASSUME NEW S, IsFiniteSet(S), NEW O, IsFiniteSet(O), NEW of, \A x \in S : of[x] \in O,
         NEW f, f = [o \in O |-> Cardinality({x \in S : of[x] = o})]
  PROVE  Total(f) = Cardinality(S)
<1> DEFINE Of2(s) == {x \in S : of[x] \in s}
           h == [s \in SUBSET O |-> Cardinality(Of2(s))]
           sum == Sums(f, O)
<1>1. Total(f) = sum[O]
  <2>1. DOMAIN f = O
    OBVIOUS
  <2>2. SumOf(f, O) = sum[O]
    BY SumOfIs
  <2> QED
    BY <2>1, <2>2 DEF Total
<1>2. h = Adding(f, O, h)
  <2> SUFFICES ASSUME NEW s \in SUBSET O
               PROVE h[s] = IF s = {} THEN 0 ELSE f[CHOOSE x \in s : TRUE] + h[s \ {CHOOSE x \in s : TRUE}]
    BY DEF Adding
  <2>1. CASE s = {}
    BY <2>1, FS_EmptySet
  <2>2. CASE s # {}
    <3> DEFINE o == CHOOSE x \in s : TRUE
               A == {x \in S : of[x] = o}
               B == Of2(s \ {o})
    <3>1. o \in s /\ o \in O
      BY <2>2
    <3> HIDE DEF o
    <3>2. Of2(s) = A \cup B /\ A \cap B = {} /\ A \in SUBSET S /\ B \in SUBSET S
      BY <3>1
    <3>3. h[s] = Cardinality(Of2(s)) /\ h[s \ {o}] = Cardinality(B) /\ f[o] = Cardinality(A)
      BY <3>1
    <3> HIDE DEF A, B, Of2, h
    <3>4. IsFiniteSet(A) /\ IsFiniteSet(B)
      BY <3>2, FS_Subset
    <3>5. Cardinality(A \cup B) = Cardinality(A) + Cardinality(B) - Cardinality(A \cap B)
      BY <3>4, FS_Union
    <3>6. Cardinality(A) \in Nat /\ Cardinality(B) \in Nat /\ Cardinality(A \cap B) = 0
      BY <3>2, <3>4, FS_CardinalityType, FS_EmptySet
    <3>7. h[s] = f[o] + h[s \ {o}]
      BY <3>2, <3>3, <3>5, <3>6
    <3> QED
      BY <2>2, <3>7 DEF o
  <2> QED
    BY <2>1, <2>2
<1>3. sum = Adding(f, O, sum)
  <2> HIDE DEF h
  <2> QED
    BY <1>2 DEF Sums
<1>4. h[O] = Cardinality(S)
  <2>1. Of2(O) = S
    OBVIOUS
  <2> QED
    BY <2>1
<1> HIDE DEF h, sum
<1>5. sum[O] = h[O]
  BY <1>2, <1>3, OneSum
<1> QED
  BY <1>1, <1>4, <1>5

-----------------------------------------------------------------------------
(* The protected primaries of a query. *)

Protected(prepared, q) == Inputs[prepared.queries][q].protected

(* A reference is to a parent of a query under a family.                   *)
LEMMA ReferencesAre ==
  ASSUME NEW dirs, NEW payload, NEW r \in References(dirs, payload)
  PROVE  /\ r = <<r[1], r[2], r[3]>>
         /\ r[3] = "protected_primary" =>
              r[1] \in DOMAIN Inputs[payload] /\ r[2] \in Inputs[payload][r[1]].protected
<1>1. \/ \E x \in All(dirs, "features") : r \in {<<x.query, x.target, "semantic">>, <<x.query, x.source, "semantic_source">>}
      \/ \E x \in All(dirs, "closures") : r \in {<<x.query, x.target, "closure">>, <<x.query, x.source, "closure_source">>}
      \/ \E x \in All(dirs, "hints") : r \in {<<x.query, x.target, "hint">>, <<x.query, x.source, "hint_source">>}
      \/ \E q \in DOMAIN Inputs[payload] :
           \/ \E p \in Inputs[payload][q].protected : r = <<q, p, "protected_primary">>
           \/ \E p \in UNION {Inputs[payload][q].groups[g] : g \in GroupsOf(payload, q)} : r = <<q, p, "truth_source">>
  BY Zenon DEF References
<1>2. \E a, b, c : /\ r = <<a, b, c>>
                   /\ c = "protected_primary" => a \in DOMAIN Inputs[payload] /\ b \in Inputs[payload][a].protected
  BY <1>1
<1> QED
  BY <1>2

(* A packet refers to the protected parents of its queries.               *)
LEMMA ProtectedReferred ==
  ASSUME NEW dirs, NEW payload, NEW q \in DOMAIN Inputs[payload], NEW p \in Inputs[payload][q].protected
  PROVE  <<q, p, "protected_primary">> \in References(dirs, payload)
<1> DEFINE all == UNION {{<<x, p1, "protected_primary">> : p1 \in Inputs[payload][x].protected}
                  \cup {<<x, p2, "truth_source">> : p2 \in UNION {Inputs[payload][x].groups[g] : g \in GroupsOf(payload, x)}} :
                     x \in DOMAIN Inputs[payload]}
<1>1. all \subseteq References(dirs, payload)
  BY Zenon DEF References
<1>2. <<q, p, "protected_primary">> \in {<<q, p1, "protected_primary">> : p1 \in Inputs[payload][q].protected}
  OBVIOUS
<1>3. <<q, p, "protected_primary">> \in all
  BY <1>2
<1> QED
  BY <1>1, <1>3

(* A candidate is of one query and has one id.                             *)
LEMMA CandidateIs ==
  ASSUME NEW prepared, PreparedOk(prepared), NEW c \in ReviewCandidates(prepared)
  PROVE  /\ \E p \in DOMAIN Bodies : c.id = <<c.query, Bodies[p]>>
         /\ "protected_primary" \in c.families =>
              c.query \in DOMAIN Inputs[prepared.queries]
              /\ \E p \in Protected(prepared, c.query) : p \in DOMAIN Bodies /\ c.id = <<c.query, Bodies[p]>>
<1> DEFINE dirs == prepared.dirs
           payload == prepared.queries
           cited == {r \in References(dirs, payload) : r[2] \in DOMAIN Bodies}
           id(r) == ReviewAttachmentID(r[1], r[2])
           candidate(r) == [id |-> id(r), query |-> r[1], families |-> {t[3] : t \in {u \in cited : id(u) = id(r)}}]
<1>1. ReviewCandidates(prepared) = {candidate(r) : r \in cited}
  BY ShownIs DEF CandidatesOf
<1>2. PICK r \in cited : c = candidate(r)
  BY <1>1
<1>3. c.id = <<r[1], Bodies[r[2]]>> /\ c.query = r[1] /\ c.families = {t[3] : t \in {u \in cited : id(u) = id(r)}}
  BY <1>2 DEF ReviewAttachmentID
<1>4. ASSUME "protected_primary" \in c.families
      PROVE  c.query \in DOMAIN Inputs[payload]
             /\ \E p \in Protected(prepared, c.query) : p \in DOMAIN Bodies /\ c.id = <<c.query, Bodies[p]>>
  <2>1. PICK u \in cited : id(u) = id(r) /\ u[3] = "protected_primary"
    BY <1>3, <1>4
  <2>2. u[1] \in DOMAIN Inputs[payload] /\ u[2] \in Inputs[payload][u[1]].protected
    BY <2>1, ReferencesAre
  <2>3. <<u[1], Bodies[u[2]]>> = <<r[1], Bodies[r[2]]>>
    BY <2>1 DEF ReviewAttachmentID
  <2>4. u[1] = r[1] /\ Bodies[u[2]] = Bodies[r[2]]
    BY <2>3
  <2> QED
    BY <1>3, <2>1, <2>2, <2>4 DEF Protected
<1> QED
  BY <1>3, <1>4

(* The protected primaries of a query are its protected parents' bodies.   *)
LEMMA ProtectedAre ==
  ASSUME NEW prepared, PreparedOk(prepared), NEW q \in DOMAIN Inputs[prepared.queries]
  PROVE  /\ Protected(prepared, q) \subseteq DOMAIN Bodies
         /\ ProtectedIDs(prepared, q) = {<<q, Bodies[p]>> : p \in Protected(prepared, q)}
<1> DEFINE dirs == prepared.dirs
           payload == prepared.queries
           cited == {r \in References(dirs, payload) : r[2] \in DOMAIN Bodies}
           id(r) == ReviewAttachmentID(r[1], r[2])
           candidate(r) == [id |-> id(r), query |-> r[1], families |-> {t[3] : t \in {u \in cited : id(u) = id(r)}}]
<1>1. ReviewCandidates(prepared) = {candidate(r) : r \in cited}
  BY ShownIs DEF CandidatesOf
<1>2. ASSUME NEW p \in Protected(prepared, q)
      PROVE  p \in DOMAIN Bodies /\ <<q, Bodies[p]>> \in ProtectedIDs(prepared, q)
  <2> DEFINE r == <<q, p, "protected_primary">>
  <2>1. r \in References(dirs, payload) /\ r[1] = q /\ r[2] = p /\ r[3] = "protected_primary"
    BY ProtectedReferred DEF Protected
  <2> HIDE DEF r
  <2>2. p \in DOMAIN Bodies
    BY <2>1 DEF PreparedOk
  <2>3. r \in cited /\ r[3] \in candidate(r).families /\ candidate(r).id = id(r) /\ candidate(r).query = q
    BY <2>1, <2>2
  <2>4. candidate(r) \in ReviewCandidates(prepared)
    BY <1>1, <2>3
  <2>5. id(r) = <<q, Bodies[p]>>
    BY <2>1 DEF ReviewAttachmentID
  <2> HIDE DEF candidate, id
  <2> QED
    BY <2>1, <2>2, <2>3, <2>4, <2>5 DEF ProtectedIDs, Of
<1>3. ASSUME NEW i \in ProtectedIDs(prepared, q)
      PROVE  \E p \in Protected(prepared, q) : i = <<q, Bodies[p]>>
  <2>1. PICK c \in ReviewCandidates(prepared) : c.query = q /\ "protected_primary" \in c.families /\ i = c.id
    BY DEF ProtectedIDs, Of
  <2> QED
    BY <2>1, CandidateIs
<1> QED
  BY <1>2, <1>3

(* A query has as many protected primaries as protected parents.           *)
LEMMA ProtectedCounted ==
  ASSUME NEW prepared, PreparedOk(prepared), ProtectedBodiesDiffer, NEW q \in DOMAIN Inputs[prepared.queries]
  PROVE  Cardinality(ProtectedIDs(prepared, q)) = ProtectedK
<1> DEFINE S == Protected(prepared, q)
           f == [p \in S |-> <<q, Bodies[p]>>]
<1>1. IsFiniteSet(S) /\ Cardinality(S) = ProtectedK
  BY ReviewAssumption DEF ReviewAssumption, PreparedOk, ValidateReviewQueries, Protected
<1>2. \A p, r \in S : f[p] = f[r] => p = r
  <2>1. \A p, r \in S : f[p] = f[r] => Bodies[p] = Bodies[r]
    OBVIOUS
  <2> QED
    BY <2>1, ProtectedAre DEF ProtectedBodiesDiffer, PreparedOk, Protected
<1>3. ProtectedIDs(prepared, q) = {f[p] : p \in S}
  BY ProtectedAre
<1>4. DOMAIN f = S /\ f = [p \in S |-> f[p]]
  OBVIOUS
<1> HIDE DEF f, S
<1>5. Cardinality({f[p] : p \in S}) = Cardinality(S)
  BY <1>1, <1>2, <1>4, Values
<1> QED
  BY <1>1, <1>3, <1>5

(* A protected primary's groups are those of its own query.                *)
LEMMA OwnGroups ==
  ASSUME NEW prepared, PreparedOk(prepared), NEW q \in DOMAIN Inputs[prepared.queries],
         NEW id \in ProtectedIDs(prepared, q)
  PROVE  /\ id \in CandidateIDs(prepared)
         /\ ReviewQueryTopologyGroupIDs(prepared, id) \subseteq GroupsOf(prepared.queries, q)
<1>1. PICK p \in Protected(prepared, q) : id = <<q, Bodies[p]>>
  BY ProtectedAre
<1>2. ASSUME NEW c \in ReviewCandidates(prepared), c.id = id
      PROVE  c.query = q
  <2>1. PICK r \in DOMAIN Bodies : c.id = <<c.query, Bodies[r]>>
    BY CandidateIs
  <2>2. <<q, Bodies[p]>> = <<c.query, Bodies[r]>>
    BY <1>1, <1>2, <2>1
  <2> QED
    BY <2>2
<1>3. ASSUME NEW r \in Relations(prepared)
      PROVE  r.id # id
  <2>1. r \in RelationsOf(prepared.dirs)
    BY ShownIs
  <2>2. \E a, b, c, d : r.id = <<a, b, c, d>>
    BY <2>1 DEF RelationsOf
  <2>3. Len(id) = 2 /\ Len(r.id) = 4
    BY <1>1, <2>2
  <2> QED
    BY <2>3
<1>4. {c.query : c \in {x \in ReviewCandidates(prepared) \cup Relations(prepared) : x.id = id}} \subseteq {q}
  BY <1>2, <1>3
<1>5. id \in CandidateIDs(prepared)
  BY DEF ProtectedIDs, CandidateIDs, Of
<1> QED
  BY <1>4, <1>5 DEF ReviewQueryTopologyGroupIDs

-----------------------------------------------------------------------------
(* The evaluation of the cells. *)

(* A series lists finitely many rows.                                      *)
LEMMA RowsFinite ==
  ASSUME NEW dirs \in Series, NEW field \in {"features", "hints", "closures"}
  PROVE  IsFiniteSet(All(dirs, field))
<1> DEFINE f == [d \in dirs |-> Completions[d][field]]
<1>1. dirs \in SUBSET DOMAIN Completions
  BY DEF Series
<1>2. IsFiniteSet(dirs)
  BY <1>1, ReviewAssumption, FS_Subset DEF ReviewAssumption
<1>3. \A d \in dirs : IsFiniteSet(f[d])
  <2> SUFFICES ASSUME NEW d \in dirs PROVE IsFiniteSet(Completions[d][field])
    OBVIOUS
  <2>1. Completions[d][field] \in SUBSET (Completions[d].features \cup Completions[d].hints \cup Completions[d].closures)
    OBVIOUS
  <2>2. IsFiniteSet(Completions[d].features \cup Completions[d].hints \cup Completions[d].closures)
    BY <1>1, ReviewAssumption DEF ReviewAssumption
  <2> QED
    BY <2>1, <2>2, FS_Subset
<1>4. DOMAIN f = dirs /\ f = [d \in dirs |-> f[d]] /\ All(dirs, field) = UNION {f[d] : d \in dirs}
  BY DEF All
<1> HIDE DEF f
<1>5. IsFiniteSet({f[d] : d \in dirs})
  BY <1>2, <1>4, Values
<1>6. IsFiniteSet(UNION {f[d] : d \in dirs})
  BY <1>3, <1>5, FS_UNION
<1> QED
  BY <1>4, <1>6

(* A cell emits finitely many candidates, over finitely many relations.    *)
LEMMA EmissionsFinite ==
  ASSUME NEW prepared, PreparedOk(prepared), NEW q, NEW cell
  PROVE  IsFiniteSet(EmissionIDs(prepared, q, cell)) /\ IsFiniteSet(EmissionRelations(prepared, q, cell))
<1> DEFINE dirs == prepared.dirs
           of(family, field) ==
             {[id |-> <<family, r.query, r.source, r.target>>, query |-> r.query, family |-> family,
               source |-> ReviewAttachmentID(r.query, r.source),
               target |-> ReviewAttachmentID(r.query, r.target)] : r \in All(dirs, field)}
<1>1. dirs \in Series
  BY DEF PreparedOk
<1>2. IsFiniteSet(All(dirs, "features")) /\ IsFiniteSet(All(dirs, "hints")) /\ IsFiniteSet(All(dirs, "closures"))
  BY <1>1, RowsFinite
<1>3. IsFiniteSet(EmissionIDs(prepared, q, cell))
  <2> DEFINE S == {x \in Of(Rows(dirs, cell), q) : WithinCell(x, cell)}
             f == [r \in S |-> ReviewAttachmentID(q, r.target)]
  <2>1. IsFiniteSet(Rows(dirs, cell)) /\ S \in SUBSET Rows(dirs, cell)
    BY <1>2 DEF Rows, Of
  <2>2. IsFiniteSet(S)
    BY <2>1, FS_Subset
  <2>3. DOMAIN f = S /\ f = [r \in S |-> f[r]] /\ EmissionIDs(prepared, q, cell) = {f[r] : r \in S}
    BY DEF EmissionIDs
  <2> HIDE DEF f, S
  <2> QED
    BY <2>2, <2>3, Values
<1>4. ASSUME NEW family, NEW field, IsFiniteSet(All(dirs, field))
      PROVE  IsFiniteSet(of(family, field))
  <2> DEFINE S == All(dirs, field)
             f == [r \in S |-> [id |-> <<family, r.query, r.source, r.target>>, query |-> r.query, family |-> family,
                                source |-> ReviewAttachmentID(r.query, r.source),
                                target |-> ReviewAttachmentID(r.query, r.target)]]
  <2>1. DOMAIN f = S /\ f = [r \in S |-> f[r]] /\ of(family, field) = {f[r] : r \in S}
    OBVIOUS
  <2> HIDE DEF f, S, of
  <2>2. IsFiniteSet(S)
    BY <1>4 DEF S
  <2> QED
    BY <2>1, <2>2, Values
<1>5. Relations(prepared) = of("semantic", "features") \cup of("hint", "hints") \cup of("closure", "closures")
  BY ShownIs DEF RelationsOf
<1>6. /\ IsFiniteSet(of("semantic", "features")) /\ IsFiniteSet(of("hint", "hints"))
      /\ IsFiniteSet(of("closure", "closures"))
  BY <1>2, <1>4
<1> HIDE DEF of
<1>7. IsFiniteSet(Relations(prepared))
  BY <1>5, <1>6, FS_Union
<1>8. EmissionRelations(prepared, q, cell) \in SUBSET Relations(prepared)
  BY DEF EmissionRelations
<1> QED
  BY <1>3, <1>7, <1>8, FS_Subset

OutcomeNames == {"HARD_NEGATIVE", "GRADE_2", "USEFUL", "SUPPORT", "NOISE"}

(* There are five outcomes.                                                *)
LEMMA NamesFinite == IsFiniteSet(OutcomeNames)
<1>1. OutcomeNames = {"HARD_NEGATIVE"} \cup {"GRADE_2"} \cup {"USEFUL"} \cup {"SUPPORT"} \cup {"NOISE"}
  BY DEF OutcomeNames
<1>2. \A x : IsFiniteSet({x})
  BY FS_Singleton
<1> QED
  BY <1>1, <1>2, FS_Union

(* Every parent and every delivery has one of the outcomes.                *)
LEMMA OutcomesAreNamed ==
  /\ \A label : ParentOutcome(label) \in OutcomeNames
  /\ \A parent, relation : DeliveryOutcome(parent, relation).is \in OutcomeNames
<1>1. \A label : ParentOutcome(label) \in OutcomeNames
  BY DEF ParentOutcome, OutcomeNames
<1>2. ASSUME NEW parent, NEW relation
      PROVE  DeliveryOutcome(parent, relation).is \in OutcomeNames
  BY DEF DeliveryOutcome, OutcomeNames
<1> QED
  BY <1>1, <1>2

(* The outcomes of finitely many things count them all.                    *)
LEMMA OutcomesTotal ==
  ASSUME NEW S, IsFiniteSet(S), NEW of, \A x \in S : of[x] \in OutcomeNames
  PROVE  Total(Outcomes(of, S)) = Cardinality(S)
<1> DEFINE f == [o \in OutcomeNames |-> Cardinality({x \in S : of[x] = o})]
<1>1. Outcomes(of, S) = f
  BY DEF Outcomes, OutcomeNames
<1>2. f = [o \in OutcomeNames |-> Cardinality({x \in S : of[x] = o})]
  OBVIOUS
<1> HIDE DEF f
<1>3. Total(f) = Cardinality(S)
  BY <1>2, NamesFinite, CountByKind
<1> QED
  BY <1>1, <1>3

(* What is complete is what the protected primaries cover and what is new. *)
LEMMA CompleteIsCoveredAndNew ==
  ASSUME NEW groups, IsFiniteSet(groups), NEW base, NEW added
  PROVE  /\ Cardinality((base \cup added) \cap groups)
              = Cardinality(base \cap groups) + NewGroupCount(added, groups, base)
         /\ Cardinality((base \cup added) \cap groups) <= Cardinality(groups)
<1> DEFINE A == base \cap groups
           B == (added \cap groups) \ base
           C == (base \cup added) \cap groups
<1>1. C = A \cup B /\ A \cap B = {} /\ A \in SUBSET groups /\ B \in SUBSET groups /\ C \in SUBSET groups
  OBVIOUS
<1>2. NewGroupCount(added, groups, base) = Cardinality(B)
  BY DEF NewGroupCount
<1> HIDE DEF A, B, C
<1>3. IsFiniteSet(A) /\ IsFiniteSet(B) /\ Cardinality(C) <= Cardinality(groups)
  BY <1>1, FS_Subset
<1>4. Cardinality(A \cup B) = Cardinality(A) + Cardinality(B) - Cardinality(A \cap B)
  BY <1>3, FS_Union
<1>5. Cardinality(A) \in Nat /\ Cardinality(B) \in Nat /\ Cardinality(A \cap B) = 0
  BY <1>1, <1>3, FS_CardinalityType, FS_EmptySet
<1>6. Cardinality(C) = Cardinality(A) + Cardinality(B)
  BY <1>1, <1>4, <1>5
<1> QED
  BY <1>2, <1>3, <1>6 DEF A, B, C

(* Every row of a cell satisfies its equations.                            *)
LEMMA RowBalances ==
  ASSUME NEW prepared, PreparedOk(prepared), ValidReviewPrelabelControls(prepared.prelabel, prepared),
         NEW labels, NEW q \in Traces(prepared.dirs), NEW cell \in Cells
  PROVE  DenominatorEquation(QueryCell(prepared, labels, q, cell))
<1> DEFINE row == QueryCell(prepared, labels, q, cell)
           control == ControlOf(prepared.prelabel, q, cell)
           base == Baseline(prepared, labels, q)
           parents == EmissionIDs(prepared, q, cell)
           relations == EmissionRelations(prepared, q, cell)
           parentAdded == Grade2Groups(labels, parents)
           delivered == [r \in relations |-> DeliveryOutcome(labels[r.target], labels[r.id])]
           deliveryAdded == UNION {delivered[r].groups : r \in relations}
           groups == GroupsOf(prepared.queries, q)
           ofParents == [p \in parents |-> ParentOutcome(labels[p])]
           ofDeliveries == [r \in relations |-> delivered[r].is]
<1>1. /\ row.cell = cell /\ row.control = control
      /\ row.groups = Cardinality(groups) /\ row.baseline = Cardinality(base \cap groups)
      /\ row.parents = Cardinality(parents) /\ row.deliveries = Cardinality(relations)
  BY DEF QueryCell
<1>2. /\ row.parentNew = NewGroupCount(parentAdded, groups, base)
      /\ row.parentComplete = Cardinality((base \cup parentAdded) \cap groups)
      /\ row.deliveryNew = NewGroupCount(deliveryAdded, groups, base)
      /\ row.deliveryComplete = Cardinality((base \cup deliveryAdded) \cap groups)
  BY DEF QueryCell
<1>3. /\ row.parentOutcomes = Outcomes(ofParents, parents)
      /\ row.deliveryOutcomes = Outcomes(ofDeliveries, relations)
  BY DEF QueryCell
<1>4. /\ control.emitted <= control.candidates /\ control.emitted <= cell.count
      /\ control.bytes <= cell.bytes
  BY DEF ValidReviewPrelabelControls, ValidReviewPolicyControl
<1>5. IsFiniteSet(parents) /\ IsFiniteSet(relations)
  BY EmissionsFinite
<1>6. q \in DOMAIN Inputs[prepared.queries] /\ prepared.queries \in DOMAIN Inputs
  BY DEF PreparedOk, ValidateReviewQueries
<1>7. IsFiniteSet(groups)
  BY <1>6, ReviewAssumption DEF ReviewAssumption, GroupsOf
<1>8. /\ \A p \in parents : ofParents[p] \in OutcomeNames
      /\ \A r \in relations : ofDeliveries[r] \in OutcomeNames
  BY OutcomesAreNamed
<1> HIDE DEF row, control, base, parents, relations, parentAdded, deliveryAdded, groups, ofParents, ofDeliveries
<1>9. /\ Total(Outcomes(ofParents, parents)) = Cardinality(parents)
      /\ Total(Outcomes(ofDeliveries, relations)) = Cardinality(relations)
  BY <1>5, <1>8, OutcomesTotal
<1>10. /\ row.parentComplete = row.baseline + row.parentNew /\ row.parentComplete <= row.groups
       /\ row.deliveryComplete = row.baseline + row.deliveryNew /\ row.deliveryComplete <= row.groups
  BY <1>1, <1>2, <1>7, CompleteIsCoveredAndNew
<1>11. row.parents = Total(row.parentOutcomes) /\ row.deliveries = Total(row.deliveryOutcomes)
  BY <1>1, <1>3, <1>9
<1>12. DenominatorEquation(row)
  BY <1>1, <1>4, <1>10, <1>11 DEF DenominatorEquation, Total, SumOf
<1> QED
  BY <1>12 DEF row

(* The global scope counts the rows of a cell and no other row.            *)
LEMMA GlobalAgrees ==
  ASSUME NEW prepared, PreparedOk(prepared), NEW labels
  PROVE  LET rows == EvaluateReviewPolicyCells(prepared, labels)
         IN  AggregatesAgree(rows, AggregateReviewPolicyCells(prepared, rows))
<1> DEFINE rows == EvaluateReviewPolicyCells(prepared, labels)
           global == <<"global", "all">>
           counted(scope, cell) == {r \in rows : r.cell = cell /\ scope \in ReviewPolicyScopes(prepared, r.query)}
           aggregate(scope, cell) == [scope |-> scope, cell |-> cell, totals |-> Totals(counted(scope, cell))]
<1>1. \A q : global \in ReviewPolicyScopes(prepared, q)
  BY Zenon DEF ReviewPolicyScopes
<1>2. PICK q : q \in Traces(prepared.dirs)
  <2>1. Cardinality(Traces(prepared.dirs)) = Contract.queries /\ Contract.queries # 0
    BY ReviewAssumption DEF ReviewAssumption, PreparedOk, Series, ImmutableSeries
  <2> QED
    BY <2>1, FS_EmptySet
<1> SUFFICES ASSUME NEW cell \in Cells
             PROVE  \E a \in AggregateReviewPolicyCells(prepared, rows) :
                       a.scope = global /\ a.cell = cell /\ a.totals = Totals({r \in rows : r.cell = cell})
  BY DEF AggregatesAgree
<1>3. QueryCell(prepared, labels, q, cell) \in rows
  BY <1>2 DEF EvaluateReviewPolicyCells
<1> HIDE DEF rows, global
<1>4. global \in UNION {ReviewPolicyScopes(prepared, r.query) : r \in rows}
  BY <1>1, <1>3
<1>5. AggregateReviewPolicyCells(prepared, rows)
        = {aggregate(scope, c) : c \in Cells, scope \in UNION {ReviewPolicyScopes(prepared, r.query) : r \in rows}}
  BY DEF AggregateReviewPolicyCells
<1>6. counted(global, cell) = {r \in rows : r.cell = cell}
  BY <1>1
<1> HIDE DEF counted
<1>7. aggregate(global, cell) \in AggregateReviewPolicyCells(prepared, rows)
  BY <1>4, <1>5
<1>8. /\ aggregate(global, cell).scope = global /\ aggregate(global, cell).cell = cell
      /\ aggregate(global, cell).totals = Totals({r \in rows : r.cell = cell})
  BY <1>6
<1> QED
  BY <1>7, <1>8

(* What the graders gave a query's protected primaries is about its groups.*)
LEMMA BaselineIsOwn ==
  ASSUME NEW prepared, PreparedOk(prepared), NEW base, LabelsGraded(base), base.prepared = prepared,
         CandidateIDs(prepared) \subseteq DOMAIN base.labels, NEW q \in DOMAIN Inputs[prepared.queries]
  PROVE  Baseline(prepared, base.labels, q) \subseteq GroupsOf(prepared.queries, q)
<1> SUFFICES ASSUME NEW id \in ProtectedIDs(prepared, q), base.labels[id].grade = 2
             PROVE  base.labels[id].groups \subseteq GroupsOf(prepared.queries, q)
  BY DEF Baseline, Grade2Groups
<1>1. id \in DOMAIN base.labels /\ ReviewQueryTopologyGroupIDs(prepared, id) \subseteq GroupsOf(prepared.queries, q)
  BY OwnGroups
<1>2. base.labels[id].groups \subseteq ReviewQueryTopologyGroupIDs(prepared, id)
  BY <1>1 DEF LabelsGraded
<1> QED
  BY <1>1, <1>2

(* Together: no equation of the evaluation can fail.                       *)
LEMMA FrozenEvaluates ==
  ASSUME IInv, ProtectedBodiesDiffer, ReadReviewPrepared, ValidatedReviewFrozenLabels
  PROVE  EvaluationAccepts(files["prepared"], files["frozen"].base.labels)
<1> DEFINE prepared == files["prepared"]
           base == files["frozen"].base
           labels == base.labels
<1>1. PreparedOk(prepared) /\ ValidReviewPrelabelControls(prepared.prelabel, prepared)
  BY FileNamesAre DEF ReadReviewPrepared, IInv, Filed, Contents, Names
<1>2. LabelsGraded(base) /\ base.prepared = prepared /\ CandidateIDs(prepared) \subseteq DOMAIN labels
  BY FileNamesAre DEF ValidatedReviewFrozenLabels, IInv, Filed, Contents, Names, FrozenOk
<1> HIDE DEF prepared, base
<1>3. Traces(prepared.dirs) = DOMAIN Inputs[prepared.queries]
  BY <1>1 DEF PreparedOk, ValidateReviewQueries
<1>4. \A q \in Traces(prepared.dirs) :
        /\ Cardinality(ProtectedIDs(prepared, q)) = ProtectedK
        /\ Baseline(prepared, labels, q) \subseteq GroupsOf(prepared.queries, q)
  BY <1>1, <1>2, <1>3, ProtectedCounted, BaselineIsOwn
<1> HIDE DEF labels
<1>5. \A row \in EvaluateReviewPolicyCells(prepared, labels) : DenominatorEquation(row)
  BY <1>1, RowBalances DEF EvaluateReviewPolicyCells
<1>6. LET rows == EvaluateReviewPolicyCells(prepared, labels)
      IN  AggregatesAgree(rows, AggregateReviewPolicyCells(prepared, rows))
  BY <1>1, GlobalAgrees
<1>7. EvaluationAccepts(prepared, labels)
  BY <1>4, <1>5, <1>6 DEF EvaluationAccepts
<1> QED
  BY <1>7 DEF prepared, labels, base

(* Labels validly frozen for the packet on disk can be evaluated, unless   *)
(* two protected parents of one query share a body: preparing accepts such *)
(* a request, and only the evaluation refuses it.                          *)
THEOREM LabelsEvaluate == ProtectedBodiesDiffer => (ReviewSpec => []FrozenLabelsEvaluate)
<1> SUFFICES ASSUME ProtectedBodiesDiffer PROVE ReviewSpec => []FrozenLabelsEvaluate
  OBVIOUS
<1>1. IInv => FrozenLabelsEvaluate
  BY FrozenEvaluates DEF FrozenLabelsEvaluate
<1> QED
  BY <1>1, Invariance, PTL

-----------------------------------------------------------------------------
(* The diagnostics: numbers, fractions and the components of a key.        *)
Positive == Nat \ {0}

(* Multiplying by a positive number keeps an order of numbers, both ways.  *)
LEMMA MoreTimes ==
  ASSUME NEW x \in Int, NEW y \in Int, NEW k \in Positive
  PROVE  /\ x * k \in Int /\ y * k \in Int
         /\ x < y <=> x * k < y * k
         /\ x = y <=> x * k = y * k
  BY DEF Positive

(* Crosswise products compare fractions.                                   *)
LEMMA Fractions ==
  ASSUME NEW a \in Int, NEW b \in Positive, NEW c \in Int, NEW d \in Positive,
         NEW e \in Int, NEW f \in Positive, a * d >= c * b, c * f >= e * d
  PROVE  /\ a * f >= e * b
         /\ a * d > c * b \/ c * f > e * d => a * f > e * b
<1> USE DEF Positive
<1>1. /\ a * d \in Int /\ c * b \in Int /\ c * f \in Int /\ e * d \in Int
      /\ a * f \in Int /\ e * b \in Int
  OBVIOUS
<1>2. /\ (a * d) * f = (a * f) * d /\ (c * b) * f = (c * f) * b /\ (e * d) * b = (e * b) * d
  OBVIOUS
<1>3. /\ (a * d) * f >= (c * b) * f /\ (a * d > c * b => (a * d) * f > (c * b) * f)
      /\ (c * f) * b >= (e * d) * b /\ (c * f > e * d => (c * f) * b > (e * d) * b)
  <2> HIDE DEF Positive
  <2>1. \A x, y \in Int, k \in Positive : (x >= y => x * k >= y * k) /\ (x > y => x * k > y * k)
    BY MoreTimes
  <2> QED
    BY <1>1, <2>1
<1>4. /\ (a * f) * d >= (e * b) * d
      /\ a * d > c * b \/ c * f > e * d => (a * f) * d > (e * b) * d
  BY <1>1, <1>2, <1>3
<1>5. \A x, y \in Int : (x * d >= y * d => x >= y) /\ (x * d > y * d => x > y)
  BY MoreTimes
<1> QED
  BY <1>1, <1>4, <1>5

Components ==
  [order : {"asc", "desc"}, value : Int] \cup [order : {"desc_rational"}, value : Int \X Positive]

(* Components of one order: Better is a strict weak order of them.         *)
WeaklyOrdered(a, b, c) ==
  /\ ~Better(a, a)
  /\ Better(a, b) => ~Better(b, a)
  /\ Better(a, b) /\ Better(b, c) => Better(a, c)
  /\ Level(a, b) /\ Better(b, c) => Better(a, c)
  /\ Better(a, b) /\ Level(b, c) => Better(a, c)
  /\ Level(a, b) /\ Level(b, c) => Level(a, c)

(* Components of one order are weakly ordered, fractions too.              *)
LEMMA ComponentOrder ==
  ASSUME NEW a \in Components, NEW b \in Components, NEW c \in Components,
         a.order = b.order, b.order = c.order
  PROVE  WeaklyOrdered(a, b, c)
<1>1. CASE a.order \in {"asc", "desc"}
  <2>1. a.value \in Int /\ b.value \in Int /\ c.value \in Int
    BY <1>1 DEF Components
  <2> QED
    BY <1>1, <2>1 DEF WeaklyOrdered, Better, Level
<1>2. CASE a.order = "desc_rational"
  <2>1. /\ a.value \in Int \X Positive /\ b.value \in Int \X Positive /\ c.value \in Int \X Positive
    BY <1>2 DEF Components
  <2> DEFINE above(v, w) == v.value[1] * w.value[2] > w.value[1] * v.value[2]
  <2>2. \A v, w \in {a, b, c} : Better(v, w) <=> above(v, w)
    BY <1>2 DEF Better
  <2>3. ASSUME NEW v \in {a, b, c}, NEW w \in {a, b, c}
        PROVE  v.value[1] * w.value[2] \in Int /\ w.value[1] * v.value[2] \in Int
    BY <2>1 DEF Positive
  <2>4. \A v, w \in {a, b, c} : ~above(w, v) <=> v.value[1] * w.value[2] >= w.value[1] * v.value[2]
    BY <2>3
  <2>5. /\ ~above(b, a) /\ ~above(c, b) => ~above(c, a)
        /\ ~above(b, a) /\ ~above(c, b) /\ (above(a, b) \/ above(b, c)) => above(a, c)
    <3>1. /\ a.value[1] \in Int /\ a.value[2] \in Positive /\ b.value[1] \in Int /\ b.value[2] \in Positive
          /\ c.value[1] \in Int /\ c.value[2] \in Positive
      BY <2>1
    <3> QED
      BY <2>4, <3>1, Fractions
  <2>6. /\ ~above(b, c) /\ ~above(a, b) => ~above(a, c)
    <3>1. /\ a.value[1] \in Int /\ a.value[2] \in Positive /\ b.value[1] \in Int /\ b.value[2] \in Positive
          /\ c.value[1] \in Int /\ c.value[2] \in Positive
      BY <2>1
    <3> QED
      BY <2>4, <3>1, Fractions
  <2>7. ~above(a, a) /\ (above(a, b) => ~above(b, a)) /\ (above(b, c) => ~above(c, b))
    BY <2>3
  <2> HIDE DEF above
  <2> QED
    BY <2>2, <2>5, <2>6, <2>7 DEF WeaklyOrdered, Level
<1> QED
  BY <1>1, <1>2 DEF Components

-----------------------------------------------------------------------------
(* Keys of one shape, no two of which are level throughout.                *)
Keyed(S, key, n) ==
  /\ n \in Nat
  /\ \A x \in S : Len(key[x]) = n
  /\ \A x \in S, i \in 1..n : key[x][i] \in Components
  /\ \A x, y \in S, i \in 1..n : key[x][i].order = key[y][i].order
  /\ \A x, y \in S : (\A i \in 1..n : Level(key[x][i], key[y][i])) => x = y

Behind(S, key) == [x \in S |-> {y \in S : KeyLess(key[y], key[x])}]

Precedes(k, l, n) == \E i \in 1..n : Better(k[i], l[i]) /\ \A j \in 1..(i - 1) : Level(k[j], l[j])

(* Such keys put the elements in one strict order: the first components    *)
(* that are not level decide.                                              *)
LEMMA KeysOrder ==
  ASSUME NEW S, NEW key, NEW n, Keyed(S, key, n)
  PROVE  /\ LinearOn(S, Behind(S, key))
         /\ \A x, y \in S : KeyLess(key[x], key[y]) <=> Precedes(key[x], key[y], n)
<1>1. \A x, y \in S : KeyLess(key[x], key[y]) <=> Precedes(key[x], key[y], n)
  BY DEF Keyed, KeyLess, Precedes
<1>2. \A x, y \in S : x \in Behind(S, key)[y] <=> Precedes(key[x], key[y], n)
  BY <1>1 DEF Behind
<1>3. \A x, y, z \in S, i \in 1..n : WeaklyOrdered(key[x][i], key[y][i], key[z][i])
  BY ComponentOrder, SMTT(30) DEF Keyed
<1>4. \A x \in S : ~Precedes(key[x], key[x], n)
  BY <1>3 DEF Precedes, WeaklyOrdered
<1>5. ASSUME NEW x \in S, NEW y \in S, x # y
      PROVE  Precedes(key[x], key[y], n) \/ Precedes(key[y], key[x], n)
  <2> DEFINE T == {i \in 1..n : ~Level(key[x][i], key[y][i])}
  <2>1. T \in SUBSET Nat /\ T # {}
    BY <1>5 DEF Keyed
  <2> HIDE DEF T
  <2>2. PICK i \in T : \A j \in T : i <= j
    BY <2>1, LeastNumber
  <2>3. i \in 1..n /\ ~Level(key[x][i], key[y][i])
    BY DEF T
  <2>4. \A j \in 1..(i - 1) : j \in 1..n /\ ~(i <= j)
    BY <2>3 DEF Keyed
  <2>5. \A j \in 1..(i - 1) : Level(key[x][j], key[y][j])
    BY <2>2, <2>4 DEF T
  <2>6. \A j \in 1..(i - 1) : Level(key[y][j], key[x][j])
    BY <2>5 DEF Level
  <2> QED
    BY <2>3, <2>5, <2>6 DEF Precedes, Level
<1>6. ASSUME NEW x \in S, NEW y \in S, NEW z \in S,
             Precedes(key[x], key[y], n), Precedes(key[y], key[z], n)
      PROVE  Precedes(key[x], key[z], n)
  <2>1. PICK i \in 1..n : Better(key[x][i], key[y][i]) /\ \A j \in 1..(i - 1) : Level(key[x][j], key[y][j])
    BY <1>6 DEF Precedes
  <2>2. PICK k \in 1..n : Better(key[y][k], key[z][k]) /\ \A j \in 1..(k - 1) : Level(key[y][j], key[z][j])
    BY <1>6 DEF Precedes
  <2>3. ASSUME NEW m \in 1..n, m <= i, m <= k,
               Better(key[x][m], key[y][m]) \/ Better(key[y][m], key[z][m]), m = i \/ m = k
        PROVE  Precedes(key[x], key[z], n)
    <3>1. \A j \in 1..(m - 1) : j \in 1..n /\ j \in 1..(i - 1) /\ j \in 1..(k - 1)
      BY <2>3 DEF Keyed
    <3>2. \A j \in 1..(m - 1) : Level(key[x][j], key[z][j])
      BY <1>3, <2>1, <2>2, <3>1 DEF WeaklyOrdered
    <3>3. Better(key[x][m], key[y][m]) \/ Level(key[x][m], key[y][m])
      <4>1. m = i \/ m \in 1..(i - 1)
        BY <2>3
      <4> QED
        BY <2>1, <4>1
    <3>4. Better(key[y][m], key[z][m]) \/ Level(key[y][m], key[z][m])
      <4>1. m = k \/ m \in 1..(k - 1)
        BY <2>3
      <4> QED
        BY <2>2, <4>1
    <3>5. Better(key[x][m], key[z][m])
      BY <1>3, <2>3, <3>3, <3>4 DEF WeaklyOrdered
    <3> QED
      BY <3>2, <3>5 DEF Precedes
  <2>4. i <= k \/ k <= i
    OBVIOUS
  <2> QED
    BY <2>1, <2>2, <2>3, <2>4
<1>7. Behind(S, key) \in [S -> SUBSET S]
  BY DEF Behind
<1> QED
  BY <1>1, <1>2, <1>4, <1>5, <1>6, <1>7 DEF LinearOn

-----------------------------------------------------------------------------
(* Sorting and cutting a finite set in a strict linear order.              *)
LEMMA OneIsLeast ==
  ASSUME NEW S, IsFiniteSet(S), S # {}, NEW behind, LinearOn(S, behind)
  PROVE  \E x \in S : behind[x] = {} /\ \A y \in S \ {x} : x \in behind[y]
<1>1. Cardinality(S) \in Nat /\ Cardinality(S) # 0
  BY FS_EmptySet, FS_CardinalityType
<1>2. 0 \in 0..(Cardinality(S) - 1)
  BY <1>1
<1>3. PICK x \in S : Cardinality(behind[x]) = 0
  BY <1>2, PlacesTaken
<1>4. behind[x] = {}
  BY <1>3, PlacesDiffer, FS_EmptySet
<1> QED
  BY <1>4 DEF LinearOn

(* Cutting after the first n leaves at most n.                             *)
LEMMA FirstFew ==
  ASSUME NEW S, IsFiniteSet(S), NEW behind, LinearOn(S, behind), NEW n \in Nat
  PROVE  LET T == {x \in S : Cardinality(behind[x]) < n}
         IN IsFiniteSet(T) /\ Cardinality(T) \in Nat /\ Cardinality(T) <= n
<1> DEFINE T == {x \in S : Cardinality(behind[x]) < n}
           f == [x \in T |-> Cardinality(behind[x])]
<1>1. IsFiniteSet(T) /\ Cardinality(T) \in Nat
  BY FS_Subset, FS_CardinalityType
<1>2. \A x, y \in T : f[x] = f[y] => x = y
  BY PlacesDiffer
<1>3. {f[x] : x \in T} \subseteq 0..(n - 1)
  BY PlacesDiffer
<1>4. DOMAIN f = T /\ f = [x \in T |-> f[x]]
  OBVIOUS
<1> HIDE DEF f, T
<1>5. Cardinality({f[x] : x \in T}) = Cardinality(T)
  BY <1>1, <1>2, <1>4, Values, SMTT(30)
<1>6. IsFiniteSet(0..(n - 1)) /\ Cardinality(0..(n - 1)) = n
  BY FS_Interval
<1>7. Cardinality({f[x] : x \in T}) <= n
  BY <1>3, <1>6, FS_Subset
<1> QED
  BY <1>1, <1>5, <1>7 DEF T

-----------------------------------------------------------------------------
(* Keys put together.                                                      *)
Shaped(S, key, n) ==
  /\ n \in Nat
  /\ \A x \in S : Len(key[x]) = n /\ key[x] \in Seq(Components)
  /\ \A x \in S, i \in 1..n : key[x][i] \in Components
  /\ \A x, y \in S, i \in 1..n : key[x][i].order = key[y][i].order

AllLevel(k, l, n) == \A i \in 1..n : Level(k[i], l[i])

PutTogether(S, key, first, second) == \A x \in S : key[x] = first[x] \o second[x]

(* Two elements are level in a key when they are in both parts.            *)
LevelInBoth(S, key, first, m, second, n) ==
  \A x, y \in S : AllLevel(key[x], key[y], m + n)
    => AllLevel(first[x], first[y], m) /\ AllLevel(second[x], second[y], n)

(* Keys of one shape, one appended to the other, are of one shape.         *)
LEMMA KeysJoined ==
  ASSUME NEW S, NEW first, NEW second, NEW m, NEW n, Shaped(S, first, m), Shaped(S, second, n),
         NEW key, PutTogether(S, key, first, second)
  PROVE  /\ Shaped(S, key, m + n)
         /\ LevelInBoth(S, key, first, m, second, n)
<1>1. m \in Nat /\ n \in Nat /\ m + n \in Nat
  BY DEF Shaped
<1>2. ASSUME NEW x \in S
      PROVE  /\ key[x] \in Seq(Components) /\ Len(key[x]) = m + n
             /\ \A i \in 1..(m + n) : key[x][i] = IF i <= m THEN first[x][i] ELSE second[x][i - m]
  <2>1. first[x] \in Seq(Components) /\ second[x] \in Seq(Components) /\ Len(first[x]) = m /\ Len(second[x]) = n
    BY DEF Shaped
  <2>2. /\ first[x] \o second[x] \in Seq(Components)
        /\ Len(first[x] \o second[x]) = m + n
        /\ \A i \in 1..(m + n) : (first[x] \o second[x])[i] = IF i <= m THEN first[x][i] ELSE second[x][i - m]
    BY <2>1, ConcatProperties
  <2> QED
    BY <2>2 DEF PutTogether
<1>3. \A i \in 1..(m + n) : (i <= m /\ i \in 1..m) \/ (~(i <= m) /\ i - m \in 1..n)
  BY <1>1
<1>4. \A i \in 1..m : i \in 1..(m + n) /\ i <= m
  BY <1>1
<1>5. \A i \in 1..n : i + m \in 1..(m + n) /\ ~(i + m <= m) /\ (i + m) - m = i
  BY <1>1
<1>6. Shaped(S, key, m + n)
  <2>1. \A x \in S, i \in 1..(m + n) : key[x][i] \in Components
    BY <1>2, <1>3 DEF Shaped
  <2>2. \A x, y \in S, i \in 1..(m + n) : key[x][i].order = key[y][i].order
    <3> TAKE x, y \in S, i \in 1..(m + n)
    <3>1. CASE i <= m
      <4>1. key[x][i] = first[x][i] /\ key[y][i] = first[y][i] /\ i \in 1..m
        BY <1>2, <1>3, <3>1
      <4> QED
        BY <4>1 DEF Shaped
    <3>2. CASE ~(i <= m)
      <4>1. key[x][i] = second[x][i - m] /\ key[y][i] = second[y][i - m] /\ i - m \in 1..n
        BY <1>2, <1>3, <3>2
      <4> QED
        BY <4>1 DEF Shaped
    <3> QED
      BY <3>1, <3>2
  <2> QED
    BY <1>1, <1>2, <2>1, <2>2 DEF Shaped
<1>7. ASSUME NEW x \in S, NEW y \in S, AllLevel(key[x], key[y], m + n)
      PROVE  AllLevel(first[x], first[y], m) /\ AllLevel(second[x], second[y], n)
  <2>1. \A i \in 1..m : key[x][i] = first[x][i] /\ key[y][i] = first[y][i]
    BY <1>2, <1>4
  <2>2. \A i \in 1..n : key[x][i + m] = second[x][i] /\ key[y][i + m] = second[y][i]
    BY <1>2, <1>5
  <2> QED
    BY <1>4, <1>5, <1>7, <2>1, <2>2 DEF AllLevel
<1> QED
  BY <1>6, <1>7 DEF LevelInBoth

(* Keys of one shape that tell elements apart put them in order.           *)
LEMMA ShapedKeyed ==
  ASSUME NEW S, NEW key, NEW n, Shaped(S, key, n),
         \A x, y \in S : AllLevel(key[x], key[y], n) => x = y
  PROVE  Keyed(S, key, n)
  BY DEF Shaped, Keyed, AllLevel

(* Each kind of component is one.                                          *)
LEMMA ComponentsAre ==
  /\ \A v \in Int : Asc(v) \in Components /\ Asc(v).order = "asc" /\ Asc(v).value = v
  /\ \A v \in Int : Desc(v) \in Components /\ Desc(v).order = "desc" /\ Desc(v).value = v
  /\ \A v \in Int, w \in Positive : Ratio(v, w) \in Components /\ Ratio(v, w).order = "desc_rational"
  BY DEF Asc, Desc, Ratio, Components

(* Level numbers are equal.                                                *)
LEMMA LevelAsc ==
  \A v, w \in Int : (Level(Asc(v), Asc(w)) => v = w) /\ (Level(Desc(v), Desc(w)) => v = w)
  BY DEF Asc, Desc, Level, Better

EdgeOk(e) ==
  /\ e.source \in Int /\ e.target \in Int /\ e.source # e.target
  /\ e = [source |-> e.source, target |-> e.target, kind |-> e.kind, tier |-> e.tier]
  /\ \/ e.tier \in {0, 2} /\ e.kind = "TYPE_REF"
     \/ e.tier = 1 /\ e.kind = "CALLS"
     \/ e.tier = 3 /\ e.kind = "MEMBER_OF"

(* The edge of a resolved occurrence between two parents has its tier, and *)
(* its kind with the tier.                                                 *)
LEMMA EdgeIs ==
  ASSUME NEW o, Resolved(o), o.source # o.target
  PROVE  EdgeOk(Edge(o)) /\ Edge(o).source = o.source /\ Edge(o).target = o.target
<1>1. \/ StructuralTier(o) \in {0, 2} /\ o.kind = "TYPE_REF"
      \/ StructuralTier(o) = 1 /\ o.kind = "CALLS"
      \/ StructuralTier(o) = 3 /\ o.kind = "MEMBER_OF"
  <2>1. CASE o.kind = "CALLS"
    BY <2>1 DEF StructuralTier
  <2>2. CASE o.kind = "MEMBER_OF"
    BY <2>2 DEF StructuralTier
  <2>3. CASE o.kind = "TYPE_REF" /\ o.zone \in {"SIGNATURE", "TYPE_BODY"}
    BY <2>3 DEF StructuralTier
  <2>4. CASE o.kind = "TYPE_REF" /\ o.zone \in {"BODY", "INITIALIZER"}
    BY <2>4 DEF StructuralTier
  <2> QED
    BY <2>1, <2>2, <2>3, <2>4 DEF Resolved, Kinds, Zones
<1> HIDE DEF StructuralTier
<1> QED
  BY <1>1 DEF Edge, EdgeOk, Resolved

-----------------------------------------------------------------------------
(* A set of occurrences with unique ids has a first one.                   *)
LEMMA OccurrencesInOrder ==
  ASSUME NEW S, IsFiniteSet(S), S # {}, \A o \in S : Resolved(o),
         \A o, p \in S : o.id = p.id => o = p
  PROVE  Least(S, LessBestOccurrence) \in S
<1> DEFINE key == [o \in S |-> OccurrenceKey(o)]
<1>1. \A o \in S : key[o] = <<Asc(o.ordinal), Asc(o.byte), Asc(o.id)>>
  BY DEF OccurrenceKey
<1>2. \A o \in S : /\ Asc(o.ordinal) \in Components /\ Asc(o.byte) \in Components /\ Asc(o.id) \in Components
                   /\ Asc(o.ordinal).order = "asc" /\ Asc(o.byte).order = "asc" /\ Asc(o.id).order = "asc"
  BY ComponentsAre DEF Resolved
<1> HIDE DEF key
<1>3. \A o \in S : /\ key[o] \in Seq(Components) /\ Len(key[o]) = 3
                   /\ key[o][1] = Asc(o.ordinal) /\ key[o][2] = Asc(o.byte) /\ key[o][3] = Asc(o.id)
  <2> TAKE o \in S
  <2>1. Asc(o.ordinal) \in Components /\ Asc(o.byte) \in Components /\ Asc(o.id) \in Components
    BY <1>2
  <2>2. key[o] = <<Asc(o.ordinal), Asc(o.byte), Asc(o.id)>>
    BY <1>1
  <2> QED
    BY <2>1, <2>2
<1>4. \A i \in 1..3 : i = 1 \/ i = 2 \/ i = 3
  OBVIOUS
<1>5. Shaped(S, key, 3)
  BY <1>2, <1>3, <1>4 DEF Shaped
<1>6. \A o, p \in S : AllLevel(key[o], key[p], 3) => o = p
  <2> TAKE o, p \in S
  <2> HAVE AllLevel(key[o], key[p], 3)
  <2>1. 3 \in 1..3
    OBVIOUS
  <2>2. Level(Asc(o.id), Asc(p.id))
    BY <1>3, <2>1 DEF AllLevel
  <2> QED
    BY <2>2, LevelAsc DEF Resolved
<1>7. LinearOn(S, Behind(S, key))
  BY <1>5, <1>6, ShapedKeyed, KeysOrder
<1>8. PICK x \in S : Behind(S, key)[x] = {} /\ \A y \in S \ {x} : x \in Behind(S, key)[y]
  BY <1>7, OneIsLeast
<1>9. \A y \in S : ~LessBestOccurrence(y, x)
  BY <1>8 DEF Behind, LessBestOccurrence, key
<1> QED
  BY <1>9 DEF Least

-----------------------------------------------------------------------------
StatsOk(s) ==
  /\ EdgeOk(s.edge)
  /\ s.occurrences \in Positive /\ s.sourceOccurrences \in Positive
  /\ s.targetOccurrences \in Nat /\ s.sourceTargets \in Nat /\ s.targetSources \in Nat
  /\ s.best.ordinal \in Int /\ s.best.byte \in Int /\ s.best.id \in Int

(* Sources and targets can be counted.                                     *)
LEMMA ImageSize ==
  ASSUME NEW S, IsFiniteSet(S)
  PROVE  Cardinality(Sources(S)) \in Nat /\ Cardinality(Targets(S)) \in Nat
<1> DEFINE f == [o \in S |-> o.source]
           g == [o \in S |-> o.target]
<1>1. Sources(S) = {f[o] : o \in S} /\ Targets(S) = {g[o] : o \in S}
  BY DEF Sources, Targets
<1>2. DOMAIN f = S /\ f = [o \in S |-> f[o]] /\ DOMAIN g = S /\ g = [o \in S |-> g[o]]
  OBVIOUS
<1> HIDE DEF f, g
<1>3. IsFiniteSet({f[o] : o \in S}) /\ IsFiniteSet({g[o] : o \in S})
  BY <1>2, Values
<1> QED
  BY <1>1, <1>3, FS_CardinalityType

(* The statistics of an edge of the graph are those of its own             *)
(* occurrences, of which there is one at least.                            *)
LEMMA StatsAre ==
  ASSUME NEW graph, ResolvedGraph(graph), NEW o \in graph, o.source # o.target
  PROVE  /\ Edge(o) \in DOMAIN CompleteGraphEdgeStats(graph)
         /\ CompleteGraphEdgeStats(graph)[Edge(o)].edge = Edge(o)
         /\ StatsOk(CompleteGraphEdgeStats(graph)[Edge(o)])
<1> DEFINE e == Edge(o)
           tier == {p \in graph : p.source # p.target /\ p.kind = e.kind /\ StructuralTier(p) = e.tier}
           from == {p \in tier : p.source = e.source}
           into == {p \in tier : p.target = e.target}
           edge == from \cap into
           s == EdgeStats(graph, e)
<1>1. Edge(o) \in DOMAIN CompleteGraphEdgeStats(graph) /\ CompleteGraphEdgeStats(graph)[e] = s
  BY DEF CompleteGraphEdgeStats
<1>2. e.source = o.source /\ e.target = o.target /\ e.kind = o.kind /\ e.tier = StructuralTier(o)
  BY DEF Edge
<1>3. /\ s.edge = e /\ s.occurrences = Cardinality(edge) /\ s.best = Least(edge, LessBestOccurrence)
      /\ s.sourceOccurrences = Cardinality(from) /\ s.sourceTargets = Cardinality(Targets(from))
      /\ s.targetOccurrences = Cardinality(into) /\ s.targetSources = Cardinality(Sources(into))
  BY DEF EdgeStats
<1>4. o \in edge /\ o \in from /\ edge \subseteq graph /\ from \subseteq graph /\ into \subseteq graph
  BY <1>2
<1> HIDE DEF s, e, edge, from, into, tier
<1>5. IsFiniteSet(edge) /\ IsFiniteSet(from) /\ IsFiniteSet(into)
  BY <1>4, FS_Subset DEF ResolvedGraph
<1>6. /\ Cardinality(edge) \in Nat /\ Cardinality(from) \in Nat /\ Cardinality(into) \in Nat
      /\ Cardinality(edge) # 0 /\ Cardinality(from) # 0
  <2>1. edge # {} /\ from # {}
    BY <1>4
  <2> QED
    BY <2>1, <1>5, FS_CardinalityType, FS_EmptySet
<1>7. Cardinality(Targets(from)) \in Nat /\ Cardinality(Sources(into)) \in Nat
  BY <1>5, ImageSize
<1>8. Least(edge, LessBestOccurrence) \in edge
  <2>1. edge # {} /\ \A p \in edge : Resolved(p)
    BY <1>4 DEF ResolvedGraph
  <2>2. \A p, q \in edge : p.id = q.id => p = q
    BY <1>4 DEF ResolvedGraph
  <2> QED
    BY <1>5, <2>1, <2>2, OccurrencesInOrder
<1>9. Resolved(s.best)
  BY <1>3, <1>4, <1>8 DEF ResolvedGraph
<1>10. EdgeOk(e)
  BY EdgeIs DEF ResolvedGraph, e
<1>11. StatsOk(s)
  BY <1>3, <1>6, <1>7, <1>9, <1>10 DEF StatsOk, Resolved, Positive
<1> QED
  BY <1>1, <1>3, <1>11 DEF e

View(anchor, endpoint, direction, edge, query, anchors, stats, hits, policy) ==
  LET c == [anchor |-> anchor, endpoint |-> endpoint, direction |-> direction,
            ordinal |-> AnchorOrdinal(anchors, anchor), mismatch |-> Mismatch(query.direction # direction),
            stats |-> stats[edge], tuple |-> <<>>]
  IN [c EXCEPT !.tuple = AnchorRankingTuple(c, hits, policy)]

(* A candidate is an edge as one of the anchors sees it.                   *)
Seen(c) ==
  LET e == c.stats.edge
  IN \/ c.direction = "FORWARD" /\ c.anchor = e.source /\ c.endpoint = e.target
     \/ c.direction = "REVERSE" /\ c.anchor = e.target /\ c.endpoint = e.source

CandidateOk(c, graph, query, anchors, hits, policy) ==
  /\ StatsOk(c.stats) /\ Seen(c)
  /\ c.ordinal \in DOMAIN anchors /\ anchors[c.ordinal] = c.anchor
  /\ c.mismatch \in {0, 1}
  /\ c.tuple = AnchorRankingTuple(c, hits, policy)
  /\ c = View(c.anchor, c.endpoint, c.direction, c.stats.edge, query, anchors,
              CompleteGraphEdgeStats(graph), hits, policy)

Anchored(anchors) == {anchors[i] : i \in 1..Len(anchors)}

AllCandidates(graph, query, anchors, hits, policy) ==
  Candidates(ReachableFacts(graph, Anchored(anchors)), query, anchors, CompleteGraphEdgeStats(graph), hits, policy)

(* The fields of a candidate.                                              *)
LEMMA ViewIs ==
  ASSUME NEW anchor, NEW endpoint, NEW direction, NEW edge, NEW query, NEW anchors, NEW stats, NEW hits, NEW policy
  PROVE  LET c == View(anchor, endpoint, direction, edge, query, anchors, stats, hits, policy)
         IN /\ c.anchor = anchor /\ c.endpoint = endpoint /\ c.direction = direction
            /\ c.ordinal = AnchorOrdinal(anchors, anchor) /\ c.mismatch \in {0, 1}
            /\ c.stats = stats[edge]
            /\ c.tuple = AnchorRankingTuple(c, hits, policy)
<1> DEFINE c == [anchor |-> anchor, endpoint |-> endpoint, direction |-> direction,
                 ordinal |-> AnchorOrdinal(anchors, anchor), mismatch |-> Mismatch(query.direction # direction),
                 stats |-> stats[edge], tuple |-> <<>>]
           v == View(anchor, endpoint, direction, edge, query, anchors, stats, hits, policy)
<1>1. v = [c EXCEPT !.tuple = AnchorRankingTuple(c, hits, policy)]
  BY DEF View
<1>2. /\ c.anchor = anchor /\ c.endpoint = endpoint /\ c.direction = direction
      /\ c.ordinal = AnchorOrdinal(anchors, anchor) /\ c.mismatch = Mismatch(query.direction # direction)
      /\ c.stats = stats[edge]
  OBVIOUS
<1>3. /\ v.anchor = anchor /\ v.endpoint = endpoint /\ v.direction = direction
      /\ v.ordinal = c.ordinal /\ v.mismatch = c.mismatch /\ v.stats = c.stats
      /\ v.tuple = AnchorRankingTuple(c, hits, policy)
  BY <1>1
<1>4. Mismatch(query.direction # direction) \in {0, 1}
  BY DEF Mismatch
<1> HIDE DEF c, v
<1>5. AnchorRankingTuple(c, hits, policy) = AnchorRankingTuple(v, hits, policy)
  <2>1. /\ v.mismatch = c.mismatch /\ v.stats = c.stats /\ v.ordinal = c.ordinal
        /\ v.endpoint = c.endpoint
    BY <1>2, <1>3
  <2> QED
    BY <2>1 DEF AnchorRankingTuple
<1> QED
  BY <1>2, <1>3, <1>4, <1>5 DEF v

(* Candidates are views of edges of the graph from an anchor, and nothing  *)
(* in them is free once anchor and edge are known.                         *)
LEMMA CandidatesAre ==
  ASSUME NEW graph, ResolvedGraph(graph), NEW query, NEW anchors, NEW hits, NEW policy,
         DOMAIN anchors = 1..Len(anchors),
         NEW c \in AllCandidates(graph, query, anchors, hits, policy)
  PROVE  CandidateOk(c, graph, query, anchors, hits, policy)
<1> DEFINE stats == CompleteGraphEdgeStats(graph)
<1>1. PICK f \in ReachableFacts(graph, Anchored(anchors)) :
        c = Candidate(f, query, anchors, stats, hits, policy) /\ FactSource(f) # FactTarget(f)
  BY DEF AllCandidates, Candidates, DirectionalFacts
<1>2. PICK seed \in Anchored(anchors) :
        \E o \in graph : seed \in {o.source, o.target} /\ f = Fact(o, seed)
  BY <1>1 DEF ReachableFacts
<1>3. PICK o \in graph : seed \in {o.source, o.target} /\ f = Fact(o, seed)
  BY <1>2
<1> DEFINE e == Edge(o)
<1>4. /\ f.occurrence = o /\ f.anchor = seed /\ o.source # o.target
      /\ \/ f.direction = "FORWARD" /\ seed = o.source /\ f.endpoint = o.target
         \/ f.direction = "REVERSE" /\ seed = o.target /\ f.endpoint = o.source
  <2>1. CASE o.target = seed
    BY <1>1, <1>3, <2>1 DEF Fact, FactSource, FactTarget
  <2>2. CASE o.target # seed
    BY <1>1, <1>3, <2>2 DEF Fact, FactSource, FactTarget
  <2> QED
    BY <2>1, <2>2
<1>5. c = View(seed, f.endpoint, f.direction, e, query, anchors, stats, hits, policy)
  BY <1>1, <1>4 DEF Candidate, View
<1>6. StatsOk(stats[e]) /\ stats[e].edge = e
  BY <1>4, StatsAre
<1>7. e.source = o.source /\ e.target = o.target
  BY DEF Edge
<1>8. PICK i \in 1..Len(anchors) : anchors[i] = seed
  BY DEF Anchored
<1>9. AnchorOrdinal(anchors, seed) \in 1..Len(anchors) /\ anchors[AnchorOrdinal(anchors, seed)] = seed
  BY <1>8 DEF AnchorOrdinal
<1> HIDE DEF stats, e
<1>10. /\ c.anchor = seed /\ c.endpoint = f.endpoint /\ c.direction = f.direction
       /\ c.ordinal = AnchorOrdinal(anchors, seed) /\ c.mismatch \in {0, 1}
       /\ c.stats = stats[e] /\ c.tuple = AnchorRankingTuple(c, hits, policy)
  BY <1>5, ViewIs
<1>11. Seen(c)
  BY <1>4, <1>6, <1>7, <1>10 DEF Seen
<1>12. c = View(c.anchor, c.endpoint, c.direction, c.stats.edge, query, anchors, stats, hits, policy)
  BY <1>5, <1>6, <1>10
<1> QED
  BY <1>6, <1>9, <1>10, <1>11, <1>12 DEF CandidateOk, stats

(* An anchor sees an edge in one way.                                      *)
LEMMA OneView ==
  ASSUME NEW graph, NEW query, NEW anchors, NEW hits, NEW policy, NEW c, NEW d,
         CandidateOk(c, graph, query, anchors, hits, policy),
         CandidateOk(d, graph, query, anchors, hits, policy),
         c.ordinal = d.ordinal, c.stats.edge = d.stats.edge
  PROVE  c = d
<1>1. c.anchor = d.anchor
  BY DEF CandidateOk
<1>2. c.stats.edge.source # c.stats.edge.target
  BY DEF CandidateOk, StatsOk, EdgeOk
<1>3. c.direction = d.direction /\ c.endpoint = d.endpoint
  BY <1>1, <1>2 DEF CandidateOk, Seen
<1> QED
  BY <1>1, <1>3 DEF CandidateOk

(* A group has finitely many candidates.                                   *)
LEMMA CandidatesFinite ==
  ASSUME NEW graph, ResolvedGraph(graph), NEW query, NEW anchors, NEW hits, NEW policy, Len(anchors) \in Nat
  PROVE  IsFiniteSet(AllCandidates(graph, query, anchors, hits, policy))
<1> DEFINE stats == CompleteGraphEdgeStats(graph)
           P == (1..Len(anchors)) \X graph
           f == [p \in P |-> Candidate(Fact(p[2], anchors[p[1]]), query, anchors, stats, hits, policy)]
<1>1. IsFiniteSet(P)
  <2>1. IsFiniteSet(1..Len(anchors)) /\ IsFiniteSet(graph)
    BY FS_Interval DEF ResolvedGraph
  <2> QED
    BY <2>1, FS_Product
<1>2. AllCandidates(graph, query, anchors, hits, policy) \subseteq {f[p] : p \in P}
  <2> SUFFICES ASSUME NEW c \in AllCandidates(graph, query, anchors, hits, policy) PROVE \E p \in P : f[p] = c
    OBVIOUS
  <2>1. PICK g \in ReachableFacts(graph, Anchored(anchors)) : c = Candidate(g, query, anchors, stats, hits, policy)
    BY DEF AllCandidates, Candidates, DirectionalFacts
  <2>2. PICK seed \in Anchored(anchors), o \in graph : g = Fact(o, seed)
    BY <2>1 DEF ReachableFacts
  <2>3. PICK i \in 1..Len(anchors) : anchors[i] = seed
    BY <2>2 DEF Anchored
  <2>4. <<i, o>> \in P /\ f[<<i, o>>] = c
    BY <2>1, <2>2, <2>3
  <2> QED
    BY <2>4
<1>3. DOMAIN f = P /\ f = [p \in P |-> f[p]]
  OBVIOUS
<1> HIDE DEF P, f
<1>4. IsFiniteSet({f[p] : p \in P})
  BY <1>1, <1>3, Values
<1> QED
  BY <1>2, <1>4, FS_Subset

-----------------------------------------------------------------------------
(* Under every policy the tuples of candidates are keys of one shape that  *)
(* tell candidates apart.                                                  *)
Opening(c) == <<Asc(c.mismatch), Asc(c.stats.edge.tier)>>

Strength(c, policy) ==
  LET s == c.stats
      share == Ratio(s.occurrences, s.sourceOccurrences)
  IN CASE policy = "anchor-edge-raw-frequency" -> <<Desc(s.occurrences)>>
       [] policy = "anchor-edge-source-normalized" -> <<share, Asc(s.sourceTargets)>>
       [] policy = "anchor-edge-bidirectional" ->
             <<share, Asc(s.sourceTargets), Asc(s.targetSources), Asc(s.targetOccurrences)>>
       [] policy = "anchor-edge-incoming-popularity" ->
             <<Desc(s.targetSources), Desc(s.targetOccurrences), Desc(s.occurrences)>>

Closing(c, hits) ==
  LET s == c.stats
  IN <<Asc(c.ordinal), Asc(Rank(hits, c.endpoint)), Asc(s.best.ordinal), Asc(s.best.byte),
       Asc(s.edge.source), Asc(s.edge.target), Asc(KindOrder[s.edge.kind]), Asc(s.best.id)>>

(* A tuple of eight components, part by part.                              *)
LEMMA EightParts ==
  ASSUME NEW a, NEW b, NEW c, NEW d, NEW e, NEW f, NEW g, NEW h,
         a \in Components, b \in Components, c \in Components, d \in Components,
         e \in Components, f \in Components, g \in Components, h \in Components
  PROVE  LET k == <<a, b, c, d, e, f, g, h>>
         IN /\ k \in Seq(Components) /\ Len(k) = 8
            /\ k[1] = a /\ k[2] = b /\ k[3] = c /\ k[4] = d
            /\ k[5] = e /\ k[6] = f /\ k[7] = g /\ k[8] = h
  OBVIOUS

Ascending(k) == k \in Components /\ k.order = "asc"

(* An ascending component is one.                                          *)
LEMMA AscAscends ==
  \A v \in Int : Ascending(Asc(v))
  BY ComponentsAre DEF Ascending

Ranked(hits) == Len(hits) \in Nat /\ MaxDenseDepth \in Nat

(* A parent outside of the hits ranks after all of them.                   *)
LEMMA RankIs ==
  ASSUME NEW hits, Ranked(hits), NEW p
  PROVE  Rank(hits, p) \in Int
  BY DEF Rank, Ranked

(* The closing parts of a candidate's key are of one shape and tell apart  *)
(* whatever the edge or the anchor tells apart.                            *)
LEMMA ClosingShape ==
  ASSUME NEW S, NEW hits, Ranked(hits), \A c \in S : StatsOk(c.stats) /\ c.ordinal \in Int,
         NEW key, \A c \in S : key[c] = Closing(c, hits)
  PROVE  /\ Shaped(S, key, 8)
         /\ \A c, d \in S : AllLevel(key[c], key[d], 8) =>
              /\ c.ordinal = d.ordinal /\ c.stats.edge.source = d.stats.edge.source
              /\ c.stats.edge.target = d.stats.edge.target /\ c.stats.edge.kind = d.stats.edge.kind
<1>1. \A c \in S : /\ Rank(hits, c.endpoint) \in Int /\ KindOrder[c.stats.edge.kind] \in Int
                   /\ c.stats.best.ordinal \in Int /\ c.stats.best.byte \in Int /\ c.stats.best.id \in Int
                   /\ c.stats.edge.source \in Int /\ c.stats.edge.target \in Int
  <2> TAKE c \in S
  <2>1. Rank(hits, c.endpoint) \in Int
    BY RankIs
  <2>2. StatsOk(c.stats) /\ EdgeOk(c.stats.edge)
    BY DEF StatsOk
  <2>3. KindOrder[c.stats.edge.kind] \in Int
    BY <2>2 DEF EdgeOk, KindOrder
  <2> QED
    BY <2>1, <2>2, <2>3 DEF StatsOk, EdgeOk
<1>2. ASSUME NEW c \in S
      PROVE  /\ key[c] \in Seq(Components) /\ Len(key[c]) = 8
             /\ key[c][1] = Asc(c.ordinal) /\ key[c][2] = Asc(Rank(hits, c.endpoint))
             /\ key[c][3] = Asc(c.stats.best.ordinal) /\ key[c][4] = Asc(c.stats.best.byte)
             /\ key[c][5] = Asc(c.stats.edge.source) /\ key[c][6] = Asc(c.stats.edge.target)
             /\ key[c][7] = Asc(KindOrder[c.stats.edge.kind]) /\ key[c][8] = Asc(c.stats.best.id)
  <2>1. /\ Asc(c.ordinal) \in Components /\ Asc(Rank(hits, c.endpoint)) \in Components
        /\ Asc(c.stats.best.ordinal) \in Components /\ Asc(c.stats.best.byte) \in Components
        /\ Asc(c.stats.edge.source) \in Components /\ Asc(c.stats.edge.target) \in Components
        /\ Asc(KindOrder[c.stats.edge.kind]) \in Components /\ Asc(c.stats.best.id) \in Components
    BY <1>1, ComponentsAre
  <2>2. key[c] = <<Asc(c.ordinal), Asc(Rank(hits, c.endpoint)), Asc(c.stats.best.ordinal), Asc(c.stats.best.byte),
                   Asc(c.stats.edge.source), Asc(c.stats.edge.target), Asc(KindOrder[c.stats.edge.kind]),
                   Asc(c.stats.best.id)>>
    BY DEF Closing
  <2> QED
    BY <2>1, <2>2, EightParts
<1>3. ASSUME NEW c \in S, NEW i \in 1..8
      PROVE  key[c][i] \in Components /\ key[c][i].order = "asc"
  <2>1. i = 1 \/ i = 2 \/ i = 3 \/ i = 4 \/ i = 5 \/ i = 6 \/ i = 7 \/ i = 8
    OBVIOUS
  <2>2. Ascending(key[c][1]) /\ Ascending(key[c][2]) /\ Ascending(key[c][3]) /\ Ascending(key[c][4])
    <3>1. c.ordinal \in Int /\ Rank(hits, c.endpoint) \in Int /\ c.stats.best.ordinal \in Int /\ c.stats.best.byte \in Int
      BY <1>1
    <3>2. /\ Ascending(Asc(c.ordinal)) /\ Ascending(Asc(Rank(hits, c.endpoint)))
          /\ Ascending(Asc(c.stats.best.ordinal)) /\ Ascending(Asc(c.stats.best.byte))
      BY <3>1, AscAscends
    <3> QED
      BY <1>2, <3>2
  <2>3. Ascending(key[c][5]) /\ Ascending(key[c][6]) /\ Ascending(key[c][7]) /\ Ascending(key[c][8])
    <3>1. /\ c.stats.edge.source \in Int /\ c.stats.edge.target \in Int
          /\ KindOrder[c.stats.edge.kind] \in Int /\ c.stats.best.id \in Int
      BY <1>1
    <3>2. /\ Ascending(Asc(c.stats.edge.source)) /\ Ascending(Asc(c.stats.edge.target))
          /\ Ascending(Asc(KindOrder[c.stats.edge.kind])) /\ Ascending(Asc(c.stats.best.id))
      BY <3>1, AscAscends
    <3> QED
      BY <1>2, <3>2
  <2>4. Ascending(key[c][i])
    BY <2>1, <2>2, <2>3
  <2> QED
    BY <2>4 DEF Ascending
<1>4. Shaped(S, key, 8)
  BY <1>2, <1>3, SMTT(30) DEF Shaped
<1>5. ASSUME NEW c \in S, NEW d \in S, AllLevel(key[c], key[d], 8)
      PROVE  /\ c.ordinal = d.ordinal /\ c.stats.edge.source = d.stats.edge.source
             /\ c.stats.edge.target = d.stats.edge.target /\ c.stats.edge.kind = d.stats.edge.kind
  <2>1. 1 \in 1..8 /\ 5 \in 1..8 /\ 6 \in 1..8 /\ 7 \in 1..8
    OBVIOUS
  <2>2. /\ Level(Asc(c.ordinal), Asc(d.ordinal))
        /\ Level(Asc(c.stats.edge.source), Asc(d.stats.edge.source))
        /\ Level(Asc(c.stats.edge.target), Asc(d.stats.edge.target))
        /\ Level(Asc(KindOrder[c.stats.edge.kind]), Asc(KindOrder[d.stats.edge.kind]))
    BY <1>2, <1>5, <2>1 DEF AllLevel
  <2>3. /\ c.ordinal = d.ordinal /\ c.stats.edge.source = d.stats.edge.source
        /\ c.stats.edge.target = d.stats.edge.target
        /\ KindOrder[c.stats.edge.kind] = KindOrder[d.stats.edge.kind]
    BY <1>1, <2>2, LevelAsc
  <2>4. EdgeOk(c.stats.edge) /\ EdgeOk(d.stats.edge)
    BY DEF StatsOk
  <2>5. c.stats.edge.kind \in Kinds /\ d.stats.edge.kind \in Kinds
    BY <2>4 DEF EdgeOk, Kinds
  <2>6. c.stats.edge.kind = d.stats.edge.kind
    BY <2>3, <2>5 DEF KindOrder, Kinds
  <2> QED
    BY <2>3, <2>6
<1> QED
  BY <1>4, <1>5

(* The opening parts are of one shape; the second is the tier.             *)
LEMMA OpeningShape ==
  ASSUME NEW S, \A c \in S : StatsOk(c.stats) /\ c.mismatch \in {0, 1},
         NEW key, \A c \in S : key[c] = Opening(c)
  PROVE  /\ Shaped(S, key, 2)
         /\ \A c, d \in S : AllLevel(key[c], key[d], 2) => c.stats.edge.tier = d.stats.edge.tier
<1>1. \A c \in S : c.mismatch \in Int /\ c.stats.edge.tier \in Int
  <2> TAKE c \in S
  <2>1. EdgeOk(c.stats.edge) /\ c.mismatch \in {0, 1}
    BY DEF StatsOk
  <2> QED
    BY <2>1 DEF EdgeOk
<1>2. ASSUME NEW c \in S
      PROVE  /\ key[c] \in Seq(Components) /\ Len(key[c]) = 2
             /\ key[c][1] = Asc(c.mismatch) /\ key[c][2] = Asc(c.stats.edge.tier)
  <2>1. /\ Asc(c.mismatch) \in Components /\ Asc(c.stats.edge.tier) \in Components
    BY <1>1, ComponentsAre
  <2>2. key[c] = <<Asc(c.mismatch), Asc(c.stats.edge.tier)>>
    BY DEF Opening
  <2> QED
    BY <2>1, <2>2
<1>3. ASSUME NEW c \in S, NEW i \in 1..2
      PROVE  key[c][i] \in Components /\ key[c][i].order = "asc"
  <2>1. i = 1 \/ i = 2
    OBVIOUS
  <2> QED
    BY <2>1, <1>1, <1>2, ComponentsAre
<1>4. Shaped(S, key, 2)
  BY <1>2, <1>3 DEF Shaped
<1>5. ASSUME NEW c \in S, NEW d \in S, AllLevel(key[c], key[d], 2)
      PROVE  c.stats.edge.tier = d.stats.edge.tier
  <2>1. Level(Asc(c.stats.edge.tier), Asc(d.stats.edge.tier))
    BY <1>2, <1>5 DEF AllLevel
  <2> QED
    BY <1>1, <2>1, LevelAsc
<1> QED
  BY <1>4, <1>5

(* What a policy puts between them is of one shape as well, and its        *)
(* fractions have no zero below them.                                      *)
LEMMA StrengthShape ==
  ASSUME NEW S, \A c \in S : StatsOk(c.stats), NEW policy \in AnchorEdgePolicies,
         NEW key, \A c \in S : key[c] = Strength(c, policy)
  PROVE  \E n \in Nat : Shaped(S, key, n)
<1> DEFINE share(c) == Ratio(c.stats.occurrences, c.stats.sourceOccurrences)
<1>1. \A c \in S : /\ c.stats.occurrences \in Int /\ c.stats.sourceOccurrences \in Positive
                   /\ c.stats.sourceTargets \in Int /\ c.stats.targetSources \in Int
                   /\ c.stats.targetOccurrences \in Int
  BY DEF StatsOk, Positive
<1>2. \A c \in S :
        /\ share(c) \in Components /\ share(c).order = "desc_rational"
        /\ Asc(c.stats.sourceTargets) \in Components /\ Asc(c.stats.sourceTargets).order = "asc"
        /\ Asc(c.stats.targetSources) \in Components /\ Asc(c.stats.targetSources).order = "asc"
        /\ Asc(c.stats.targetOccurrences) \in Components /\ Asc(c.stats.targetOccurrences).order = "asc"
        /\ Desc(c.stats.occurrences) \in Components /\ Desc(c.stats.occurrences).order = "desc"
        /\ Desc(c.stats.targetSources) \in Components /\ Desc(c.stats.targetSources).order = "desc"
        /\ Desc(c.stats.targetOccurrences) \in Components /\ Desc(c.stats.targetOccurrences).order = "desc"
  BY <1>1, ComponentsAre
<1> HIDE DEF share
<1>3. CASE policy = "anchor-edge-raw-frequency"
  <2>1. \A c \in S : key[c] = <<Desc(c.stats.occurrences)>>
    BY <1>3 DEF Strength
  <2>2. \A c \in S : key[c] \in Seq(Components) /\ Len(key[c]) = 1 /\ key[c][1] = Desc(c.stats.occurrences)
    <3> TAKE c \in S
    <3>1. key[c] = <<Desc(c.stats.occurrences)>>
      BY <2>1
    <3> QED
      BY <1>2, <3>1
  <2>3. \A i \in 1..1 : i = 1
    OBVIOUS
  <2>4. Shaped(S, key, 1)
    BY <1>2, <2>2, <2>3 DEF Shaped
  <2> QED
    BY <2>4
<1>4. CASE policy = "anchor-edge-source-normalized"
  <2>1. \A c \in S : key[c] = <<share(c), Asc(c.stats.sourceTargets)>>
    BY <1>4 DEF Strength, share
  <2>2. \A c \in S : /\ key[c] \in Seq(Components) /\ Len(key[c]) = 2
                     /\ key[c][1] = share(c) /\ key[c][2] = Asc(c.stats.sourceTargets)
    <3> TAKE c \in S
    <3>1. key[c] = <<share(c), Asc(c.stats.sourceTargets)>>
      BY <2>1
    <3> QED
      BY <1>2, <3>1
  <2>3. \A i \in 1..2 : i = 1 \/ i = 2
    OBVIOUS
  <2>4. Shaped(S, key, 2)
    BY <1>2, <2>2, <2>3 DEF Shaped
  <2> QED
    BY <2>4
<1>5. CASE policy = "anchor-edge-bidirectional"
  <2>1. \A c \in S : key[c] = <<share(c), Asc(c.stats.sourceTargets), Asc(c.stats.targetSources),
                               Asc(c.stats.targetOccurrences)>>
    BY <1>5 DEF Strength, share
  <2>2. \A c \in S : /\ key[c] \in Seq(Components) /\ Len(key[c]) = 4
                     /\ key[c][1] = share(c) /\ key[c][2] = Asc(c.stats.sourceTargets)
                     /\ key[c][3] = Asc(c.stats.targetSources) /\ key[c][4] = Asc(c.stats.targetOccurrences)
    <3> TAKE c \in S
    <3>1. key[c] = <<share(c), Asc(c.stats.sourceTargets), Asc(c.stats.targetSources), Asc(c.stats.targetOccurrences)>>
      BY <2>1
    <3> QED
      BY <1>2, <3>1
  <2>3. \A i \in 1..4 : i = 1 \/ i = 2 \/ i = 3 \/ i = 4
    OBVIOUS
  <2>4. Shaped(S, key, 4)
    BY <1>2, <2>2, <2>3 DEF Shaped
  <2> QED
    BY <2>4
<1>6. CASE policy = "anchor-edge-incoming-popularity"
  <2>1. \A c \in S : key[c] = <<Desc(c.stats.targetSources), Desc(c.stats.targetOccurrences), Desc(c.stats.occurrences)>>
    BY <1>6 DEF Strength
  <2>2. \A c \in S : /\ key[c] \in Seq(Components) /\ Len(key[c]) = 3
                     /\ key[c][1] = Desc(c.stats.targetSources) /\ key[c][2] = Desc(c.stats.targetOccurrences)
                     /\ key[c][3] = Desc(c.stats.occurrences)
    <3> TAKE c \in S
    <3>1. key[c] = <<Desc(c.stats.targetSources), Desc(c.stats.targetOccurrences), Desc(c.stats.occurrences)>>
      BY <2>1
    <3> QED
      BY <1>2, <3>1
  <2>3. \A i \in 1..3 : i = 1 \/ i = 2 \/ i = 3
    OBVIOUS
  <2>4. Shaped(S, key, 3)
    BY <1>2, <2>2, <2>3 DEF Shaped
  <2> QED
    BY <2>4
<1> QED
  BY <1>3, <1>4, <1>5, <1>6 DEF AnchorEdgePolicies

Tuples(S) == [c \in S |-> c.tuple]

(* So every policy's tuples put a group's candidates in order.             *)
LEMMA CandidatesKeyed ==
  ASSUME NEW graph, NEW query, NEW anchors, NEW hits, Ranked(hits), NEW policy \in AnchorEdgePolicies,
         DOMAIN anchors \subseteq Int,
         NEW S, \A c \in S : CandidateOk(c, graph, query, anchors, hits, policy)
  PROVE  \E n : Keyed(S, Tuples(S), n)
<1> DEFINE a == [c \in S |-> Opening(c)]
           b == [c \in S |-> Strength(c, policy)]
           z == [c \in S |-> Closing(c, hits)]
           ab == [c \in S |-> a[c] \o b[c]]
<1>1. \A c \in S : StatsOk(c.stats) /\ c.ordinal \in Int /\ c.mismatch \in {0, 1}
  BY DEF CandidateOk
<1>2. \A c \in S : a[c] = Opening(c) /\ b[c] = Strength(c, policy) /\ z[c] = Closing(c, hits) /\ ab[c] = a[c] \o b[c]
  OBVIOUS
<1>3. \A c \in S : Tuples(S)[c] = ab[c] \o z[c]
  <2> TAKE c \in S
  <2>1. Tuples(S)[c] = AnchorRankingTuple(c, hits, policy)
    BY DEF Tuples, CandidateOk
  <2>2. AnchorRankingTuple(c, hits, policy) = (Opening(c) \o Strength(c, policy)) \o Closing(c, hits)
    BY DEF AnchorRankingTuple, Opening, Strength, Closing
  <2> QED
    BY <2>1, <2>2
<1> HIDE DEF a, b, z, ab
<1>4. Shaped(S, a, 2) /\ \A c, d \in S : AllLevel(a[c], a[d], 2) => c.stats.edge.tier = d.stats.edge.tier
  BY <1>1, <1>2, OpeningShape
<1>5. PICK n \in Nat : Shaped(S, b, n)
  BY <1>1, <1>2, StrengthShape
<1>6. /\ Shaped(S, z, 8)
      /\ \A c, d \in S : AllLevel(z[c], z[d], 8) =>
              /\ c.ordinal = d.ordinal /\ c.stats.edge.source = d.stats.edge.source
              /\ c.stats.edge.target = d.stats.edge.target /\ c.stats.edge.kind = d.stats.edge.kind
  <2>1. \A c \in S : StatsOk(c.stats) /\ c.ordinal \in Int
    BY <1>1
  <2>2. \A c \in S : z[c] = Closing(c, hits)
    BY <1>2
  <2> QED
    BY <2>1, <2>2, ClosingShape
<1> DEFINE two == 2
           eight == 8
           m == two + n
           key == Tuples(S)
<1> HIDE DEF two, eight, m, key
<1>7. Shaped(S, ab, m) /\ LevelInBoth(S, ab, a, two, b, n)
  <2>1. PutTogether(S, ab, a, b)
    BY <1>2 DEF PutTogether
  <2>2. Shaped(S, a, two)
    BY <1>4 DEF two
  <2>3. Shaped(S, b, n)
    BY <1>5
  <2>4. Shaped(S, ab, two + n) /\ LevelInBoth(S, ab, a, two, b, n)
    BY <2>1, <2>2, <2>3, KeysJoined
  <2> QED
    BY <2>4 DEF m
<1>8. Shaped(S, key, m + eight) /\ LevelInBoth(S, key, ab, m, z, eight)
  <2>1. PutTogether(S, key, ab, z)
    BY <1>3 DEF key, PutTogether
  <2>2. Shaped(S, z, eight)
    BY <1>6 DEF eight
  <2> QED
    BY <1>7, <2>1, <2>2, KeysJoined
<1>9. ASSUME NEW c \in S, NEW d \in S, AllLevel(key[c], key[d], m + eight)
      PROVE  c = d
  <2>1. AllLevel(ab[c], ab[d], m) /\ AllLevel(z[c], z[d], eight)
    BY <1>8, <1>9 DEF LevelInBoth
  <2>2. AllLevel(a[c], a[d], two)
    BY <1>7, <2>1 DEF LevelInBoth, m
  <2>3. /\ c.ordinal = d.ordinal /\ c.stats.edge.source = d.stats.edge.source
        /\ c.stats.edge.target = d.stats.edge.target /\ c.stats.edge.kind = d.stats.edge.kind
    BY <1>6, <2>1 DEF eight
  <2>4. c.stats.edge.tier = d.stats.edge.tier
    BY <1>4, <2>2 DEF two
  <2>5. EdgeOk(c.stats.edge) /\ EdgeOk(d.stats.edge)
    BY <1>1 DEF StatsOk
  <2>6. c.stats.edge = d.stats.edge
    BY <2>3, <2>4, <2>5 DEF EdgeOk
  <2> QED
    BY <2>3, <2>6, OneView
<1>10. Keyed(S, key, m + eight)
  BY <1>8, <1>9, ShapedKeyed
<1> QED
  BY <1>10 DEF key

-----------------------------------------------------------------------------
(* Sets of candidates that CandidateLess puts in one order.                *)
Tame(S) == IsFiniteSet(S) /\ \E n : Keyed(S, Tuples(S), n)

(* Some of the candidates are in the same order.                           *)
LEMMA TamePart ==
  ASSUME NEW S, Tame(S), NEW T \in SUBSET S
  PROVE  Tame(T)
<1>1. PICK n : Keyed(S, Tuples(S), n)
  BY DEF Tame
<1>2. \A x \in T : Tuples(T)[x] = Tuples(S)[x] /\ x \in S
  BY DEF Tuples
<1>3. Keyed(T, Tuples(T), n)
  BY <1>1, <1>2 DEF Keyed
<1>4. IsFiniteSet(T)
  BY FS_Subset DEF Tame
<1> QED
  BY <1>3, <1>4 DEF Tame

(* CandidateLess is the order of the tuples.                               *)
LEMMA TameOrder ==
  ASSUME NEW S, Tame(S)
  PROVE  /\ LinearOn(S, Behind(S, Tuples(S)))
         /\ \A x \in S : Behind(S, Tuples(S))[x] = {y \in S : CandidateLess(y, x)}
<1>1. PICK n : Keyed(S, Tuples(S), n)
  BY DEF Tame
<1>2. LinearOn(S, Behind(S, Tuples(S)))
  BY <1>1, KeysOrder
<1>3. \A x, y \in S : KeyLess(Tuples(S)[y], Tuples(S)[x]) <=> CandidateLess(y, x)
  BY DEF Tuples, CandidateLess
<1> QED
  BY <1>2, <1>3 DEF Behind

(* CandidateLess is a strict linear order.                                 *)
LEMMA LessIs ==
  ASSUME NEW S, Tame(S)
  PROVE  /\ \A x \in S : ~CandidateLess(x, x)
         /\ \A x, y \in S : x # y => CandidateLess(x, y) \/ CandidateLess(y, x)
         /\ \A x, y \in S : CandidateLess(x, y) => ~CandidateLess(y, x)
         /\ \A x, y, z \in S : CandidateLess(x, y) /\ CandidateLess(y, z) => CandidateLess(x, z)
<1> DEFINE b == Behind(S, Tuples(S))
<1>1. LinearOn(S, b) /\ \A x \in S : b[x] = {y \in S : CandidateLess(y, x)}
  BY TameOrder
<1> HIDE DEF b
<1>2. \A x, y \in S : x \in b[y] <=> CandidateLess(x, y)
  BY <1>1
<1> QED
  BY <1>1, <1>2 DEF LinearOn

(* The first of the candidates is before all others.                       *)
LEMMA LeastView ==
  ASSUME NEW S, Tame(S), S # {}
  PROVE  /\ Least(S, CandidateLess) \in S
         /\ \A y \in S \ {Least(S, CandidateLess)} : CandidateLess(Least(S, CandidateLess), y)
         /\ \A x \in S : (\A y \in S \ {x} : CandidateLess(x, y)) => x = Least(S, CandidateLess)
<1> DEFINE b == Behind(S, Tuples(S))
<1>1. LinearOn(S, b) /\ \A x \in S : b[x] = {y \in S : CandidateLess(y, x)}
  BY TameOrder
<1>2. IsFiniteSet(S)
  BY DEF Tame
<1> HIDE DEF b
<1>3. PICK x \in S : b[x] = {}
  BY <1>1, <1>2, OneIsLeast
<1>4. \A y \in S \ {x} : ~CandidateLess(y, x)
  BY <1>1, <1>3
<1> DEFINE l == Least(S, CandidateLess)
<1>5. l \in S /\ \A y \in S \ {l} : ~CandidateLess(y, l)
  BY <1>4 DEF Least
<1> HIDE DEF l
<1>6. \A y \in S \ {l} : CandidateLess(l, y)
  BY <1>5, LessIs
<1>7. \A y \in S : (\A z \in S \ {y} : CandidateLess(y, z)) => y = l
  BY <1>5, LessIs
<1> QED
  BY <1>5, <1>6, <1>7 DEF l

LastView(S) == Least(S, LAMBDA v, w : CandidateLess(w, v))

(* The last of the candidates is after all others.                         *)
LEMMA WorstView ==
  ASSUME NEW S, Tame(S), S # {}
  PROVE  LastView(S) \in S /\ \A y \in S \ {LastView(S)} : CandidateLess(y, LastView(S))
<1> DEFINE over == [x \in S |-> {y \in S : CandidateLess(x, y)}]
           w == LastView(S)
<1>1. LinearOn(S, over)
  <2>1. \A x, y \in S : x \in over[y] <=> CandidateLess(y, x)
    OBVIOUS
  <2>2. over \in [S -> SUBSET S]
    OBVIOUS
  <2> HIDE DEF over
  <2>3. \A x \in S : x \notin over[x]
    BY <2>1, LessIs
  <2>4. \A x, y \in S : x # y => x \in over[y] \/ y \in over[x]
    BY <2>1, LessIs
  <2>5. \A x, y \in S : x \in over[y] => over[x] \subseteq over[y]
    BY <2>1, <2>2, LessIs
  <2> QED
    BY <2>2, <2>3, <2>4, <2>5 DEF LinearOn
<1>2. IsFiniteSet(S)
  BY DEF Tame
<1>3. \A x, y \in S : y \in over[x] <=> CandidateLess(x, y)
  OBVIOUS
<1> HIDE DEF over
<1>4. PICK x \in S : over[x] = {}
  BY <1>1, <1>2, OneIsLeast
<1>5. \A y \in S \ {x} : ~CandidateLess(x, y)
  BY <1>3, <1>4
<1>6. w \in S /\ \A y \in S \ {w} : ~CandidateLess(w, y)
  BY <1>5 DEF LastView, Least
<1> HIDE DEF w
<1>7. \A y \in S \ {w} : CandidateLess(y, w)
  BY <1>6, LessIs
<1> QED
  BY <1>6, <1>7 DEF w

(* The first n candidates are at most n, and the very first is one.        *)
LEMMA FirstViews ==
  ASSUME NEW S, Tame(S), NEW n \in Nat
  PROVE  LET T == FirstOf(S, n, CandidateLess)
         IN /\ T \subseteq S /\ IsFiniteSet(T) /\ Cardinality(T) \in Nat /\ Cardinality(T) <= n
            /\ S # {} /\ n >= 1 => Least(S, CandidateLess) \in T
<1> DEFINE b == Behind(S, Tuples(S))
           T == FirstOf(S, n, CandidateLess)
           l == Least(S, CandidateLess)
<1>1. LinearOn(S, b) /\ \A x \in S : b[x] = {y \in S : CandidateLess(y, x)}
  BY TameOrder
<1>2. IsFiniteSet(S)
  BY DEF Tame
<1>3. T = {x \in S : Cardinality({y \in S : CandidateLess(y, x)}) < n}
  BY DEF FirstOf
<1> HIDE DEF b, T
<1>4. T = {x \in S : Cardinality(b[x]) < n}
  BY <1>1, <1>3
<1>5. IsFiniteSet(T) /\ Cardinality(T) \in Nat /\ Cardinality(T) <= n
  BY <1>1, <1>2, <1>4, FirstFew
<1>6. ASSUME S # {}, n >= 1
      PROVE  l \in T
  <2>1. l \in S /\ \A y \in S \ {l} : CandidateLess(l, y)
    BY <1>6, LeastView
  <2> HIDE DEF l
  <2>2. \A y \in S : ~CandidateLess(y, l)
    BY <2>1, LessIs
  <2>3. b[l] = {}
    BY <1>1, <2>1, <2>2
  <2>4. Cardinality(b[l]) = 0
    BY <2>3, FS_EmptySet
  <2> QED
    BY <1>4, <1>6, <2>1, <2>4
<1>7. T \subseteq S
  BY <1>4
<1> HIDE DEF l
<1> QED
  BY <1>5, <1>6, <1>7 DEF T, l

(* Putting candidates in order lists each of them.                         *)
LEMMA ViewsInOrder ==
  ASSUME NEW S, Tame(S)
  PROVE  LET order == InOrder(S, CandidateLess)
         IN /\ Cardinality(S) \in Nat /\ Len(order) = Cardinality(S) /\ DOMAIN order = 1..Len(order)
            /\ \A i \in 1..Len(order) : order[i] \in S
            /\ \A x \in S : \E i \in 1..Len(order) : order[i] = x
<1> DEFINE b == Behind(S, Tuples(S))
           N == Cardinality(S)
           order == InOrder(S, CandidateLess)
           place(x) == Cardinality({y \in S : CandidateLess(y, x)})
<1>1. LinearOn(S, b) /\ \A x \in S : b[x] = {y \in S : CandidateLess(y, x)}
  BY TameOrder
<1>2. IsFiniteSet(S) /\ N \in Nat
  BY FS_CardinalityType DEF Tame
<1>3. order = [i \in 1..N |-> CHOOSE x \in S : place(x) = i - 1]
  BY DEF InOrder
<1> HIDE DEF b
<1>4. \A x \in S : place(x) = Cardinality(b[x])
  BY <1>1
<1> HIDE DEF place, order, N
<1>5. ASSUME NEW i \in 1..N
      PROVE  order[i] \in S /\ place(order[i]) = i - 1
  <2>1. i - 1 \in 0..(N - 1)
    BY <1>2
  <2>2. \E x \in S : Cardinality(b[x]) = i - 1
    BY <1>1, <1>2, <2>1, PlacesTaken DEF N
  <2>3. \E x \in S : place(x) = i - 1
    BY <1>4, <2>2
  <2>4. order[i] = CHOOSE x \in S : place(x) = i - 1
    BY <1>3
  <2> QED
    BY <2>3, <2>4
<1>6. ASSUME NEW x \in S
      PROVE  \E i \in 1..N : order[i] = x
  <2>1. Cardinality(b[x]) \in 0..(N - 1)
    BY <1>1, <1>2, PlacesDiffer DEF N
  <2> DEFINE i == Cardinality(b[x]) + 1
  <2>2. i \in 1..N /\ i - 1 = Cardinality(b[x])
    BY <1>2, <2>1
  <2> HIDE DEF i
  <2>3. order[i] \in S /\ Cardinality(b[order[i]]) = Cardinality(b[x])
    BY <1>4, <1>5, <2>2
  <2>4. order[i] = x
    BY <1>1, <1>2, <2>3, PlacesDiffer
  <2> QED
    BY <2>2, <2>4
<1>7. DOMAIN order = 1..N /\ Len(order) = N
  BY <1>2, <1>3
<1> QED
  BY <1>2, <1>5, <1>6, <1>7 DEF order, N

-----------------------------------------------------------------------------
(* The capped frontier over the candidates C of an anchor group.           *)
BridgeViews(C, anchors) == {v \in C : DirectAnchorBridge(anchors, v)}

(* The candidates are ordered, each has its bucket, and no two bridges     *)
(* share one.                                                              *)
Framed(C, anchors) ==
  /\ Tame(C)
  /\ \A c \in C : Bucket(c) \in Buckets
  /\ \A v, w \in BridgeViews(C, anchors) : Bucket(v) = Bucket(w) => v = w

InPlace(kept, v) == v \in kept[Bucket(v)]

(* What the buckets keep: candidates of their own, no more than the cap,   *)
(* the first of all candidates among them.                                 *)
Roomy(kept, C) ==
  /\ kept \in [Buckets -> SUBSET C]
  /\ \A b \in Buckets : /\ \A c \in kept[b] : Bucket(c) = b
                        /\ IsFiniteSet(kept[b]) /\ Cardinality(kept[b]) <= FrontierBucketLimit
  /\ C # {} => InPlace(kept, Least(C, CandidateLess))

Assigning(kept, C, anchors) ==
  [kept |-> kept, overflow |-> FALSE, bridges |-> Edges(BridgeViews(C, anchors))]

(* The limits of a bucket and of the frontier.                             *)
LEMMA Limits ==
  FrontierBucketLimit \in Nat /\ FrontierBucketLimit >= 2 /\ FrontierGlobalLimit \in Nat
  /\ FrontierGlobalLimit >= 16 * FrontierBucketLimit
  BY SelectionAssumption DEF SelectionAssumption

(* One element more.                                                       *)
LEMMA OneMore ==
  ASSUME NEW S, IsFiniteSet(S), NEW x
  PROVE  /\ IsFiniteSet(S \cup {x}) /\ Cardinality(S \cup {x}) \in Nat /\ Cardinality(S) \in Nat
         /\ Cardinality(S \cup {x}) <= Cardinality(S) + 1
<1>1. /\ IsFiniteSet(S \cup {x})
      /\ Cardinality(S \cup {x}) = IF x \in S THEN Cardinality(S) ELSE Cardinality(S) + 1
  BY FS_AddElement
<1>2. Cardinality(S) \in Nat /\ Cardinality(S \cup {x}) \in Nat
  BY <1>1, FS_CardinalityType
<1> QED
  BY <1>1, <1>2

(* Putting one in for another keeps to the size.                           *)
LEMMA Swap ==
  ASSUME NEW S, IsFiniteSet(S), NEW n \in Nat, Cardinality(S) <= n, NEW x, NEW y \in S
  PROVE  IsFiniteSet((S \ {y}) \cup {x}) /\ Cardinality((S \ {y}) \cup {x}) <= n
<1> DEFINE T == S \ {y}
<1>1. IsFiniteSet(T) /\ Cardinality(T) = Cardinality(S) - 1 /\ Cardinality(S) \in Nat
  BY FS_RemoveElement, FS_CardinalityType
<1> HIDE DEF T
<1>2. /\ IsFiniteSet(T \cup {x}) /\ Cardinality(T \cup {x}) \in Nat
      /\ Cardinality(T \cup {x}) <= Cardinality(T) + 1
  BY <1>1, OneMore
<1> QED
  BY <1>1, <1>2 DEF T

(* A full bucket that a bridge is missing from has another edge to give    *)
(* up, which is neither a bridge nor the first of all candidates.          *)
LEMMA SomethingToGive ==
  ASSUME NEW C, NEW anchors, Framed(C, anchors), NEW kept, Roomy(kept, C),
         NEW c \in BridgeViews(C, anchors), ~InPlace(kept, c),
         Cardinality(kept[Bucket(c)]) >= FrontierBucketLimit
  PROVE  LET others == {v \in kept[Bucket(c)] : v.stats.edge \notin Edges(BridgeViews(C, anchors))}
             worst == LastView(others)
         IN /\ others # {} /\ worst \in kept[Bucket(c)]
            /\ worst \notin BridgeViews(C, anchors)
            /\ worst # Least(C, CandidateLess)
<1> DEFINE b == Bucket(c)
           E == Edges(BridgeViews(C, anchors))
           others == {v \in kept[b] : v.stats.edge \notin E}
           worst == LastView(others)
           u == Least(C, CandidateLess)
<1>1. c \in C /\ b \in Buckets /\ Tame(C)
  BY DEF BridgeViews, Framed
<1>2. /\ kept[b] \subseteq C /\ \A x \in kept[b] : Bucket(x) = b
      /\ IsFiniteSet(kept[b]) /\ Cardinality(kept[b]) \in Nat
  BY <1>1, FS_CardinalityType DEF Roomy
<1>3. ASSUME NEW x \in kept[b]
      PROVE  x.stats.edge \notin E
  <2>1. SUFFICES ASSUME x.stats.edge \in E PROVE FALSE
    OBVIOUS
  <2>2. PICK w \in BridgeViews(C, anchors) : w.stats.edge = x.stats.edge
    BY <2>1 DEF Edges
  <2>3. x \in BridgeViews(C, anchors)
    BY <1>2, <2>2 DEF BridgeViews, DirectAnchorBridge
  <2>4. x = c
    BY <1>2, <2>3 DEF Framed
  <2> QED
    BY <2>4 DEF InPlace
<1>4. others = kept[b]
  BY <1>3
<1>5. Cardinality(kept[b]) >= 2
  BY <1>2, Limits
<1>6. \A x \in kept[b] : \E y \in kept[b] : y # x
  <2> SUFFICES ASSUME NEW x \in kept[b], \A y \in kept[b] : y = x PROVE FALSE
    OBVIOUS
  <2>1. kept[b] = {x}
    OBVIOUS
  <2>2. Cardinality({x}) = 1
    BY FS_Singleton
  <2> QED
    BY <1>5, <2>1, <2>2
<1>7. kept[b] # {}
  BY <1>5, FS_EmptySet
<1>8. Tame(kept[b])
  BY <1>1, <1>2, TamePart
<1>9. Tame(others) /\ others # {}
  BY <1>4, <1>7, <1>8
<1>10. worst \in others /\ \A y \in others \ {worst} : CandidateLess(y, worst)
  <2> HIDE DEF others
  <2> QED
    BY <1>9, WorstView
<1> HIDE DEF worst, others, E, u
<1>11. worst # u
  <2> SUFFICES ASSUME worst = u PROVE FALSE
    OBVIOUS
  <2>1. PICK y \in kept[b] : y # worst
    BY <1>4, <1>6, <1>10
  <2>2. CandidateLess(y, u) /\ y \in C /\ y # u
    BY <1>2, <1>4, <1>10, <2>1
  <2>3. u \in C /\ CandidateLess(u, y)
    BY <1>1, <2>2, LeastView DEF u
  <2> QED
    BY <1>1, <2>2, <2>3, LessIs
<1>12. worst \notin BridgeViews(C, anchors)
  <2>1. worst.stats.edge \notin E
    BY <1>10, <1>4, <1>3
  <2> QED
    BY <2>1 DEF E, Edges
<1> QED
  BY <1>4, <1>9, <1>10, <1>11, <1>12 DEF worst, others, E, u

StillIn(old, new, C, anchors) ==
  \A v \in BridgeViews(C, anchors) : InPlace(old, v) => InPlace(new, v)

(* What a reservation leaves.                                              *)
Reserved(old, new, C, anchors, views) ==
  /\ Roomy(new, C)
  /\ StillIn(old, new, C, anchors)
  /\ \E v \in views : InPlace(new, v)

(* Putting a bridge into its bucket, in place of another edge when full.   *)
PutsIn(new, kept, c, worst) ==
  new = [kept EXCEPT ![Bucket(c)] =
           (IF Cardinality(kept[Bucket(c)]) >= FrontierBucketLimit THEN kept[Bucket(c)] \ {worst}
                                                                  ELSE kept[Bucket(c)]) \cup {c}]
GivenUp(worst, kept, c, C, anchors) ==
  worst = LastView({v \in kept[Bucket(c)] : v.stats.edge \notin Edges(BridgeViews(C, anchors))})

(* Putting a bridge into its bucket, for the worst other edge if it is     *)
(* full, keeps the sizes, the first of all candidates and every bridge     *)
(* that was in place.                                                      *)
LEMMA PutIn ==
  ASSUME NEW C, NEW anchors, Framed(C, anchors), NEW kept, Roomy(kept, C),
         NEW c \in BridgeViews(C, anchors), ~InPlace(kept, c),
         NEW worst, NEW new, GivenUp(worst, kept, c, C, anchors), PutsIn(new, kept, c, worst)
  PROVE  Roomy(new, C) /\ InPlace(new, c) /\ StillIn(kept, new, C, anchors)
<1> DEFINE b == Bucket(c)
           full == Cardinality(kept[b]) >= FrontierBucketLimit
           u == Least(C, CandidateLess)
<1>1. c \in C /\ b \in Buckets /\ Tame(C)
  BY DEF BridgeViews, Framed
<1>2. /\ kept \in [Buckets -> SUBSET C] /\ kept[b] \subseteq C /\ \A x \in kept[b] : Bucket(x) = b
      /\ IsFiniteSet(kept[b]) /\ Cardinality(kept[b]) \in Nat /\ Cardinality(kept[b]) <= FrontierBucketLimit
  BY <1>1, FS_CardinalityType DEF Roomy
<1>3. full => worst \in kept[b] /\ worst \notin BridgeViews(C, anchors) /\ worst # u
  BY SomethingToGive DEF GivenUp
<1>4. /\ DOMAIN new = Buckets
      /\ \A a \in Buckets : a # b => new[a] = kept[a]
      /\ full => new[b] = (kept[b] \ {worst}) \cup {c}
      /\ ~full => new[b] = kept[b] \cup {c}
  BY <1>1, <1>2 DEF PutsIn
<1>5. new \in [Buckets -> SUBSET C]
  BY <1>1, <1>2 DEF PutsIn
<1>12. ~full => Cardinality(kept[b]) + 1 <= FrontierBucketLimit
  BY <1>2, Limits
<1> HIDE DEF b, full, u
<1>6. IsFiniteSet(new[b]) /\ Cardinality(new[b]) <= FrontierBucketLimit
  <2>1. CASE full
    <3>1. worst \in kept[b] /\ new[b] = (kept[b] \ {worst}) \cup {c}
      BY <1>3, <1>4, <2>1
    <3>2. IsFiniteSet((kept[b] \ {worst}) \cup {c})
          /\ Cardinality((kept[b] \ {worst}) \cup {c}) <= FrontierBucketLimit
      BY <1>2, <3>1, Limits, Swap
    <3> QED
      BY <3>1, <3>2
  <2>2. CASE ~full
    <3>1. Cardinality(kept[b]) + 1 <= FrontierBucketLimit
      BY <1>12, <2>2
    <3>2. /\ IsFiniteSet(kept[b] \cup {c}) /\ Cardinality(kept[b] \cup {c}) \in Nat
          /\ Cardinality(kept[b] \cup {c}) <= Cardinality(kept[b]) + 1
      BY <1>2, OneMore
    <3>3. new[b] = kept[b] \cup {c}
      BY <1>4, <2>2
    <3>4. Cardinality(kept[b]) \in Nat /\ FrontierBucketLimit \in Nat
      BY <1>2, Limits
    <3>5. \A x, y, z \in Nat : x <= y + 1 /\ y + 1 <= z => x <= z
      OBVIOUS
    <3> QED
      BY <3>1, <3>2, <3>3, <3>4, <3>5
  <2> QED
    BY <2>1, <2>2
<1>7. \A a \in Buckets : /\ \A x \in new[a] : Bucket(x) = a
                         /\ IsFiniteSet(new[a]) /\ Cardinality(new[a]) <= FrontierBucketLimit
  <2> TAKE a \in Buckets
  <2>1. CASE a = b
    <3>1. \A x \in new[b] : x \in kept[b] \/ x = c
      BY <1>4
    <3>2. Bucket(c) = b
      BY DEF b
    <3> QED
      BY <1>2, <1>6, <2>1, <3>1, <3>2
  <2>2. CASE a # b
    BY <1>4, <2>2 DEF Roomy
  <2> QED
    BY <2>1, <2>2
<1>8. ASSUME NEW v, InPlace(kept, v), Bucket(v) \in Buckets, v # worst \/ ~full
      PROVE  InPlace(new, v)
  BY <1>4, <1>8 DEF InPlace
<1>9. C # {} => InPlace(new, u)
  <2> SUFFICES ASSUME C # {} PROVE InPlace(new, u)
    OBVIOUS
  <2>1. u \in C
    BY <1>1, LeastView DEF u
  <2>2. InPlace(kept, u) /\ Bucket(u) \in Buckets
    BY <2>1 DEF Roomy, Framed, u
  <2> QED
    BY <1>3, <1>8, <2>2
<1>10. \A v \in BridgeViews(C, anchors) : InPlace(kept, v) => InPlace(new, v)
  <2> TAKE v \in BridgeViews(C, anchors)
  <2> HAVE InPlace(kept, v)
  <2>1. Bucket(v) \in Buckets
    BY DEF BridgeViews, Framed
  <2> QED
    BY <1>3, <1>8, <2>1
<1>11. InPlace(new, c)
  BY <1>4 DEF InPlace, b
<1> QED
  BY <1>5, <1>7, <1>9, <1>10, <1>11 DEF Roomy, StillIn, u

State(k, o, e) == [kept |-> k, overflow |-> o, bridges |-> e]
Keeping(s, l) == [s EXCEPT !.kept = l]

(* An assignment with other contents.                                      *)
LEMMA KeptReplaced ==
  ASSUME NEW k, NEW o, NEW e, NEW l
  PROVE  Keeping(State(k, o, e), l) = State(l, o, e)
  BY DEF State, Keeping

(* An assignment with one bucket replaced.                                 *)
LEMMA AssigningPut ==
  ASSUME NEW C, NEW anchors, NEW kept, NEW b, NEW X
  PROVE  [Assigning(kept, C, anchors) EXCEPT !.kept[b] = X] = Assigning([kept EXCEPT ![b] = X], C, anchors)
<1> DEFINE a == Assigning(kept, C, anchors)
           K == [kept EXCEPT ![b] = X]
<1>1. a.kept = kept
  BY DEF Assigning
<1>2. [a EXCEPT !.kept[b] = X] = [a EXCEPT !.kept = K]
  <2> HIDE DEF a
  <2> QED
    BY <1>1
<1>3. [a EXCEPT !.kept = K] = Assigning(K, C, anchors)
  <2> DEFINE E == Edges(BridgeViews(C, anchors))
             o == FALSE
  <2>1. Assigning(K, C, anchors) = State(K, o, E) /\ a = State(kept, o, E)
    BY Zenon DEF Assigning, State
  <2> HIDE DEF K, E, a, o
  <2>2. Keeping(State(kept, o, E), K) = State(K, o, E)
    BY KeptReplaced
  <2>3. Keeping(a, K) = Assigning(K, C, anchors)
    BY <2>1, <2>2
  <2> QED
    BY <2>3 DEF Keeping
<1> QED
  BY <1>2, <1>3

(* Reserving a bridge for any of its views ends with one of them in place  *)
(* and takes no other bridge out.                                          *)
LEMMA ReserveKeeps ==
  ASSUME NEW C, NEW anchors, Framed(C, anchors), NEW kept, Roomy(kept, C),
         NEW views \in SUBSET BridgeViews(C, anchors), views # {}
  PROVE  \E new : /\ ReserveBridge(Assigning(kept, C, anchors), views) = Assigning(new, C, anchors)
                  /\ Reserved(kept, new, C, anchors, views)
<1> DEFINE state == Assigning(kept, C, anchors)
           E == Edges(BridgeViews(C, anchors))
           choices == InOrder(views, CandidateLess)
           full(i) == Cardinality(state.kept[Bucket(choices[i])]) >= FrontierBucketLimit
           others(i) == {v \in state.kept[Bucket(choices[i])] : v.stats.edge \notin state.bridges}
           fits == {i \in 1..Len(choices) : ~full(i) \/ others(i) # {}}
           choice == CHOOSE i \in fits : \A j \in fits : i <= j
           worst == LastView(others(choice))
           survived == \E i \in 1..Len(choices) : choices[i] \in state.kept[Bucket(choices[i])]
           reserved == [state EXCEPT !.kept[Bucket(choices[choice])] =
                          (IF full(choice) THEN @ \ {worst} ELSE @) \cup {choices[choice]}]
           r == ReserveBridge(state, views)
<1>1. state.kept = kept /\ state.overflow = FALSE /\ state.bridges = E
  BY DEF Assigning
<1>2. r = CASE state.overflow \/ survived -> state
            [] OTHER -> IF fits = {} THEN [state EXCEPT !.overflow = TRUE] ELSE reserved
  BY DEF ReserveBridge, LastView
<1>3. Tame(views)
  <2>1. views \subseteq C /\ Tame(C)
    BY DEF BridgeViews, Framed
  <2> QED
    BY <2>1, TamePart
<1>4. /\ Len(choices) \in Nat /\ \A i \in 1..Len(choices) : choices[i] \in views
      /\ \A x \in views : \E i \in 1..Len(choices) : choices[i] = x
  BY <1>3, ViewsInOrder
<1>5. CASE survived
  <2>1. r = state
    BY <1>1, <1>2, <1>5
  <2>2. \E v \in views : InPlace(kept, v)
    BY <1>1, <1>4, <1>5 DEF InPlace
  <2> QED
    BY <2>1, <2>2 DEF Reserved, StillIn
<1>6. CASE ~survived
  <2>1. \A i \in 1..Len(choices) : choices[i] \in BridgeViews(C, anchors) /\ ~InPlace(kept, choices[i])
    BY <1>1, <1>4, <1>6 DEF InPlace
  <2>2. \A i \in 1..Len(choices) : i \in fits
    <3> TAKE i \in 1..Len(choices)
    <3> DEFINE d == choices[i]
               rest == {v \in kept[Bucket(d)] : v.stats.edge \notin E}
    <3>1. full(i) => others(i) # {}
      <4>1. d \in BridgeViews(C, anchors) /\ ~InPlace(kept, d)
        BY <2>1
      <4>2. (full(i) <=> Cardinality(kept[Bucket(d)]) >= FrontierBucketLimit) /\ others(i) = rest
        BY <1>1
      <4>3. Cardinality(kept[Bucket(d)]) >= FrontierBucketLimit => rest # {}
        <5> HIDE DEF d
        <5> QED
          BY <4>1, SomethingToGive
      <4> HIDE DEF full, others, rest
      <4> QED
        BY <4>2, <4>3
    <3> HIDE DEF full, others
    <3> QED
      BY <3>1
  <2>3. fits # {} /\ fits \subseteq 1..Len(choices)
    <3>1. fits \subseteq 1..Len(choices)
      OBVIOUS
    <3> HIDE DEF fits, choices
    <3> QED
      BY <1>4, <2>2, <3>1
  <2>4. choice \in fits
    <3> HIDE DEF fits
    <3>1. fits \in SUBSET Nat
      BY <1>4, <2>3
    <3>2. \E i \in fits : \A j \in fits : i <= j
      BY <2>3, <3>1, LeastNumber
    <3> QED
      BY <3>2
  <2>5. r = reserved
    <3> HIDE DEF fits, reserved, survived
    <3> QED
      BY <1>1, <1>2, <1>6, <2>3
  <2> DEFINE c == choices[choice]
             new == [kept EXCEPT ![Bucket(c)] =
                       (IF Cardinality(kept[Bucket(c)]) >= FrontierBucketLimit THEN kept[Bucket(c)] \ {worst}
                                                                              ELSE kept[Bucket(c)]) \cup {c}]
  <2>6. c \in views /\ c \in BridgeViews(C, anchors) /\ ~InPlace(kept, c)
    <3> HIDE DEF fits, choice, choices
    <3> QED
      BY <1>4, <2>1, <2>3, <2>4
  <2>7. worst = LastView({v \in kept[Bucket(c)] : v.stats.edge \notin E})
    BY <1>1
  <2>8. reserved = Assigning(new, C, anchors)
    <3> DEFINE X == (IF Cardinality(kept[Bucket(c)]) >= FrontierBucketLimit THEN kept[Bucket(c)] \ {worst}
                                                                              ELSE kept[Bucket(c)]) \cup {c}
    <3>1. reserved = [state EXCEPT !.kept[Bucket(c)] = X]
      BY <1>1
    <3>2. new = [kept EXCEPT ![Bucket(c)] = X]
      OBVIOUS
    <3>3. [state EXCEPT !.kept[Bucket(c)] = X] = Assigning([kept EXCEPT ![Bucket(c)] = X], C, anchors)
      <4> HIDE DEF X, c
      <4> QED
        BY AssigningPut, SMTT(30)
    <3> HIDE DEF X, c, new, reserved, state
    <3> QED
      BY <3>1, <3>2, <3>3
  <2>9. Roomy(new, C) /\ InPlace(new, c) /\ StillIn(kept, new, C, anchors)
    <3>1. PutsIn(new, kept, c, worst)
      BY DEF PutsIn
    <3>2. GivenUp(worst, kept, c, C, anchors)
      BY <2>7 DEF GivenUp
    <3> HIDE DEF worst, c, new, survived, r, state, fits, choices, choice, E, full, others, reserved
    <3> QED
      BY <2>6, <3>1, <3>2, PutIn
  <2> HIDE DEF new, c
  <2> QED
    BY <2>5, <2>6, <2>8, <2>9 DEF Reserved
<1> QED
  BY <1>5, <1>6

InBuckets(C) == [b \in Buckets |-> {c \in C : Bucket(c) = b}]
StartKept(C) == [b \in Buckets |-> FirstOf(InBuckets(C)[b], FrontierBucketLimit, CandidateLess)]
ViewsOf(bridges, order, i) == {w \in bridges : w.stats.edge = order[i].stats.edge}
ReserveAll(order, bridges, start, f) ==
  [i \in 0..Len(order) |-> IF i = 0 THEN start ELSE ReserveBridge(f[i - 1], ViewsOf(bridges, order, i))]
Reservations(order, bridges, start) == CHOOSE f : f = ReserveAll(order, bridges, start, f)
BridgeOrder(bridges) == InOrder(CanonicalUnion(bridges), CandidateLess)

(* The assignment is the last of the reservations, one for each bridge in  *)
(* order.                                                                  *)
LEMMA AssignmentIs ==
  ASSUME NEW C, NEW anchors, Framed(C, anchors)
  PROVE  LET order == BridgeOrder(BridgeViews(C, anchors))
         IN AssignFrontierBridges(InBuckets(C), anchors)
              = Reservations(order, BridgeViews(C, anchors), Assigning(StartKept(C), C, anchors))[Len(order)]
<1> DEFINE eligible == InBuckets(C)
           bridges == {v \in UNION {eligible[b] : b \in Buckets} : DirectAnchorBridge(anchors, v)}
           kept == [b \in Buckets |-> FirstOf(eligible[b], FrontierBucketLimit, CandidateLess)]
           start == [kept |-> kept, overflow |-> FALSE, bridges |-> {v.stats.edge : v \in bridges}]
           order == BridgeOrder(bridges)
<1>1. UNION {eligible[b] : b \in Buckets} = C
  BY DEF InBuckets, Framed
<1>2. bridges = BridgeViews(C, anchors)
  BY <1>1 DEF BridgeViews
<1>3. AssignFrontierBridges(eligible, anchors) = Reservations(order, bridges, start)[Len(order)]
  BY Zenon DEF AssignFrontierBridges, Reservations, ReserveAll, ViewsOf, BridgeOrder
<1>4. start = Assigning(StartKept(C), C, anchors)
  <2>1. kept = StartKept(C)
    BY DEF StartKept
  <2>2. {v.stats.edge : v \in bridges} = Edges(BridgeViews(C, anchors))
    BY <1>2 DEF Edges
  <2> HIDE DEF kept, bridges
  <2> QED
    BY <2>1, <2>2, Zenon DEF Assigning
<1> HIDE DEF bridges, start
<1> QED
  BY <1>2, <1>3, <1>4

(* Before any reservation, the buckets keep their own first few.           *)
LEMMA StartRoomy ==
  ASSUME NEW C, NEW anchors, Framed(C, anchors)
  PROVE  Roomy(StartKept(C), C)
<1> DEFINE kept == StartKept(C)
           of(b) == {c \in C : Bucket(c) = b}
           u == Least(C, CandidateLess)
<1>1. Tame(C) /\ \A c \in C : Bucket(c) \in Buckets
  BY DEF Framed
<1>2. kept = [b \in Buckets |-> FirstOf(of(b), FrontierBucketLimit, CandidateLess)]
  BY DEF StartKept, InBuckets
<1>3. ASSUME NEW b \in Buckets
      PROVE  /\ kept[b] \subseteq of(b) /\ IsFiniteSet(kept[b]) /\ Cardinality(kept[b]) <= FrontierBucketLimit
             /\ of(b) # {} => Least(of(b), CandidateLess) \in kept[b]
  <2>1. Tame(of(b))
    BY <1>1, TamePart
  <2>2. kept[b] = FirstOf(of(b), FrontierBucketLimit, CandidateLess)
    BY <1>2
  <2>3. FrontierBucketLimit \in Nat /\ FrontierBucketLimit >= 1
    BY Limits
  <2> HIDE DEF of, kept
  <2> QED
    BY <2>1, <2>2, <2>3, FirstViews
<1>4. kept \in [Buckets -> SUBSET C]
  <2>1. \A b \in Buckets : kept[b] \subseteq C
    BY <1>3
  <2>2. kept = [b \in Buckets |-> kept[b]]
    BY <1>2
  <2> HIDE DEF kept
  <2> QED
    BY <2>1, <2>2
<1>5. \A b \in Buckets : \A c \in kept[b] : Bucket(c) = b
  BY <1>3
<1> HIDE DEF kept, u
<1>6. C # {} => InPlace(kept, u)
  <2> SUFFICES ASSUME C # {} PROVE InPlace(kept, u)
    OBVIOUS
  <2>1. u \in C /\ \A y \in C \ {u} : CandidateLess(u, y)
    BY <1>1, LeastView DEF u
  <2> DEFINE b == Bucket(u)
  <2>2. b \in Buckets /\ u \in of(b) /\ of(b) \subseteq C
    BY <1>1, <2>1
  <2>3. Tame(of(b)) /\ of(b) # {}
    BY <1>1, <2>2, TamePart
  <2>4. \A y \in of(b) \ {u} : CandidateLess(u, y)
    BY <2>1, <2>2
  <2> HIDE DEF of
  <2>5. u = Least(of(b), CandidateLess)
    BY <2>2, <2>3, <2>4, LeastView
  <2>6. u \in kept[b]
    BY <1>3, <2>2, <2>3, <2>5
  <2> QED
    BY <2>6 DEF InPlace
<1> QED
  BY <1>3, <1>4, <1>5, <1>6 DEF Roomy, kept, u

(* A canonical union has one view of every edge.                           *)
LEMMA UnionIs ==
  ASSUME NEW S, Tame(S)
  PROVE  /\ CanonicalUnion(S) \subseteq S
         /\ Edges(CanonicalUnion(S)) = Edges(S)
         /\ S # {} => Least(S, CandidateLess) \in CanonicalUnion(S)
<1> DEFINE of(e) == {v \in S : v.stats.edge = e}
           best(e) == Least(of(e), CandidateLess)
           U == CanonicalUnion(S)
<1>1. U = {best(e) : e \in Edges(S)}
  BY DEF CanonicalUnion, Edges
<1>2. ASSUME NEW e \in Edges(S)
      PROVE  best(e) \in S /\ best(e).stats.edge = e
  <2>1. of(e) # {} /\ of(e) \subseteq S /\ Tame(of(e))
    BY TamePart DEF Edges
  <2>2. best(e) \in of(e)
    <3> HIDE DEF of
    <3> QED
      BY <2>1, LeastView
  <2> HIDE DEF best
  <2> QED
    BY <2>2
<1>3. ASSUME S # {}
      PROVE  Least(S, CandidateLess) \in U
  <2> DEFINE u == Least(S, CandidateLess)
             e == u.stats.edge
  <2>1. u \in S /\ \A y \in S \ {u} : CandidateLess(u, y)
    BY <1>3, LeastView
  <2> HIDE DEF u
  <2>2. u \in of(e) /\ Tame(of(e)) /\ of(e) \subseteq S /\ e \in Edges(S)
    BY <2>1, TamePart DEF Edges
  <2>3. \A y \in of(e) \ {u} : CandidateLess(u, y)
    BY <2>1, <2>2
  <2>4. u = best(e)
    <3> HIDE DEF of
    <3> QED
      BY <2>2, <2>3, LeastView
  <2> HIDE DEF best, U
  <2> QED
    BY <1>1, <2>2, <2>4 DEF u
<1> HIDE DEF best, U
<1>4. U \subseteq S
  BY <1>1, <1>2
<1>5. Edges(U) = Edges(S)
  BY <1>1, <1>2 DEF Edges
<1> QED
  BY <1>3, <1>4, <1>5 DEF U

(* What the reservations go through.                                       *)
Assignments(C, anchors) == {Assigning(k, C, anchors) : k \in {k \in [Buckets -> SUBSET C] : Roomy(k, C)}}

(* A reservation leads from assignment to assignment.                      *)
LEMMA ReservedAgain ==
  ASSUME NEW C, NEW anchors, Framed(C, anchors), NEW s \in Assignments(C, anchors),
         NEW views \in SUBSET BridgeViews(C, anchors), views # {}
  PROVE  ReserveBridge(s, views) \in Assignments(C, anchors)
<1>1. PICK k : Roomy(k, C) /\ s = Assigning(k, C, anchors)
  BY DEF Assignments
<1>2. PICK new : ReserveBridge(Assigning(k, C, anchors), views) = Assigning(new, C, anchors) /\ Roomy(new, C)
  BY <1>1, ReserveKeeps DEF Reserved
<1>3. new \in [Buckets -> SUBSET C]
  BY <1>2 DEF Roomy
<1> QED
  BY <1>1, <1>2, <1>3 DEF Assignments

(* The order of the bridges has every bridge in it.                        *)
LEMMA BridgesInOrder ==
  ASSUME NEW C, NEW anchors, Framed(C, anchors)
  PROVE  LET B == BridgeViews(C, anchors)
             order == BridgeOrder(B)
         IN /\ Len(order) \in Nat
            /\ \A i \in 1..Len(order) : ViewsOf(B, order, i) \in SUBSET B /\ ViewsOf(B, order, i) # {}
            /\ \A v \in B : \E i \in 1..Len(order) : order[i].stats.edge = v.stats.edge
<1> DEFINE B == BridgeViews(C, anchors)
           U == CanonicalUnion(B)
           order == BridgeOrder(B)
<1>1. Tame(B)
  BY TamePart DEF Framed, BridgeViews
<1>2. U \subseteq B /\ Edges(U) = Edges(B)
  BY <1>1, UnionIs
<1>3. Tame(U)
  BY <1>1, <1>2, TamePart
<1> HIDE DEF B, U
<1>4. order = InOrder(U, CandidateLess)
  BY DEF BridgeOrder, U
<1> HIDE DEF order
<1>5. /\ Len(order) \in Nat /\ \A i \in 1..Len(order) : order[i] \in U
      /\ \A x \in U : \E i \in 1..Len(order) : order[i] = x
  BY <1>3, <1>4, ViewsInOrder
<1>6. \A i \in 1..Len(order) : order[i] \in ViewsOf(B, order, i)
  BY <1>2, <1>5 DEF ViewsOf
<1>7. \A i : ViewsOf(B, order, i) \subseteq B
  BY DEF ViewsOf
<1>8. ASSUME NEW v \in B
      PROVE  \E i \in 1..Len(order) : order[i].stats.edge = v.stats.edge
  <2>1. v.stats.edge \in Edges(U)
    BY <1>2 DEF Edges
  <2>2. PICK x \in U : x.stats.edge = v.stats.edge
    BY <2>1 DEF Edges
  <2> QED
    BY <1>5, <2>2
<1> QED
  BY <1>5, <1>6, <1>7, <1>8 DEF B, order

(* The recursion of the reservations, step by step.                        *)
LEMMA ReservationsAre ==
  ASSUME NEW C, NEW anchors, Framed(C, anchors)
  PROVE  LET B == BridgeViews(C, anchors)
             order == BridgeOrder(B)
             state == Reservations(order, B, Assigning(StartKept(C), C, anchors))
         IN /\ state[0] = Assigning(StartKept(C), C, anchors)
            /\ \A i \in 1..Len(order) : state[i] = ReserveBridge(state[i - 1], ViewsOf(B, order, i))
<1> DEFINE B == BridgeViews(C, anchors)
           order == BridgeOrder(B)
           n == Len(order)
           V == Assignments(C, anchors)
           start == Assigning(StartKept(C), C, anchors)
           state == Reservations(order, B, start)
           next == [p \in (1..n) \X V |-> ReserveBridge(p[2], ViewsOf(B, order, p[1]))]
<1>1. n \in Nat /\ \A i \in 1..n : ViewsOf(B, order, i) \in SUBSET B /\ ViewsOf(B, order, i) # {}
  BY BridgesInOrder
<1>2. start \in V
  <2>1. Roomy(StartKept(C), C)
    BY StartRoomy
  <2>2. StartKept(C) \in [Buckets -> SUBSET C]
    BY <2>1 DEF Roomy
  <2> QED
    BY <2>1, <2>2 DEF Assignments
<1>3. \A i \in 1..n, s \in V : ReserveBridge(s, ViewsOf(B, order, i)) \in V
  <2> TAKE i \in 1..n, s \in V
  <2> DEFINE views == ViewsOf(B, order, i)
  <2>1. views \in SUBSET BridgeViews(C, anchors) /\ views # {}
    BY <1>1
  <2> HIDE DEF views
  <2>2. ReserveBridge(s, views) \in Assignments(C, anchors)
    BY <2>1, ReservedAgain
  <2> QED
    BY <2>2 DEF views
<1> HIDE DEF n, V, start, B, order
<1>4. next \in Steps(V, n)
  <2>1. \A p \in (1..n) \X V : ReserveBridge(p[2], ViewsOf(B, order, p[1])) \in V
    BY <1>3
  <2> QED
    BY <2>1 DEF Steps
<1>5. \A i \in 1..n, s \in V : next[<<i, s>>] = ReserveBridge(s, ViewsOf(B, order, i))
  OBVIOUS
<1> HIDE DEF next
<1>6. PICK f : Solves(f, V, start, n, next)
  BY <1>1, <1>2, <1>4, Recursion
<1>7. f \in [0..n -> V] /\ f[0] = start /\ \A i \in 1..n : f[i] = ReserveBridge(f[i - 1], ViewsOf(B, order, i))
  <2>1. f \in [0..n -> V] /\ f[0] = start /\ \A i \in 1..n : f[i] = next[<<i, f[i - 1]>>]
    BY <1>6 DEF Solves
  <2>2. \A i \in 1..n : f[i - 1] \in V
    BY <1>1, <2>1
  <2> QED
    BY <1>5, <2>1, <2>2
<1>8. f = ReserveAll(order, B, start, f)
  <2> DEFINE g == ReserveAll(order, B, start, f)
  <2>1. /\ g = [i \in 0..n |-> g[i]]
        /\ \A i \in 0..n : g[i] = IF i = 0 THEN start ELSE ReserveBridge(f[i - 1], ViewsOf(B, order, i))
    BY DEF ReserveAll, n
  <2> HIDE DEF g
  <2>2. \A i \in 0..n : g[i] = f[i]
    BY <1>1, <1>7, <2>1
  <2>3. g = f
    BY <1>7, <2>1, <2>2
  <2> QED
    BY <2>3 DEF g
<1>9. state = ReserveAll(order, B, start, state)
  BY <1>8 DEF Reservations
<1> HIDE DEF state
<1>10. /\ 0 \in 0..n /\ \A i \in 1..n : i \in 0..n /\ i # 0
  BY <1>1
<1>11. \A i \in 0..n : state[i] = IF i = 0 THEN start ELSE ReserveBridge(state[i - 1], ViewsOf(B, order, i))
  <2> DEFINE g == ReserveAll(order, B, start, state)
  <2>1. \A i \in 0..n : g[i] = IF i = 0 THEN start ELSE ReserveBridge(state[i - 1], ViewsOf(B, order, i))
    BY DEF ReserveAll, n
  <2> HIDE DEF g
  <2>2. g = state
    BY <1>9 DEF g
  <2> QED
    BY <2>1, <2>2
<1> QED
  BY <1>10, <1>11 DEF state, start, order, n, B

(* One of the views of an edge is in place.                                *)
Covered(kept, views) == \E v \in views : InPlace(kept, v)

(* However many reservations, those made stay, and there is room.          *)
LEMMA ReservationsKeep ==
  ASSUME NEW C, NEW anchors, Framed(C, anchors)
  PROVE  LET B == BridgeViews(C, anchors)
             order == BridgeOrder(B)
             state == Reservations(order, B, Assigning(StartKept(C), C, anchors))
         IN \E kept : /\ state[Len(order)] = Assigning(kept, C, anchors) /\ Roomy(kept, C)
                      /\ \A j \in 1..Len(order) : Covered(kept, ViewsOf(B, order, j))
<1> DEFINE B == BridgeViews(C, anchors)
           order == BridgeOrder(B)
           n == Len(order)
           start == Assigning(StartKept(C), C, anchors)
           state == Reservations(order, B, start)
           Good(i, kept) == /\ state[i] = Assigning(kept, C, anchors) /\ Roomy(kept, C)
                            /\ \A j \in 1..i : Covered(kept, ViewsOf(B, order, j))
           S == {i \in Nat : i <= n => \E kept : Good(i, kept)}
<1>1. n \in Nat /\ \A i \in 1..n : ViewsOf(B, order, i) \in SUBSET B /\ ViewsOf(B, order, i) # {}
  BY BridgesInOrder
<1>2. state[0] = start /\ \A i \in 1..n : state[i] = ReserveBridge(state[i - 1], ViewsOf(B, order, i))
  BY ReservationsAre
<1>3. Roomy(StartKept(C), C)
  BY StartRoomy
<1> HIDE DEF state
<1>4. 0 \in S
  <2>1. Good(0, StartKept(C))
    BY <1>2, <1>3
  <2> HIDE DEF Good
  <2> QED
    BY <2>1
<1> HIDE DEF n, order
<1>5. ASSUME NEW i \in Nat, i \in S PROVE i + 1 \in S
  <2> SUFFICES ASSUME i + 1 <= n PROVE \E kept : Good(i + 1, kept)
    OBVIOUS
  <2>1. i <= n /\ i + 1 \in 1..n /\ (i + 1) - 1 = i
    BY <1>1
  <2>2. PICK kept : Good(i, kept)
    BY <1>5, <2>1
  <2> DEFINE views == ViewsOf(B, order, i + 1)
  <2>3. views \in SUBSET B /\ views # {}
    BY <1>1, <2>1
  <2>4. state[i + 1] = ReserveBridge(Assigning(kept, C, anchors), views)
    BY <1>2, <2>1, <2>2
  <2> HIDE DEF views
  <2>5. PICK new : /\ ReserveBridge(Assigning(kept, C, anchors), views) = Assigning(new, C, anchors)
                   /\ Reserved(kept, new, C, anchors, views)
    BY <2>2, <2>3, ReserveKeeps
  <2>6. Roomy(new, C) /\ StillIn(kept, new, C, anchors) /\ Covered(new, views)
    BY <2>5 DEF Reserved, Covered
  <2>7. \A j \in 1..i : Covered(new, ViewsOf(B, order, j))
    <3> TAKE j \in 1..i
    <3>1. j \in 1..n
      BY <1>1, <2>1
    <3>2. Covered(kept, ViewsOf(B, order, j)) /\ ViewsOf(B, order, j) \subseteq B
      BY <1>1, <2>2, <3>1
    <3> QED
      BY <2>6, <3>2 DEF Covered, StillIn
  <2>8. \A j \in 1..(i + 1) : j \in 1..i \/ j = i + 1
    OBVIOUS
  <2>9. \A j \in 1..(i + 1) : Covered(new, ViewsOf(B, order, j))
    BY <2>6, <2>7, <2>8 DEF views
  <2>10. Good(i + 1, new)
    BY <2>4, <2>5, <2>6, <2>9
  <2> HIDE DEF Good
  <2> QED
    BY <2>10
<1>6. n \in S
  <2> HIDE DEF S
  <2> QED
    BY <1>1, <1>4, <1>5, Climb
<1>7. \E kept : Good(n, kept)
  BY <1>1, <1>6
<1> QED
  BY <1>7 DEF state, order, n

(* What the assignment comes to: nothing overflows, and every direct       *)
(* bridge has one of its views in place.                                   *)
LEMMA Assigned ==
  ASSUME NEW C, NEW anchors, Framed(C, anchors)
  PROVE  \E kept : /\ AssignFrontierBridges(InBuckets(C), anchors) = Assigning(kept, C, anchors)
                   /\ Roomy(kept, C)
                   /\ \A v \in BridgeViews(C, anchors) :
                        \E w \in BridgeViews(C, anchors) : w.stats.edge = v.stats.edge /\ InPlace(kept, w)
<1> DEFINE B == BridgeViews(C, anchors)
           order == BridgeOrder(B)
           state == Reservations(order, B, Assigning(StartKept(C), C, anchors))
<1>1. PICK kept : /\ state[Len(order)] = Assigning(kept, C, anchors) /\ Roomy(kept, C)
                  /\ \A j \in 1..Len(order) : Covered(kept, ViewsOf(B, order, j))
  BY ReservationsKeep
<1>2. AssignFrontierBridges(InBuckets(C), anchors) = state[Len(order)]
  BY AssignmentIs
<1>3. \A v \in B : \E i \in 1..Len(order) : order[i].stats.edge = v.stats.edge
  BY BridgesInOrder
<1> HIDE DEF state, order, B
<1>4. \A v \in B : \E w \in B : w.stats.edge = v.stats.edge /\ InPlace(kept, w)
  BY <1>1, <1>3 DEF Covered, ViewsOf
<1> QED
  BY <1>1, <1>2, <1>4 DEF B

(* How many numbers there are from a to b.                                 *)
LEMMA IntervalSize ==
  ASSUME NEW a \in Int, NEW b \in Int, a <= b
  PROVE  IsFiniteSet(a..b) /\ Cardinality(a..b) = b - a + 1
  BY FS_Interval

(* There are at most sixteen buckets.                                      *)
LEMMA BucketsFew ==
  IsFiniteSet(Buckets) /\ Cardinality(Buckets) \in Nat /\ Cardinality(Buckets) <= 16
<1> DEFINE A == 1..2
           D == {"FORWARD", "REVERSE"}
           P == (A \X D) \X Tiers
           f == [p \in P |-> <<p[1][1], p[1][2], p[2]>>]
<1>1. IsFiniteSet(A) /\ Cardinality(A) = 2
  <2> DEFINE l == 1
             h == 2
  <2>1. A = l..h /\ l \in Int /\ h \in Int /\ l <= h /\ h - l + 1 = 2
    OBVIOUS
  <2> HIDE DEF l, h, A
  <2> QED
    BY <2>1, IntervalSize
<1>2. IsFiniteSet(D) /\ Cardinality(D) = 2
  <2>1. D = {"FORWARD"} \cup {"REVERSE"}
    OBVIOUS
  <2>2. IsFiniteSet({"FORWARD"}) /\ Cardinality({"FORWARD"}) = 1
    BY FS_Singleton
  <2>3. /\ IsFiniteSet({"FORWARD"} \cup {"REVERSE"})
        /\ Cardinality({"FORWARD"} \cup {"REVERSE"}) = IF "REVERSE" \in {"FORWARD"} THEN 1 ELSE 1 + 1
    BY <2>2, FS_AddElement
  <2> QED
    BY <2>1, <2>3
<1>3. IsFiniteSet(Tiers) /\ Cardinality(Tiers) = 4
  <2>1. Tiers = 0..3
    BY RankingAssumption DEF RankingAssumption
  <2>2. IsFiniteSet(0..3) /\ Cardinality(0..3) = 4
    <3> DEFINE l == 0
               h == 3
    <3>1. 0..3 = l..h /\ l \in Int /\ h \in Int /\ l <= h /\ h - l + 1 = 4
      OBVIOUS
    <3> HIDE DEF l, h
    <3>2. IsFiniteSet(l..h) /\ Cardinality(l..h) = 4
      BY <3>1, IntervalSize
    <3> QED
      BY <3>1, <3>2
  <2> QED
    BY <2>1, <2>2
<1> HIDE DEF A, D
<1>4. IsFiniteSet(A \X D) /\ Cardinality(A \X D) = 4
  <2>1. IsFiniteSet(A \X D) /\ Cardinality(A \X D) = Cardinality(A) * Cardinality(D)
    BY <1>1, <1>2, FS_Product
  <2> QED
    BY <1>1, <1>2, <2>1
<1>5. IsFiniteSet(P) /\ Cardinality(P) = 16
  <2>1. IsFiniteSet(P) /\ Cardinality(P) = Cardinality(A \X D) * Cardinality(Tiers)
    BY <1>3, <1>4, FS_Product
  <2> QED
    BY <1>3, <1>4, <2>1
<1>6. Buckets = {f[p] : p \in P}
  <2>1. Buckets = A \X D \X Tiers
    BY DEF Buckets, A, D
  <2>2. ASSUME NEW b \in A \X D \X Tiers PROVE \E p \in P : f[p] = b
    <3>1. b = <<b[1], b[2], b[3]>> /\ b[1] \in A /\ b[2] \in D /\ b[3] \in Tiers
      OBVIOUS
    <3>2. <<<<b[1], b[2]>>, b[3]>> \in P
      BY <3>1
    <3>3. f[<<<<b[1], b[2]>>, b[3]>>] = b
      BY <3>1, <3>2
    <3> QED
      BY <3>2, <3>3
  <2>3. ASSUME NEW p \in P PROVE f[p] \in A \X D \X Tiers
    OBVIOUS
  <2> HIDE DEF f, P
  <2> QED
    BY <2>1, <2>2, <2>3
<1>7. DOMAIN f = P /\ f = [p \in P |-> f[p]]
  OBVIOUS
<1> HIDE DEF f, P
<1>8. IsFiniteSet({f[p] : p \in P}) /\ Cardinality({f[p] : p \in P}) <= Cardinality(P)
  BY <1>5, <1>7, Values
<1> QED
  BY <1>5, <1>6, <1>8, FS_CardinalityType

(* So many sets of so many elements.                                       *)
Within(S, n) == IsFiniteSet(S) /\ Cardinality(S) \in Nat /\ Cardinality(S) <= n
Together(kept, J) == UNION {kept[b] : b \in J}

(* The sizes of two sets together.                                         *)
LEMMA TwoTogether ==
  ASSUME NEW S, NEW T, NEW m \in Nat, NEW n \in Nat, Within(S, m), Within(T, n)
  PROVE  Within(S \cup T, m + n)
<1>1. IsFiniteSet(S) /\ IsFiniteSet(T)
  BY DEF Within
<1>2. /\ IsFiniteSet(S \cup T)
      /\ Cardinality(S \cup T) = Cardinality(S) + Cardinality(T) - Cardinality(S \cap T)
  BY <1>1, FS_Union
<1>3. IsFiniteSet(S \cap T)
  BY <1>1, FS_Subset
<1>4. Cardinality(S \cap T) \in Nat /\ Cardinality(S \cup T) \in Nat
  BY <1>2, <1>3, FS_CardinalityType
<1> QED
  BY <1>2, <1>4 DEF Within

(* Sets of at most n, one for each i, are at most n each together.         *)
LEMMA AllTogether ==
  ASSUME NEW I, IsFiniteSet(I), NEW n \in Nat, NEW kept, \A b \in I : Within(kept[b], n)
  PROVE  Within(Together(kept, I), Cardinality(I) * n)
<1> DEFINE Bounded(m) == \A J \in SUBSET I : Cardinality(J) = m => Within(Together(kept, J), m * n)
           S == {m \in Nat : Bounded(m)}
<1>1. 0 \in S
  <2>1. ASSUME NEW J \in SUBSET I, Cardinality(J) = 0 PROVE Within(Together(kept, J), 0 * n)
    <3>1. J = {}
      BY <2>1, FS_Subset, FS_EmptySet
    <3>2. Together(kept, J) = {}
      BY <3>1 DEF Together
    <3>3. IsFiniteSet({}) /\ Cardinality({}) = 0 /\ 0 * n = 0
      BY FS_EmptySet
    <3> QED
      BY <3>2, <3>3 DEF Within
  <2> QED
    BY <2>1
<1>2. ASSUME NEW m \in Nat, m \in S PROVE m + 1 \in S
  <2>1. ASSUME NEW J \in SUBSET I, Cardinality(J) = m + 1
        PROVE  Within(Together(kept, J), (m + 1) * n)
    <3>1. IsFiniteSet(J)
      BY FS_Subset
    <3>2. J # {}
      BY <2>1, FS_EmptySet
    <3>3. PICK x \in J : TRUE
      BY <3>2
    <3> DEFINE K == J \ {x}
    <3>4. K \in SUBSET I /\ Cardinality(K) = m
      <4>1. IsFiniteSet(K) /\ Cardinality(K) = Cardinality(J) - 1
        BY <3>1, FS_RemoveElement
      <4> HIDE DEF K
      <4>2. Cardinality(K) = m
        BY <2>1, <4>1
      <4> QED
        BY <4>2 DEF K
    <3>5. Together(kept, J) = Together(kept, K) \cup kept[x]
      BY DEF Together
    <3>6. Within(Together(kept, K), m * n)
      <4> HIDE DEF K
      <4> QED
        BY <1>2, <3>4
    <3>7. Within(kept[x], n) /\ m * n \in Nat /\ (m + 1) * n = m * n + n
      OBVIOUS
    <3> HIDE DEF K
    <3>8. Within(Together(kept, K) \cup kept[x], m * n + n)
      BY <3>6, <3>7, TwoTogether
    <3> QED
      BY <3>5, <3>7, <3>8
  <2>2. Bounded(m + 1)
    BY <2>1
  <2> HIDE DEF Bounded
  <2> QED
    BY <2>2
<1>3. Cardinality(I) \in Nat
  BY FS_CardinalityType
<1>4. Cardinality(I) \in S
  <2> HIDE DEF S
  <2> QED
    BY <1>1, <1>2, <1>3, Climb
<1> QED
  BY <1>4

(* What the frontier keeps of the candidates C.                            *)
Frontier(final, C, anchors) ==
  /\ final \subseteq C /\ Tame(final)
  /\ Cardinality(final) \in Nat /\ Cardinality(final) <= FrontierGlobalLimit
  /\ Edges(BridgeViews(C, anchors)) \subseteq Edges(final)
  /\ C # {} => final # {} /\ Least(final, CandidateLess) = Least(C, CandidateLess)

(* The first of all is the first of any part that has it.                  *)
LEMMA LeastOfPart ==
  ASSUME NEW S, Tame(S), NEW T \in SUBSET S, Least(S, CandidateLess) \in T
  PROVE  Least(T, CandidateLess) = Least(S, CandidateLess)
<1> DEFINE u == Least(S, CandidateLess)
<1>1. u \in S /\ \A y \in S \ {u} : CandidateLess(u, y)
  BY LeastView
<1> HIDE DEF u
<1>2. u \in T /\ \A y \in T \ {u} : CandidateLess(u, y)
  BY <1>1 DEF u
<1>3. Tame(T)
  BY TamePart
<1>4. u = Least(T, CandidateLess)
  BY <1>2, <1>3, LeastView
<1> QED
  BY <1>4 DEF u

(* The frontier is built without overflow, and is what it should be.       *)
LEMMA TraceIs ==
  ASSUME NEW C, NEW anchors, Framed(C, anchors)
  PROVE  LET trace == BuildFrontierTrace(C, anchors)
         IN trace.universe = C /\ trace.overflow = FALSE /\ Frontier(trace.final, C, anchors)
<1> DEFINE trace == BuildFrontierTrace(C, anchors)
           assigned == AssignFrontierBridges(InBuckets(C), anchors)
           P == UNION {assigned.kept[b] : b \in Buckets}
           final == CanonicalUnion(P)
           B == BridgeViews(C, anchors)
<1>1. /\ trace.universe = C /\ trace.overflow = assigned.overflow
      /\ trace.final = IF assigned.overflow THEN {} ELSE final
  BY DEF BuildFrontierTrace, InBuckets
<1>2. PICK kept : /\ assigned = Assigning(kept, C, anchors) /\ Roomy(kept, C)
                  /\ \A v \in B : \E w \in B : w.stats.edge = v.stats.edge /\ InPlace(kept, w)
  BY Assigned
<1>3. assigned.kept = kept /\ assigned.overflow = FALSE
  BY <1>2 DEF Assigning
<1>4. P = Together(kept, Buckets)
  BY <1>3 DEF Together
<1> HIDE DEF trace, assigned, P
<1>5. P \subseteq C
  BY <1>2, <1>4 DEF Together, Roomy
<1>6. \A v \in C : InPlace(kept, v) => v \in P
  BY <1>2, <1>4 DEF Together, InPlace, Framed
<1>7. Tame(C) /\ Tame(P)
  BY <1>5, TamePart DEF Framed
<1>8. /\ final \subseteq P /\ Edges(final) = Edges(P)
      /\ P # {} => Least(P, CandidateLess) \in final
  BY <1>7, UnionIs
<1>9. Within(P, 16 * FrontierBucketLimit)
  <2> DEFINE k == Cardinality(Buckets)
             l == FrontierBucketLimit
  <2>1. \A b \in Buckets : Within(kept[b], FrontierBucketLimit)
    BY <1>2, FS_CardinalityType DEF Roomy, Within
  <2>2. Within(P, k * l)
    BY <1>4, <2>1, BucketsFew, Limits, AllTogether
  <2>3. k \in Nat /\ k <= 16 /\ l \in Nat
    BY BucketsFew, Limits
  <2> HIDE DEF k, l
  <2>4. k * l <= 16 * l /\ k * l \in Nat /\ 16 * l \in Nat
    BY <2>3
  <2> QED
    BY <2>2, <2>4 DEF Within, l
<1> HIDE DEF final
<1>10. Tame(final) /\ Cardinality(final) \in Nat /\ Cardinality(final) <= FrontierGlobalLimit
  <2>1. Tame(final)
    BY <1>7, <1>8, TamePart
  <2>2. IsFiniteSet(P) /\ Cardinality(P) \in Nat /\ Cardinality(P) <= 16 * FrontierBucketLimit
    BY <1>9 DEF Within
  <2>3. IsFiniteSet(final) /\ Cardinality(final) <= Cardinality(P)
    BY <1>8, <2>2, FS_Subset
  <2>4. Cardinality(final) \in Nat
    BY <2>3, FS_CardinalityType
  <2> QED
    BY <2>1, <2>2, <2>3, <2>4, Limits
<1>11. Edges(B) \subseteq Edges(final)
  <2>1. ASSUME NEW v \in B PROVE v.stats.edge \in Edges(P)
    <3>1. PICK w \in B : w.stats.edge = v.stats.edge /\ InPlace(kept, w)
      BY <1>2
    <3>2. w \in P
      BY <1>6, <3>1 DEF B, BridgeViews
    <3> QED
      BY <3>1, <3>2 DEF Edges
  <2>2. Edges(B) \subseteq Edges(P)
    BY <2>1 DEF Edges
  <2> QED
    BY <1>8, <2>2
<1>12. ASSUME C # {} PROVE final # {} /\ Least(final, CandidateLess) = Least(C, CandidateLess)
  <2> DEFINE u == Least(C, CandidateLess)
  <2>1. u \in C
    BY <1>7, <1>12, LeastView
  <2>2. u \in P
    BY <1>2, <1>6, <1>12, <2>1 DEF Roomy
  <2>3. Least(P, CandidateLess) = u
    BY <1>5, <1>7, <2>2, LeastOfPart
  <2>4. u \in final
    BY <1>8, <2>2, <2>3
  <2>5. final \in SUBSET C
    BY <1>5, <1>8
  <2> HIDE DEF u
  <2>6. Least(final, CandidateLess) = u
    BY <1>7, <2>4, <2>5, LeastOfPart DEF u
  <2> QED
    BY <2>4, <2>6 DEF u
<1>13. Frontier(final, C, anchors)
  BY <1>5, <1>8, <1>10, <1>11, <1>12 DEF Frontier, B
<1> QED
  BY <1>1, <1>3, <1>13 DEF trace, final

-----------------------------------------------------------------------------
(* The choice among what only the graph knows.                             *)

(* In a finite strict partial order, over[v] being what is above v, every  *)
(* element is below a maximal one or is one.                               *)
PartialOver(S, over) ==
  /\ over \in [S -> SUBSET S]
  /\ \A v \in S : v \notin over[v]
  /\ \A v, w \in S : w \in over[v] => over[w] \subseteq over[v]

(* In a finite strict partial order, a maximal element is at or above any  *)
(* other.                                                                  *)
LEMMA MaximalAbove ==
  ASSUME NEW S, IsFiniteSet(S), NEW over, PartialOver(S, over), NEW v \in S
  PROVE  \E x \in S : over[x] = {} /\ (x = v \/ x \in over[v])
<1> DEFINE A == over[v] \cup {v}
           T == {Cardinality(over[x]) : x \in A}
<1>1. A \subseteq S /\ v \in A
  BY DEF PartialOver
<1>2. \A x \in S : IsFiniteSet(over[x]) /\ Cardinality(over[x]) \in Nat
  <2> TAKE x \in S
  <2>1. over[x] \subseteq S
    BY DEF PartialOver
  <2> QED
    BY <2>1, FS_Subset, FS_CardinalityType
<1>3. T \in SUBSET Nat /\ T # {}
  BY <1>1, <1>2
<1>4. PICK t \in T : \A s \in T : t <= s
  <2> HIDE DEF T
  <2> QED
    BY <1>3, LeastNumber
<1>5. PICK x \in A : t = Cardinality(over[x])
  BY <1>4
<1>6. x \in S
  BY <1>1, <1>5
<1>7. over[x] = {}
  <2> SUFFICES ASSUME NEW y \in over[x] PROVE FALSE
    OBVIOUS
  <2>1. y \in S /\ y \in over[v] /\ over[y] \subseteq over[x] /\ y \notin over[y]
    BY <1>5, <1>6 DEF PartialOver
  <2>2. y \in A
    BY <2>1
  <2>3. Cardinality(over[y]) < Cardinality(over[x])
    BY <1>2, <1>6, <2>1, ProperPart
  <2>4. Cardinality(over[x]) <= Cardinality(over[y])
    BY <1>4, <1>5, <2>2
  <2>5. Cardinality(over[x]) \in Nat /\ Cardinality(over[y]) \in Nat
    BY <1>2, <1>6, <2>1
  <2> QED
    BY <2>3, <2>4, <2>5
<1> QED
  BY <1>5, <1>6, <1>7

(* Dominance within a tier.                                                *)
Beats(w, v) == v.stats.edge.tier = w.stats.edge.tier /\ ParetoDominates(w, v)

(* Dominance within a tier is a strict partial order.                      *)
LEMMA Dominance ==
  ASSUME NEW u, NEW v, NEW w, StatsOk(u.stats), StatsOk(v.stats), StatsOk(w.stats)
  PROVE  ~Beats(v, v) /\ (Beats(u, v) /\ Beats(v, w) => Beats(u, w))
<1> DEFINE a == u.stats.occurrences
           b == u.stats.sourceOccurrences
           c == v.stats.occurrences
           d == v.stats.sourceOccurrences
           e == w.stats.occurrences
           f == w.stats.sourceOccurrences
           p(x) == x.stats.sourceTargets
           q(x) == x.stats.targetSources
<1>1. /\ a \in Int /\ b \in Positive /\ c \in Int /\ d \in Positive /\ e \in Int /\ f \in Positive
      /\ \A x \in {u, v, w} : p(x) \in Int /\ q(x) \in Int
  BY DEF StatsOk, Positive
<1>2. /\ ParetoDominates(v, v) <=> /\ c * d - c * d >= 0 /\ p(v) <= p(v) /\ q(v) <= q(v)
                                   /\ c * d - c * d > 0 \/ p(v) < p(v) \/ q(v) < q(v)
      /\ ParetoDominates(u, v) <=> /\ a * d - c * b >= 0 /\ p(u) <= p(v) /\ q(u) <= q(v)
                                   /\ a * d - c * b > 0 \/ p(u) < p(v) \/ q(u) < q(v)
      /\ ParetoDominates(v, w) <=> /\ c * f - e * d >= 0 /\ p(v) <= p(w) /\ q(v) <= q(w)
                                   /\ c * f - e * d > 0 \/ p(v) < p(w) \/ q(v) < q(w)
      /\ ParetoDominates(u, w) <=> /\ a * f - e * b >= 0 /\ p(u) <= p(w) /\ q(u) <= q(w)
                                   /\ a * f - e * b > 0 \/ p(u) < p(w) \/ q(u) < q(w)
  BY DEF ParetoDominates
<1>3. p(u) \in Int /\ p(v) \in Int /\ p(w) \in Int /\ q(u) \in Int /\ q(v) \in Int /\ q(w) \in Int
  BY <1>1
<1>4. /\ c * d \in Int /\ a * d \in Int /\ c * b \in Int /\ c * f \in Int /\ e * d \in Int
      /\ a * f \in Int /\ e * b \in Int
  <2> HIDE DEF a, b, c, d, e, f
  <2> QED
    BY <1>1 DEF Positive
<1>5. a * d >= c * b /\ c * f >= e * d =>
        /\ a * f >= e * b
        /\ a * d > c * b \/ c * f > e * d => a * f > e * b
  <2> HIDE DEF a, b, c, d, e, f
  <2> QED
    BY <1>1, Fractions
<1> DEFINE ad == a * d
           cb == c * b
           cf == c * f
           ed == e * d
           af == a * f
           eb == e * b
           cd == c * d
<1>6. ~ParetoDominates(v, v)
  BY <1>2, <1>3, <1>4
<1>7. ParetoDominates(u, v) /\ ParetoDominates(v, w) => ParetoDominates(u, w)
  <2>1. \A x, y \in Int : (x - y >= 0 <=> x >= y) /\ (x - y > 0 <=> x > y)
    OBVIOUS
  <2>2. /\ (a * d - c * b >= 0 <=> a * d >= c * b) /\ (a * d - c * b > 0 <=> a * d > c * b)
        /\ (c * f - e * d >= 0 <=> c * f >= e * d) /\ (c * f - e * d > 0 <=> c * f > e * d)
        /\ (a * f - e * b >= 0 <=> a * f >= e * b) /\ (a * f - e * b > 0 <=> a * f > e * b)
    BY <1>4, <2>1
  <2> HIDE DEF a, b, c, d, e, f, p, q
  <2> QED
    BY <1>2, <1>3, <1>5, <2>2
<1> QED
  BY <1>6, <1>7 DEF Beats

(* Whoever does not survive is dominated by one who does.                  *)
LEMMA SurvivorsAbove ==
  ASSUME NEW S, IsFiniteSet(S), \A v \in S : StatsOk(v.stats), NEW v \in S
  PROVE  \E x \in Survivors(S) : x = v \/ ParetoDominates(x, v)
<1> DEFINE over == [y \in S |-> {w \in S : Beats(w, y)}]
<1>1. PartialOver(S, over)
  <2>1. over \in [S -> SUBSET S] /\ \A x, y \in S : x \in over[y] <=> Beats(x, y)
    OBVIOUS
  <2>2. \A x \in S : ~Beats(x, x)
    BY Dominance
  <2>3. \A x, y, z \in S : Beats(x, y) /\ Beats(y, z) => Beats(x, z)
    BY Dominance
  <2> HIDE DEF over
  <2> QED
    BY <2>1, <2>2, <2>3 DEF PartialOver
<1>2. \A x \in S : over[x] = {w \in S : Beats(w, x)}
  OBVIOUS
<1> HIDE DEF over
<1>3. PICK x \in S : over[x] = {} /\ (x = v \/ x \in over[v])
  BY <1>1, MaximalAbove
<1>4. x \in Survivors(S)
  BY <1>2, <1>3 DEF Survivors, Beats
<1>5. x = v \/ ParetoDominates(x, v)
  BY <1>2, <1>3 DEF Beats
<1> QED
  BY <1>4, <1>5

(* What the graph-only policy answers and why.                             *)
LEMMA GraphOnlyIs ==
  ASSUME NEW trace, trace.overflow = FALSE, NEW anchors, NEW hits,
         IsFiniteSet(trace.final), \A v \in trace.final : StatsOk(v.stats)
  PROVE  LET b == SelectFrontierBundle(trace, anchors, hits, "frontier-graph-only-pareto")
             S == GraphOnly(trace.final, anchors, hits)
         IN /\ b.why = "NO_CANDIDATE" => S = {}
            /\ b.why = "ONE_WINNER" => \A v \in S \ {b.selected} : ParetoDominates(b.selected, v)
<1> DEFINE b == SelectFrontierBundle(trace, anchors, hits, "frontier-graph-only-pareto")
           S == GraphOnly(trace.final, anchors, hits)
           bridges == {v \in trace.final : DirectAnchorBridge(anchors, v)}
           decision == FrontierGraphOnlyDecision(trace.final, anchors, hits)
<1>1. b.selected = decision.selected /\ b.why = decision.outcome
  <2>1. b = IF decision.selected = None THEN [Nothing EXCEPT !.why = decision.outcome]
            ELSE [Nothing EXCEPT !.selected = decision.selected, !.order = decision.selected.tuple, !.why = decision.outcome,
                                 !.added = Added(<<decision.selected.stats.edge.source, decision.selected.stats.edge.target>>, hits)]
    BY DEF SelectFrontierBundle
  <2> HIDE DEF decision, b
  <2>2. CASE decision.selected = None
    BY <2>1, <2>2 DEF Nothing
  <2>3. CASE decision.selected # None
    BY <2>1, <2>3 DEF Nothing
  <2> QED
    BY <2>2, <2>3
<1>2. IsFiniteSet(S) /\ \A v \in S : StatsOk(v.stats)
  <2>1. S \subseteq trace.final
    BY DEF GraphOnly
  <2> QED
    BY <2>1, FS_Subset
<1>3. decision = CASE bridges # {} -> [outcome |-> "DIRECT_BRIDGE", selected |-> Least(bridges, CandidateLess)]
                   [] bridges = {} /\ Survivors(S) = {} -> [outcome |-> "NO_CANDIDATE", selected |-> None]
                   [] bridges = {} /\ Cardinality(Survivors(S)) = 1 ->
                        [outcome |-> "ONE_WINNER", selected |-> CHOOSE v \in Survivors(S) : TRUE]
                   [] OTHER -> [outcome |-> "MULTIPLE_WINNERS", selected |-> None]
  BY DEF FrontierGraphOnlyDecision
<1> HIDE DEF S, b
<1>4. ASSUME decision.outcome = "NO_CANDIDATE" PROVE S = {}
  <2>1. Survivors(S) = {}
    <3> HIDE DEF bridges
    <3> QED
      BY <1>3, <1>4
  <2> QED
    BY <1>2, <2>1, SurvivorsAbove
<1>5. ASSUME decision.outcome = "ONE_WINNER"
      PROVE  \A v \in S \ {decision.selected} : ParetoDominates(decision.selected, v)
  <2>1. /\ Survivors(S) # {} /\ Cardinality(Survivors(S)) = 1
        /\ decision.selected = CHOOSE v \in Survivors(S) : TRUE
    <3> DEFINE T == Survivors(S)
    <3>1. T = {} => Cardinality(T) # 1
      BY FS_EmptySet
    <3> HIDE DEF bridges, T, decision
    <3>2. Cardinality(T) = 1 /\ decision = [outcome |-> "ONE_WINNER", selected |-> CHOOSE v \in T : TRUE]
      BY <1>3, <1>5 DEF T
    <3>3. decision.selected = CHOOSE v \in T : TRUE
      BY <3>2
    <3> QED
      BY <3>1, <3>2, <3>3 DEF T
  <2>2. IsFiniteSet(Survivors(S))
    <3>1. Survivors(S) \subseteq S
      BY DEF Survivors
    <3> QED
      BY <1>2, <3>1, FS_Subset
  <2>3. PICK s : Survivors(S) = {s}
    BY <2>1, <2>2, FS_Singleton
  <2>4. decision.selected = s
    BY <2>1, <2>3
  <2> HIDE DEF decision
  <2> QED
    BY <1>2, <2>3, <2>4, SurvivorsAbove
<1> QED
  BY <1>1, <1>4, <1>5 DEF S, b

-----------------------------------------------------------------------------
(* The anchors.                                                            *)
LEMMA FourParts ==
  ASSUME NEW a, NEW b, NEW c, NEW d, a \in Components, b \in Components, c \in Components, d \in Components
  PROVE  /\ Len(<<a, b, c, d>>) = 4
         /\ <<a, b, c, d>>[1] = a /\ <<a, b, c, d>>[2] = b /\ <<a, b, c, d>>[3] = c /\ <<a, b, c, d>>[4] = d
  OBVIOUS

(* The keys of anchors put parents in order.                               *)
LEMMA AnchorsKeyed ==
  ASSUME NEW query, IsFiniteSet(query.anchorTokens), NEW hits, Ranked(hits), NEW S \in SUBSET Parents
  PROVE  Keyed(S, [p \in S |-> AnchorKey(query, hits, p)], 4)
<1> DEFINE key == [p \in S |-> AnchorKey(query, hits, p)]
           matched(p) == Cardinality(query.anchorTokens \cap ParentTokens[p])
           denominator(p) == IF ParentTokens[p] = {} THEN 1 ELSE Cardinality(ParentTokens[p])
           c1(p) == Ratio(matched(p), denominator(p))
           c2(p) == Desc(matched(p))
           c3(p) == Asc(Rank(hits, p))
           c4(p) == Asc(p)
<1>1. \A p \in S : p \in Int /\ IsFiniteSet(ParentTokens[p])
  BY RankingAssumption DEF RankingAssumption
<1>2. \A p \in S : matched(p) \in Int /\ denominator(p) \in Positive
  <2> TAKE p \in S
  <2>1. IsFiniteSet(query.anchorTokens \cap ParentTokens[p])
    BY FS_Subset
  <2>2. matched(p) \in Nat
    BY <2>1, FS_CardinalityType
  <2>3. ParentTokens[p] # {} => Cardinality(ParentTokens[p]) \in Nat /\ Cardinality(ParentTokens[p]) # 0
    BY <1>1, FS_CardinalityType, FS_EmptySet
  <2> QED
    BY <2>2, <2>3 DEF Positive
<1>3. \A p \in S : key[p] = <<c1(p), c2(p), c3(p), c4(p)>>
  BY DEF AnchorKey
<1> HIDE DEF matched, denominator, key
<1>4. ASSUME NEW p \in S
      PROVE  /\ c1(p) \in Components /\ c1(p).order = "desc_rational"
             /\ c2(p) \in Components /\ c2(p).order = "desc"
             /\ c3(p) \in Components /\ c3(p).order = "asc"
             /\ c4(p) \in Components /\ c4(p).order = "asc"
  <2>1. Rank(hits, p) \in Int
    BY RankIs
  <2> QED
    BY <1>1, <1>2, <2>1, ComponentsAre
<1> HIDE DEF c1, c2, c3, c4
<1>5. ASSUME NEW p \in S
      PROVE  Len(key[p]) = 4 /\ key[p][1] = c1(p) /\ key[p][2] = c2(p) /\ key[p][3] = c3(p) /\ key[p][4] = c4(p)
  <2> DEFINE a == c1(p)
             b == c2(p)
             c == c3(p)
             d == c4(p)
  <2>1. a \in Components /\ b \in Components /\ c \in Components /\ d \in Components
    BY <1>4
  <2>2. key[p] = <<a, b, c, d>>
    BY <1>3
  <2> HIDE DEF a, b, c, d
  <2>3. /\ Len(<<a, b, c, d>>) = 4
        /\ <<a, b, c, d>>[1] = a /\ <<a, b, c, d>>[2] = b /\ <<a, b, c, d>>[3] = c /\ <<a, b, c, d>>[4] = d
    BY <2>1, FourParts
  <2> QED
    BY <2>2, <2>3 DEF a, b, c, d
<1>6. \A i \in 1..4 : i = 1 \/ i = 2 \/ i = 3 \/ i = 4
  OBVIOUS
<1>7. \A p \in S, i \in 1..4 : key[p][i] \in Components
  BY <1>4, <1>5, <1>6
<1>8. \A p, q \in S, i \in 1..4 : key[p][i].order = key[q][i].order
  BY <1>4, <1>5, <1>6
<1>9. \A p, q \in S : (\A i \in 1..4 : Level(key[p][i], key[q][i])) => p = q
  <2> TAKE p, q \in S
  <2> HAVE \A i \in 1..4 : Level(key[p][i], key[q][i])
  <2>1. Level(c4(p), c4(q))
    BY <1>5
  <2> QED
    BY <1>1, <2>1, LevelAsc DEF c4
<1> QED
  BY <1>5, <1>7, <1>8, <1>9 DEF Keyed, key

(* An anchor group has two anchors at most.                                *)
LEMMA GroupOfTwo ==
  ASSUME NEW query, IsFiniteSet(query.anchorTokens), NEW hits, hits \in Seq(Parents)
  PROVE  LET g == SelectAnchorGroup(query, hits)
         IN DOMAIN g = 1..Len(g) /\ Len(g) \in Nat /\ Len(g) <= 2
<1> DEFINE S == {hits[i] : i \in 1..Len(hits)}
           key == [p \in S |-> AnchorKey(query, hits, p)]
           behind == Behind(S, key)
           T == {p \in S : Cardinality({q \in S : KeyLess(AnchorKey(query, hits, q), AnchorKey(query, hits, p))}) < 2}
           g == SelectAnchorGroup(query, hits)
           n == Cardinality(T)
<1>1. Len(hits) \in Nat /\ S \subseteq Parents /\ DOMAIN hits = 1..Len(hits)
  OBVIOUS
<1>2. IsFiniteSet(S)
  <2> DEFINE f == [i \in 1..Len(hits) |-> hits[i]]
  <2> DEFINE m == Len(hits)
  <2>0. m \in Int
    BY <1>1
  <2>1. IsFiniteSet(1..m)
    <3> HIDE DEF m
    <3> QED
      BY <2>0, FS_Interval
  <2>2. DOMAIN f = 1..Len(hits) /\ f = [i \in 1..Len(hits) |-> f[i]] /\ S = {f[i] : i \in 1..Len(hits)}
    OBVIOUS
  <2> HIDE DEF f, S
  <2> QED
    BY <2>1, <2>2, Values
<1>3. Ranked(hits)
  BY <1>1, RankingAssumption DEF Ranked, RankingAssumption
<1> HIDE DEF S
<1>4. LinearOn(S, behind)
  <2>1. Keyed(S, key, 4)
    BY <1>1, <1>3, AnchorsKeyed
  <2> HIDE DEF key
  <2> QED
    BY <2>1, KeysOrder
<1>5. \A p \in S : behind[p] = {q \in S : KeyLess(AnchorKey(query, hits, q), AnchorKey(query, hits, p))}
  BY DEF Behind
<1> HIDE DEF behind
<1>6. T = {p \in S : Cardinality(behind[p]) < 2}
  BY <1>5
<1>7. n \in Nat /\ n <= 2
  <2> HIDE DEF T
  <2>1. IsFiniteSet(T) /\ Cardinality(T) \in Nat /\ Cardinality(T) <= 2
    BY <1>2, <1>4, <1>6, FirstFew
  <2> QED
    BY <2>1
<1>8. g = [i \in 1..n |-> CHOOSE p \in T :
             Cardinality({q \in T : KeyLess(AnchorKey(query, hits, q), AnchorKey(query, hits, p))}) = i - 1]
  BY DEF SelectAnchorGroup, FirstOf, InOrder, S
<1> HIDE DEF n, g, T
<1>9. DOMAIN g = 1..n /\ Len(g) = n
  BY <1>7, <1>8
<1> QED
  BY <1>7, <1>9 DEF g

-----------------------------------------------------------------------------
(* The candidates of an anchor group.                                      *)
Grouped(anchors) == DOMAIN anchors = 1..Len(anchors) /\ Len(anchors) \in Nat /\ Len(anchors) <= 2

(* The candidates of a group are in order under every policy.              *)
LEMMA CandidatesTame ==
  ASSUME NEW graph, ResolvedGraph(graph), NEW query, NEW anchors, Grouped(anchors),
         NEW hits, Ranked(hits), NEW policy \in AnchorEdgePolicies
  PROVE  Tame(AllCandidates(graph, query, anchors, hits, policy))
<1> DEFINE C == AllCandidates(graph, query, anchors, hits, policy)
<1>1. IsFiniteSet(C)
  BY CandidatesFinite DEF Grouped
<1>2. \A c \in C : CandidateOk(c, graph, query, anchors, hits, policy)
  BY CandidatesAre DEF Grouped
<1>3. DOMAIN anchors \subseteq Int
  BY DEF Grouped
<1> HIDE DEF C
<1>4. \E n : Keyed(C, Tuples(C), n)
  BY <1>2, <1>3, CandidatesKeyed
<1> QED
  BY <1>1, <1>4 DEF Tame, C

(* And they make a frame for the frontier: a bridge is known by the place  *)
(* of its anchor, its direction and its tier, which is to say by its       *)
(* bucket.                                                                 *)
LEMMA CandidatesFramed ==
  ASSUME NEW graph, ResolvedGraph(graph), NEW query, NEW anchors, Grouped(anchors),
         NEW hits, Ranked(hits), NEW policy \in AnchorEdgePolicies
  PROVE  Framed(AllCandidates(graph, query, anchors, hits, policy), anchors)
<1> DEFINE C == AllCandidates(graph, query, anchors, hits, policy)
           B == BridgeViews(C, anchors)
<1>1. \A c \in C : CandidateOk(c, graph, query, anchors, hits, policy)
  BY CandidatesAre DEF Grouped
<1>2. Tame(C)
  BY CandidatesTame
<1>3. ASSUME NEW c \in C PROVE Bucket(c) \in Buckets
  <2>1. c.ordinal \in 1..2
    BY <1>1 DEF CandidateOk, Grouped
  <2>2. c.direction \in {"FORWARD", "REVERSE"}
    BY <1>1 DEF CandidateOk, Seen
  <2>3. c.stats.edge.tier \in Tiers
    <3> DEFINE e == c.stats.edge
    <3>0. EdgeOk(e)
      BY <1>1 DEF CandidateOk, StatsOk
    <3> HIDE DEF e
    <3>1. e.tier \in 0..3
      BY <3>0 DEF EdgeOk
    <3> QED
      BY <3>1, RankingAssumption DEF RankingAssumption, e
  <2> QED
    BY <2>1, <2>2, <2>3 DEF Bucket, Buckets
<1>4. ASSUME NEW v \in B, NEW w \in B, Bucket(v) = Bucket(w) PROVE v = w
  <2>1. v.ordinal = w.ordinal /\ v.direction = w.direction /\ v.stats.edge.tier = w.stats.edge.tier
    BY <1>4 DEF Bucket
  <2>2. /\ CandidateOk(v, graph, query, anchors, hits, policy) /\ DirectAnchorBridge(anchors, v)
        /\ CandidateOk(w, graph, query, anchors, hits, policy) /\ DirectAnchorBridge(anchors, w)
    BY <1>1 DEF BridgeViews
  <2>3. v.anchor = w.anchor
    BY <2>1, <2>2 DEF CandidateOk
  <2>4. EdgeOk(v.stats.edge) /\ EdgeOk(w.stats.edge)
    BY <2>2 DEF CandidateOk, StatsOk
  <2>5. v.stats.edge.source = w.stats.edge.source /\ v.stats.edge.target = w.stats.edge.target
    <3> DEFINE e == v.stats.edge
               f == w.stats.edge
               a == anchors[1]
               b == anchors[2]
    <3>1. {e.source, e.target} = {a, b} /\ {f.source, f.target} = {a, b}
      BY <2>2 DEF DirectAnchorBridge
    <3>2. e.source # e.target /\ f.source # f.target
      BY <2>4 DEF EdgeOk
    <3>3. e.source = f.source \/ e.target = f.target
      BY <2>1, <2>2, <2>3 DEF CandidateOk, Seen
    <3> HIDE DEF e, f, a, b
    <3>4. e.source = f.source /\ e.target = f.target
      BY <3>1, <3>2, <3>3
    <3> QED
      BY <3>4 DEF e, f
  <2>6. v.stats.edge = w.stats.edge
    BY <2>1, <2>4, <2>5 DEF EdgeOk
  <2> QED
    BY <2>1, <2>2, <2>6, OneView
<1> QED
  BY <1>2, <1>3, <1>4 DEF Framed

(* The first difference of two candidates has a name.                      *)
LEMMA DifferencesNamed ==
  ASSUME NEW C, Tame(C), C # {}
  PROVE  ValidateAnchorRanking(C)
<1> DEFINE first == Least(C, CandidateLess)
           D(l, r, i) == /\ i = 0 => \A j \in 1..Len(l) : Level(l[j], r[j])
                         /\ i > 0 => ~Level(l[i], r[i]) /\ \A j \in 1..(i - 1) : Level(l[j], r[j])
<1>1. first \in C
  BY LeastView
<1>2. PICK n : Keyed(C, Tuples(C), n)
  BY DEF Tame
<1>3. /\ n \in Nat /\ \A c \in C : Len(c.tuple) = n
      /\ \A c, d \in C : (\A i \in 1..n : Level(c.tuple[i], d.tuple[i])) => c = d
  BY <1>2 DEF Keyed, Tuples
<1> HIDE DEF first
<1>4. ASSUME NEW d \in C, d # first
      PROVE  FirstDifference(first.tuple, d.tuple) # 0
  <2> DEFINE l == first.tuple
             r == d.tuple
             T == {i \in 1..n : ~Level(l[i], r[i])}
  <2>1. T \in SUBSET Nat /\ T # {}
    BY <1>1, <1>3, <1>4
  <2>2. PICK k \in T : \A j \in T : k <= j
    <3> HIDE DEF T
    <3> QED
      BY <2>1, LeastNumber
  <2>3. k \in 1..n /\ ~Level(l[k], r[k]) /\ \A j \in 1..(k - 1) : Level(l[j], r[j])
    BY <1>3, <2>2
  <2>4. Len(l) = n
    BY <1>1, <1>3
  <2> HIDE DEF T, l, r
  <2>5. D(l, r, k) /\ k \in 0..Len(l)
    BY <1>3, <2>3, <2>4
  <2>6. FirstDifference(l, r) = CHOOSE i \in 0..Len(l) : D(l, r, i)
    BY DEF FirstDifference
  <2> HIDE DEF D
  <2>7. D(l, r, FirstDifference(l, r))
    BY <2>5, <2>6
  <2>8. FirstDifference(l, r) = 0 => \A j \in 1..Len(l) : Level(l[j], r[j])
    BY <2>7 DEF D
  <2> QED
    BY <1>3, <2>3, <2>4, <2>8 DEF l, r
<1> QED
  BY <1>4 DEF ValidateAnchorRanking, first

(* A bundle of the frontier carries its trace beside the choice.           *)
LEMMA BundleIs ==
  ASSUME NEW trace, NEW anchors, NEW hits, NEW policy
  PROVE  LET b == SelectFrontierBundle(trace, anchors, hits, policy)
             c == [b EXCEPT !.frontier = trace]
         IN c.frontier = trace /\ c.selected = b.selected /\ c.why = b.why
<1> DEFINE b == SelectFrontierBundle(trace, anchors, hits, policy)
           c == [b EXCEPT !.frontier = trace]
<1>1. /\ DOMAIN b = {"selected", "added", "order", "why", "tiers", "frontier"}
      /\ b = [x \in DOMAIN b |-> b[x]]
  <2> DEFINE bridges == {v \in trace.final : DirectAnchorBridge(anchors, v)}
             decision == FrontierGraphOnlyDecision(trace.final, anchors, hits)
             least(S, why) == IF S = {} THEN [selected |-> None, outcome |-> why]
                              ELSE [selected |-> Least(S, CandidateLess), outcome |-> NoReason]
             choice == CASE trace.overflow -> [selected |-> None, outcome |-> "BRIDGE_CAP_OVERFLOW"]
                         [] ~trace.overflow /\ policy = "frontier-cap-only" -> least(trace.final, "NO_FRONTIER_EDGE")
                         [] ~trace.overflow /\ policy = "frontier-bridge" -> least(bridges, "NO_DIRECT_ANCHOR_BRIDGE")
                         [] OTHER -> decision
             v == choice.selected
             added == Added(<<v.stats.edge.source, v.stats.edge.target>>, hits)
  <2>1. b = IF v = None THEN [Nothing EXCEPT !.why = choice.outcome]
            ELSE [Nothing EXCEPT !.selected = v, !.order = v.tuple, !.why = choice.outcome, !.added = added]
    BY Zenon DEF SelectFrontierBundle
  <2> HIDE DEF b, choice, added
  <2> QED
    BY <2>1 DEF Nothing
<1> HIDE DEF b
<1> QED
  BY <1>1 DEF b

(* How far the evaluation of a query is, and over what.                    *)
Ranking == input.policy \in FrontierPolicies \cup AnchorEdgePolicies

DiagnosticsInv ==
  /\ input.graph \in Graphs /\ input.query \in Queries /\ input.hits \in Rankings
  /\ stage \in {"anchors", "facts"} /\ Ranking => group = SelectAnchorGroup(input.query, input.hits)
  /\ stage = "facts" => facts = ReachableFacts(input.graph, Anchored(group))
  /\ EvaluationNeverFails
  /\ CapsKeepBridgesAndBest

(* The inputs are resolved graphs and rankings of parents.                 *)
LEMMA InputIs ==
  ASSUME DiagnosticsInv
  PROVE  /\ ResolvedGraph(input.graph) /\ Ranked(input.hits)
         /\ stage = "facts" /\ Ranking => Grouped(group)
<1>1. /\ ResolvedGraph(input.graph) /\ input.hits \in Seq(Parents) /\ IsFiniteSet(input.query.anchorTokens)
  BY SelectionAssumption DEF SelectionAssumption, DiagnosticsInv
<1>2. Ranked(input.hits)
  BY <1>1, RankingAssumption DEF Ranked, RankingAssumption
<1>3. ASSUME stage = "facts", Ranking PROVE Grouped(group)
  <2>1. group = SelectAnchorGroup(input.query, input.hits)
    BY <1>3 DEF DiagnosticsInv
  <2> QED
    BY <1>1, <2>1, GroupOfTwo DEF Grouped
<1> QED
  BY <1>1, <1>2, <1>3

(* The candidates of a selection are all those of the group.               *)
LEMMA CandidatesAreAll ==
  ASSUME DiagnosticsInv, stage = "facts", NEW policy
  PROVE  CandidatesUnder(policy) = AllCandidates(input.graph, input.query, group, input.hits, policy)
<1>1. facts = ReachableFacts(input.graph, Anchored(group))
  BY DEF DiagnosticsInv
<1> QED
  BY <1>1 DEF CandidatesUnder, AllCandidates

(* Selecting among all edges neither fails nor cuts.                       *)
LEMMA ByEdgesKeeps ==
  ASSUME DiagnosticsInv, SelectByEdges
  PROVE  DiagnosticsInv'
<1> DEFINE C == CandidatesUnder(input.policy)
<1>1. /\ stage = "facts" /\ input.policy \in AnchorEdgePolicies /\ UNCHANGED <<input, group, facts>>
      /\ stage' = IF C = {} \/ ValidateAnchorRanking(C) THEN "bundle" ELSE "failed"
  BY DEF SelectByEdges
<1>2. input.policy \notin FrontierPolicies
  BY <1>1 DEF AnchorEdgePolicies, FrontierPolicies
<1>3. C = AllCandidates(input.graph, input.query, group, input.hits, input.policy)
  BY <1>1, CandidatesAreAll
<1>4. ResolvedGraph(input.graph) /\ Ranked(input.hits) /\ Grouped(group)
  BY <1>1, InputIs DEF Ranking
<1>5. Tame(C)
  BY <1>1, <1>3, <1>4, CandidatesTame
<1> HIDE DEF C
<1>6. C = {} \/ ValidateAnchorRanking(C)
  BY <1>5, DifferencesNamed
<1>7. stage' = "bundle"
  BY <1>1, <1>6
<1> QED
  BY <1>1, <1>2, <1>7 DEF DiagnosticsInv, EvaluationNeverFails, CapsKeepBridgesAndBest, ByFrontier

(* Selecting in the frontier neither fails nor loses a bridge or the best  *)
(* edge.                                                                   *)
LEMMA InFrontierKeeps ==
  ASSUME DiagnosticsInv, SelectInFrontier
  PROVE  DiagnosticsInv'
<1> DEFINE C == CandidatesUnder("anchor-edge-bidirectional")
           trace == BuildFrontierTrace(C, group)
           b == SelectFrontierBundle(trace, group, input.hits, input.policy)
<1>1. /\ stage = "facts" /\ input.policy \in FrontierPolicies /\ UNCHANGED <<input, group, facts>>
      /\ bundle' = [b EXCEPT !.frontier = trace]
      /\ stage' = IF Cardinality(trace.final) <= FrontierGlobalLimit THEN "bundle" ELSE "failed"
  BY DEF SelectInFrontier
<1>2. C = AllCandidates(input.graph, input.query, group, input.hits, "anchor-edge-bidirectional")
  BY <1>1, CandidatesAreAll
<1>3. ResolvedGraph(input.graph) /\ Ranked(input.hits) /\ Grouped(group)
  BY <1>1, InputIs DEF Ranking
<1>4. "anchor-edge-bidirectional" \in AnchorEdgePolicies
  BY DEF AnchorEdgePolicies
<1>5. Framed(C, group)
  BY <1>2, <1>3, <1>4, CandidatesFramed
<1>6. \A c \in C : StatsOk(c.stats)
  BY <1>2, <1>3, CandidatesAre DEF Grouped, CandidateOk
<1> HIDE DEF C
<1>7. trace.universe = C /\ trace.overflow = FALSE /\ Frontier(trace.final, C, group)
  BY <1>5, TraceIs
<1>8. bundle'.frontier = trace /\ bundle'.selected = b.selected /\ bundle'.why = b.why
  BY <1>1, BundleIs
<1> HIDE DEF trace
<1>9. IsFiniteSet(trace.final) /\ \A v \in trace.final : StatsOk(v.stats)
  BY <1>6, <1>7 DEF Frontier, Tame
<1>10. stage' = "bundle"
  BY <1>1, <1>7 DEF Frontier
<1>11. LoneWinnerBeatsAll'
  <2> SUFFICES ASSUME input.policy = "frontier-graph-only-pareto" PROVE LoneWinnerBeatsAll'
    BY <1>1 DEF LoneWinnerBeatsAll
  <2> DEFINE S == GraphOnly(trace.final, group, input.hits)
  <2>1. /\ b.why = "NO_CANDIDATE" => S = {}
        /\ b.why = "ONE_WINNER" => \A v \in S \ {b.selected} : ParetoDominates(b.selected, v)
    BY <1>7, <1>9, GraphOnlyIs
  <2>2. GraphOnly(bundle'.frontier.final, group', input'.hits) = S
    BY <1>1, <1>8
  <2> HIDE DEF S, b
  <2> QED
    BY <1>8, <2>1, <2>2 DEF LoneWinnerBeatsAll
<1> HIDE DEF b
<1>12. C # {} => Least(trace.final, CandidateLess) = SelectAnchorEdgeBundle(C, input.hits).selected
  <2> SUFFICES ASSUME C # {}
               PROVE  Least(trace.final, CandidateLess) = SelectAnchorEdgeBundle(C, input.hits).selected
    OBVIOUS
  <2> DEFINE u == Least(C, CandidateLess)
  <2>1. Least(trace.final, CandidateLess) = u
    BY <1>7 DEF Frontier
  <2>2. SelectAnchorEdgeBundle(C, input.hits)
          = [Nothing EXCEPT !.selected = u, !.order = u.tuple,
                            !.added = Added(<<u.stats.edge.source, u.stats.edge.target>>, input.hits)]
    BY DEF SelectAnchorEdgeBundle
  <2> HIDE DEF u
  <2>3. SelectAnchorEdgeBundle(C, input.hits).selected = u
    BY <2>2 DEF Nothing
  <2> QED
    BY <2>1, <2>3
<1>13. CapsKeepBridgesAndBest'
  <2>1. Edges({v \in C : DirectAnchorBridge(group, v)}) \subseteq Edges(trace.final)
    BY <1>7 DEF Frontier, BridgeViews
  <2>2. bundle'.frontier = trace /\ group' = group /\ input' = input
    BY <1>1, <1>8
  <2> QED
    BY <1>7, <1>11, <1>12, <2>1, <2>2 DEF CapsKeepBridgesAndBest
<1> QED
  BY <1>1, <1>10, <1>13 DEF DiagnosticsInv, EvaluationNeverFails

(* Every step of the diagnostics keeps the invariant.                      *)
LEMMA DiagnosticsInductive ==
  ASSUME DiagnosticsInv, [DiagnosticsNext]_<<vars, packagingVars>>
  PROVE  DiagnosticsInv'
<1>1. CASE SelectAnchors
  BY <1>1 DEF SelectAnchors, DiagnosticsInv, Ranking, EvaluationNeverFails, CapsKeepBridgesAndBest, ByFrontier, Chosen
<1>2. CASE Reach
  BY <1>2 DEF Reach, DiagnosticsInv, Ranking, Anchored, EvaluationNeverFails, CapsKeepBridgesAndBest, ByFrontier, Chosen
<1>3. CASE SelectByMetadata
  BY <1>3 DEF SelectByMetadata, DiagnosticsInv, EvaluationNeverFails, CapsKeepBridgesAndBest, ByFrontier
<1>4. CASE SelectByEdges
  BY <1>4, ByEdgesKeeps
<1>5. CASE SelectInFrontier
  BY <1>5, InFrontierKeeps
<1>6. CASE Package
  BY <1>6 DEF Package, DiagnosticsInv, EvaluationNeverFails, CapsKeepBridgesAndBest, ByFrontier, Chosen
<1>7. CASE Label
  BY <1>7 DEF Label, DiagnosticsInv, EvaluationNeverFails, CapsKeepBridgesAndBest, ByFrontier, Chosen
<1>8. CASE Complete
  BY <1>8 DEF Complete, DiagnosticsInv, EvaluationNeverFails, CapsKeepBridgesAndBest, ByFrontier, Chosen
<1>9. CASE Replay
  BY <1>9 DEF Replay, DiagnosticsInv, EvaluationNeverFails, CapsKeepBridgesAndBest, ByFrontier, Chosen
<1>10. CASE UNCHANGED <<vars, packagingVars>>
  BY <1>10 DEF vars, DiagnosticsInv, Ranking, EvaluationNeverFails, CapsKeepBridgesAndBest, LoneWinnerBeatsAll, ByFrontier, Chosen
<1> QED
  BY <1>1, <1>2, <1>3, <1>4, <1>5, <1>6, <1>7, <1>8, <1>9, <1>10 DEF DiagnosticsNext, Evaluate, Next, Select

(* The diagnostics start with the invariant.                               *)
LEMMA DiagnosticsInitially ==
  ASSUME DiagnosticsInit
  PROVE  DiagnosticsInv
  BY DEF DiagnosticsInit, Init, DiagnosticsInv, EvaluationNeverFails, CapsKeepBridgesAndBest, ByFrontier, Chosen

(* The inputs of a run stay what relations.db can hold, its group and      *)
(* facts are the ones that follow from them, and the two properties below  *)
(* hold of what was selected.                                              *)
THEOREM DiagnosticsInvariance == DiagnosticsSpec => []DiagnosticsInv
  BY DiagnosticsInitially, DiagnosticsInductive, PTL DEF DiagnosticsSpec

(* No selection ends with a limit overrun or a difference without a name:  *)
(* the tuples of two candidates differ somewhere under every policy, and   *)
(* sixteen full buckets fit the frontier.                                  *)
THEOREM NeverFails == DiagnosticsSpec => []EvaluationNeverFails
<1>1. DiagnosticsInv => EvaluationNeverFails
  BY DEF DiagnosticsInv
<1> QED
  BY <1>1, DiagnosticsInvariance, PTL

(* Whatever the caps of the frontier cut, every direct bridge between the  *)
(* anchors stays, the first of all candidates stays the first, and a lone  *)
(* survivor of the graph-only policy dominates all that was kept in its    *)
(* tier.                                                                   *)
THEOREM CapsLoseNothing == DiagnosticsSpec => []CapsKeepBridgesAndBest
<1>1. DiagnosticsInv => CapsKeepBridgesAndBest
  BY DEF DiagnosticsInv
<1> QED
  BY <1>1, DiagnosticsInvariance, PTL

-----------------------------------------------------------------------------
(* The reports: the collapse of the segments and its ties.                 *)

(* A row for every segment, each about a parent.                           *)
Artifact(segments) == segments \in Seq([parent : Parents, score : Int])

Earlier(segments, i, j) ==
  segments[i].score > segments[j].score \/ (segments[i].score = segments[j].score /\ i < j)
Winners(segments) ==
  {i \in DOMAIN segments : \A j \in DOMAIN segments \ {i} :
      segments[j].parent = segments[i].parent => Earlier(segments, i, j)}
AheadOf(segments, S) == [i \in S |-> {j \in S : Earlier(segments, j, i)}]

(* A row of an artifact is about a parent and has a score.                 *)
LEMMA RowIs ==
  ASSUME NEW segments, Artifact(segments)
  PROVE  /\ DOMAIN segments = 1..Len(segments) /\ Len(segments) \in Nat
         /\ \A i \in DOMAIN segments : segments[i].parent \in Parents /\ segments[i].score \in Int /\ i \in Int
<1>1. DOMAIN segments = 1..Len(segments) /\ Len(segments) \in Nat
  BY DEF Artifact
<1>2. \A i \in 1..Len(segments) : segments[i] \in [parent : Parents, score : Int]
  BY ElementOfSeq DEF Artifact
<1> QED
  BY <1>1, <1>2

(* Rows are in one order: by score, and by their place when it is equal.   *)
LEMMA RowsOrdered ==
  ASSUME NEW segments, Artifact(segments), NEW S \in SUBSET DOMAIN segments
  PROVE  IsFiniteSet(S) /\ LinearOn(S, AheadOf(segments, S))
<1>1. DOMAIN segments = 1..Len(segments) /\ Len(segments) \in Nat
  BY RowIs
<1>2. \A i \in S : segments[i].score \in Int /\ i \in Int
  BY RowIs
<1>3. IsFiniteSet(S)
  <2>1. IsFiniteSet(1..Len(segments))
    BY <1>1, FS_Interval
  <2> QED
    BY <1>1, <2>1, FS_Subset
<1>4. \A i, j \in S : j \in AheadOf(segments, S)[i] <=> Earlier(segments, j, i)
  BY DEF AheadOf
<1>5. AheadOf(segments, S) \in [S -> SUBSET S]
  BY DEF AheadOf
<1>6. /\ \A i \in S : ~Earlier(segments, i, i)
      /\ \A i, j \in S : i # j => Earlier(segments, i, j) \/ Earlier(segments, j, i)
      /\ \A i, j, k \in S : Earlier(segments, i, j) /\ Earlier(segments, j, k) => Earlier(segments, i, k)
  BY <1>2 DEF Earlier
<1> HIDE DEF AheadOf
<1>7. \A i, j \in S : i \in AheadOf(segments, S)[j] => AheadOf(segments, S)[i] \subseteq AheadOf(segments, S)[j]
  BY <1>4, <1>5, <1>6
<1> QED
  BY <1>3, <1>4, <1>5, <1>6, <1>7 DEF LinearOn

(* Every parent that was scored has a best row.                            *)
LEMMA BestRow ==
  ASSUME NEW segments, Artifact(segments), NEW j \in DOMAIN segments
  PROVE  \E w \in Winners(segments) : segments[w].parent = segments[j].parent /\ segments[w].score >= segments[j].score
<1> DEFINE T == {i \in DOMAIN segments : segments[i].parent = segments[j].parent}
           b == AheadOf(segments, T)
<1>1. IsFiniteSet(T) /\ LinearOn(T, b)
  BY RowsOrdered
<1>2. T # {}
  OBVIOUS
<1>3. PICK x \in T : b[x] = {} /\ \A y \in T \ {x} : x \in b[y]
  <2> HIDE DEF T, b
  <2> QED
    BY <1>1, <1>2, OneIsLeast
<1>4. \A y \in T \ {x} : Earlier(segments, x, y)
  BY <1>3 DEF AheadOf
<1>5. x \in Winners(segments)
  BY <1>3, <1>4 DEF Winners
<1>6. segments[x].score \in Int /\ segments[j].score \in Int /\ x \in T
  BY <1>3, RowIs
<1>7. x = j \/ Earlier(segments, x, j)
  BY <1>4
<1> QED
  BY <1>5, <1>6, <1>7 DEF Earlier

(* No parent has two.                                                      *)
LEMMA OneWinner ==
  ASSUME NEW segments, Artifact(segments), NEW v \in Winners(segments), NEW w \in Winners(segments),
         segments[v].parent = segments[w].parent
  PROVE  v = w
<1> SUFFICES ASSUME v # w PROVE FALSE
  OBVIOUS
<1>1. v \in DOMAIN segments /\ w \in DOMAIN segments
  BY DEF Winners
<1>2. Earlier(segments, v, w) /\ Earlier(segments, w, v)
  BY <1>1 DEF Winners
<1>3. segments[v].score \in Int /\ segments[w].score \in Int /\ v \in Int /\ w \in Int
  BY <1>1, RowIs
<1> QED
  BY <1>2, <1>3 DEF Earlier

Collapsed(segments, order) ==
  [k \in DOMAIN order |-> [parent |-> segments[order[k]].parent, score |-> segments[order[k]].score,
                           tie |-> Tie(segments, order[k])]]

(* The collapse lists the best rows.                                       *)
LEMMA CollapseIs ==
  ASSUME NEW segments, Artifact(segments)
  PROVE  \E order : /\ Lists(order, Winners(segments), AheadOf(segments, Winners(segments)))
                    /\ CollapseActiveScores(segments) = Collapsed(segments, order)
<1> DEFINE before(i, j) == segments[i].score > segments[j].score \/ (segments[i].score = segments[j].score /\ i < j)
           winners == {i \in DOMAIN segments : \A j \in DOMAIN segments \ {i} :
                         segments[j].parent = segments[i].parent => before(i, j)}
           order == InOrder(winners, before)
           W == Winners(segments)
           b == AheadOf(segments, W)
           place(x) == Cardinality({y \in winners : before(y, x)})
<1>1. winners = W
  BY DEF Winners, Earlier
<1>2. CollapseActiveScores(segments) = Collapsed(segments, order)
  BY DEF CollapseActiveScores, Collapsed
<1>3. order = [i \in 1..Cardinality(winners) |-> CHOOSE x \in winners : place(x) = i - 1]
  BY DEF InOrder
<1>4. \A x \in W : place(x) = Cardinality(b[x])
  <2>1. \A x \in W : b[x] = {y \in winners : before(y, x)}
    BY <1>1 DEF AheadOf, Earlier
  <2> QED
    BY <2>1
<1> HIDE DEF winners, place, b, W, order
<1>5. IsFiniteSet(W) /\ LinearOn(W, b)
  BY RowsOrdered DEF W, b, Winners
<1>6. Cardinality(W) \in Nat
  BY <1>5, FS_CardinalityType
<1>7. ASSUME NEW i \in 1..Cardinality(W)
      PROVE  order[i] \in W /\ Cardinality(b[order[i]]) = i - 1
  <2>1. i - 1 \in 0..(Cardinality(W) - 1)
    BY <1>6
  <2>2. \E x \in W : Cardinality(b[x]) = i - 1
    BY <1>5, <2>1, PlacesTaken
  <2>3. \E x \in W : place(x) = i - 1
    BY <1>4, <2>2
  <2>4. order[i] = CHOOSE x \in W : place(x) = i - 1
    BY <1>1, <1>3
  <2>5. order[i] \in W /\ place(order[i]) = i - 1
    BY <2>3, <2>4
  <2> QED
    BY <1>4, <2>5
<1>8. DOMAIN order = 1..Cardinality(W)
  BY <1>1, <1>3
<1>9. Lists(order, W, b)
  BY <1>7, <1>8 DEF Lists
<1> QED
  BY <1>2, <1>9 DEF W, b

(* What a collapsed list says of its order.                                *)
Collapse(segments, order, values) ==
  /\ Artifact(segments)
  /\ Lists(order, Winners(segments), AheadOf(segments, Winners(segments)))
  /\ values = Collapsed(segments, order)

(* What stands at a place of the collapse, and that every winner has one.  *)
LEMMA PlaceInCollapse ==
  ASSUME NEW segments, NEW order, NEW values, Collapse(segments, order, values)
  PROVE  /\ DOMAIN values = 1..Len(values) /\ Len(values) \in Nat
         /\ \A k \in DOMAIN values :
               /\ order[k] \in Winners(segments) /\ order[k] \in DOMAIN segments
               /\ values[k].parent = segments[order[k]].parent /\ values[k].score = segments[order[k]].score
               /\ values[k].tie = Tie(segments, order[k]) /\ values[k].score \in Int
         /\ \A w \in Winners(segments) : \E k \in DOMAIN values : order[k] = w
         /\ \A k, m \in DOMAIN values : values[k].parent = values[m].parent => k = m
         /\ \A k, m \in DOMAIN values : Earlier(segments, order[k], order[m]) <=> k < m
<1> DEFINE W == Winners(segments)
           b == AheadOf(segments, W)
<1>1. IsFiniteSet(W) /\ LinearOn(W, b)
  BY RowsOrdered DEF Winners, Collapse
<1>2. Lists(order, W, b)
  BY DEF Collapse
<1>3. W \subseteq DOMAIN segments
  BY DEF Winners
<1>4. \A x, y \in W : x \in b[y] <=> Earlier(segments, x, y)
  BY DEF AheadOf
<1> HIDE DEF W, b
<1>5. /\ Cardinality(W) \in Nat /\ DOMAIN order = 1..Cardinality(W)
      /\ \A x \in W : \E i \in DOMAIN order : order[i] = x
      /\ \A i, j \in DOMAIN order : order[i] = order[j] => i = j
      /\ \A i \in DOMAIN order : order[i] \in W /\ Cardinality(b[order[i]]) = i - 1
  <2>1. /\ Cardinality(W) \in Nat
        /\ \A x \in W : \E i \in DOMAIN order : order[i] = x
        /\ \A i, j \in DOMAIN order : order[i] = order[j] => i = j
    BY <1>1, <1>2, Listed
  <2>2. /\ DOMAIN order = 1..Cardinality(W)
        /\ \A i \in DOMAIN order : order[i] \in W /\ Cardinality(b[order[i]]) = i - 1
    BY <1>2 DEF Lists
  <2> QED
    BY <2>1, <2>2
<1>6. /\ DOMAIN values = DOMAIN order
      /\ \A k \in DOMAIN order : values[k] = [parent |-> segments[order[k]].parent, score |-> segments[order[k]].score,
                                              tie |-> Tie(segments, order[k])]
  BY DEF Collapse, Collapsed
<1>7. DOMAIN values = 1..Len(values) /\ Len(values) \in Nat
  <2>1. values = [k \in 1..Cardinality(W) |-> values[k]]
    BY <1>5 DEF Collapse, Collapsed
  <2> QED
    BY <1>5, <2>1
<1>8. \A k \in DOMAIN order : segments[order[k]].score \in Int
  BY <1>3, <1>5, RowIs DEF Collapse
<1>9. ASSUME NEW k \in DOMAIN values, NEW m \in DOMAIN values, values[k].parent = values[m].parent
      PROVE  k = m
  <2>1. order[k] = order[m]
    BY <1>5, <1>6, <1>9, OneWinner DEF Collapse, W
  <2> QED
    BY <1>5, <1>6, <2>1
<1>10. ASSUME NEW k \in DOMAIN values, NEW m \in DOMAIN values
       PROVE  Earlier(segments, order[k], order[m]) <=> k < m
  <2>1. order[k] \in W /\ order[m] \in W /\ Cardinality(b[order[k]]) = k - 1 /\ Cardinality(b[order[m]]) = m - 1
    BY <1>5, <1>6
  <2>2. order[k] \in b[order[m]] <=> k - 1 < m - 1
    BY <1>1, <2>1, PlacesDiffer
  <2>3. k \in Int /\ m \in Int
    BY <1>7
  <2> QED
    BY <1>4, <2>1, <2>2, <2>3
<1> QED
  BY <1>3, <1>5, <1>6, <1>7, <1>8, <1>9, <1>10 DEF W

(* A parent's rank and score are those of its best row.                    *)
LEMMA RankInCollapse ==
  ASSUME NEW segments, NEW order, NEW values, Collapse(segments, order, values)
  PROVE  /\ \A k \in DOMAIN values : /\ values[k].parent \in Observed(values)
                                     /\ GlobalRank(values, values[k].parent) = k
                                     /\ NativeScore(values, values[k].parent) = values[k].score
         /\ \A p \in Observed(values) : \E k \in DOMAIN values : values[k].parent = p
<1>1. \A k, m \in DOMAIN values : values[k].parent = values[m].parent => k = m
  BY PlaceInCollapse
<1>2. \A k \in DOMAIN values : values[k].parent \in Observed(values)
  BY DEF Observed
<1>3. \A k \in DOMAIN values : GlobalRank(values, values[k].parent) = k
  BY <1>1 DEF GlobalRank
<1>4. \A k \in DOMAIN values : NativeScore(values, values[k].parent) = values[k].score
  BY <1>2, <1>3 DEF NativeScore
<1> QED
  BY <1>2, <1>3, <1>4 DEF Observed

(* The scored parents are those of the segments, each with its best score. *)
LEMMA ScoresAre ==
  ASSUME NEW segments, NEW order, NEW values, Collapse(segments, order, values)
  PROVE  /\ Observed(values) = {segments[j].parent : j \in DOMAIN segments}
         /\ \A j \in DOMAIN segments : NativeScore(values, segments[j].parent) >= segments[j].score
         /\ \A p \in Observed(values) : /\ NativeScore(values, p) \in Int
                                        /\ \E j \in DOMAIN segments : segments[j].parent = p /\ segments[j].score = NativeScore(values, p)
<1>1. ASSUME NEW j \in DOMAIN segments
      PROVE  segments[j].parent \in Observed(values) /\ NativeScore(values, segments[j].parent) >= segments[j].score
  <2>1. PICK w \in Winners(segments) : segments[w].parent = segments[j].parent /\ segments[w].score >= segments[j].score
    BY BestRow DEF Collapse
  <2>2. PICK k \in DOMAIN values : order[k] = w
    BY PlaceInCollapse
  <2>3. values[k].parent = segments[j].parent /\ values[k].score >= segments[j].score
    BY <2>1, <2>2, PlaceInCollapse
  <2> QED
    BY <2>3, RankInCollapse
<1>2. ASSUME NEW p \in Observed(values)
      PROVE  /\ NativeScore(values, p) \in Int
             /\ \E j \in DOMAIN segments : segments[j].parent = p /\ segments[j].score = NativeScore(values, p)
  <2>1. PICK k \in DOMAIN values : values[k].parent = p
    BY RankInCollapse
  <2>2. NativeScore(values, p) = values[k].score
    BY <2>1, RankInCollapse
  <2>3. /\ order[k] \in DOMAIN segments /\ segments[order[k]].parent = p
        /\ segments[order[k]].score = values[k].score /\ values[k].score \in Int
    BY <2>1, PlaceInCollapse
  <2> QED
    BY <2>2, <2>3
<1> QED
  BY <1>1, <1>2

(* There are n numbers up to n.                                            *)
LEMMA FirstNumbers == \A n \in Nat : IsFiniteSet(1..n) /\ Cardinality(1..n) = n
  BY FS_Interval

Ahead(values, score) == {p \in Observed(values) : NativeScore(values, p) > score}
LevelOrAhead(values, score) == {p \in Observed(values) : NativeScore(values, p) >= score}

(* The tie of a place runs from behind what is ahead of its score to the   *)
(* end of what is level with it, and the place lies within.                *)
LEMMA TieIs ==
  ASSUME NEW segments, NEW order, NEW values, Collapse(segments, order, values), NEW k \in DOMAIN values
  PROVE  LET ahead == Cardinality(Ahead(values, values[k].score))
             level == Cardinality(LevelOrAhead(values, values[k].score))
         IN /\ ahead \in Nat /\ level \in Nat /\ ahead < k /\ k <= level
            /\ values[k].tie = [first |-> ahead + 1, last |-> level]
<1> DEFINE s == values[k].score
           A == Ahead(values, s)
           L == LevelOrAhead(values, s)
           above == {segments[j].parent : j \in {j \in DOMAIN segments : segments[j].score > s}}
           level == {segments[j].parent : j \in {j \in DOMAIN segments : segments[j].score = s}}
<1>1. s \in Int /\ s = segments[order[k]].score /\ values[k].tie = Tie(segments, order[k])
  BY PlaceInCollapse
<1>2. Tie(segments, order[k]) = [first |-> Cardinality(above) + 1, last |-> Cardinality(above \cup level)]
  BY <1>1 DEF Tie
<1> HIDE DEF s
<1>3. \A j \in DOMAIN segments : segments[j].score \in Int
  BY RowIs DEF Collapse
<1>4. above = A
  <2>1. ASSUME NEW p \in A PROVE p \in above
    <3>1. PICK j \in DOMAIN segments : segments[j].parent = p /\ segments[j].score = NativeScore(values, p)
      BY ScoresAre DEF Ahead
    <3> QED
      BY <3>1 DEF Ahead
  <2>2. ASSUME NEW j \in DOMAIN segments, segments[j].score > s PROVE segments[j].parent \in A
    <3>1. /\ segments[j].parent \in Observed(values) /\ NativeScore(values, segments[j].parent) \in Int
          /\ NativeScore(values, segments[j].parent) >= segments[j].score
      BY ScoresAre
    <3> QED
      BY <1>1, <1>3, <2>2, <3>1 DEF Ahead
  <2> QED
    BY <2>1, <2>2
<1>5. above \cup level = L
  <2>1. ASSUME NEW p \in L PROVE p \in above \cup level
    <3>1. PICK j \in DOMAIN segments : segments[j].parent = p /\ segments[j].score = NativeScore(values, p)
      BY ScoresAre DEF LevelOrAhead
    <3>2. segments[j].score >= s
      BY <3>1 DEF LevelOrAhead
    <3>3. segments[j].score > s \/ segments[j].score = s
      BY <1>1, <1>3, <3>2
    <3> QED
      BY <3>1, <3>3
  <2>2. ASSUME NEW j \in DOMAIN segments, segments[j].score > s \/ segments[j].score = s PROVE segments[j].parent \in L
    <3>1. /\ segments[j].parent \in Observed(values) /\ NativeScore(values, segments[j].parent) \in Int
          /\ NativeScore(values, segments[j].parent) >= segments[j].score
      BY ScoresAre
    <3> QED
      BY <1>1, <1>3, <2>2, <3>1 DEF LevelOrAhead
  <2> QED
    BY <2>1, <2>2
<1> HIDE DEF above, level
<1> DEFINE f == [m \in 1..(k - 1) |-> values[m].parent]
           g == [m \in 1..k |-> values[m].parent]
<1>6. k \in Nat \ {0} /\ 1..k \subseteq DOMAIN values /\ 1..(k - 1) \subseteq DOMAIN values
  BY PlaceInCollapse
<1>7. ASSUME NEW m \in DOMAIN values
      PROVE  /\ m \in Nat \ {0} /\ values[m].score \in Int
             /\ values[m].score > s => m < k
             /\ m <= k => values[m].score >= s
  <2>1. m \in Nat \ {0} /\ values[m].score \in Int /\ values[m].score = segments[order[m]].score
    BY PlaceInCollapse
  <2>2. Earlier(segments, order[m], order[k]) <=> m < k
    BY PlaceInCollapse
  <2>3. values[m].score > s => m < k
    BY <1>1, <2>1, <2>2 DEF Earlier
  <2>4. m < k => values[m].score >= s
    BY <1>1, <2>1, <2>2 DEF Earlier
  <2>5. m = k => values[m].score >= s
    BY <2>1 DEF s
  <2> QED
    BY <1>6, <2>1, <2>3, <2>4, <2>5
<1>8. A \subseteq {f[m] : m \in 1..(k - 1)}
  <2> SUFFICES ASSUME NEW p \in A PROVE \E m \in 1..(k - 1) : f[m] = p
    OBVIOUS
  <2>1. PICK m \in DOMAIN values : values[m].parent = p
    BY RankInCollapse DEF Ahead
  <2>2. values[m].score > s
    BY <2>1, RankInCollapse DEF Ahead
  <2>3. m \in 1..(k - 1)
    BY <1>6, <1>7, <2>2
  <2> QED
    BY <2>1, <2>3
<1>9. {g[m] : m \in 1..k} \subseteq L
  <2> SUFFICES ASSUME NEW m \in 1..k PROVE values[m].parent \in L
    OBVIOUS
  <2>1. m \in DOMAIN values /\ m <= k
    BY <1>6
  <2>2. values[m].score >= s /\ NativeScore(values, values[m].parent) = values[m].score /\ values[m].parent \in Observed(values)
    BY <1>7, <2>1, RankInCollapse
  <2> QED
    BY <2>2 DEF LevelOrAhead
<1>10. IsFiniteSet(1..k) /\ Cardinality(1..k) = k /\ IsFiniteSet(1..(k - 1)) /\ Cardinality(1..(k - 1)) = k - 1
  BY <1>6, FirstNumbers
<1>11. \A i, m \in 1..k : g[i] = g[m] => i = m
  BY <1>6, PlaceInCollapse
<1>12. DOMAIN f = 1..(k - 1) /\ f = [m \in 1..(k - 1) |-> f[m]] /\ DOMAIN g = 1..k /\ g = [m \in 1..k |-> g[m]]
  OBVIOUS
<1>13. Observed(values) = {values[m].parent : m \in DOMAIN values} /\ IsFiniteSet(DOMAIN values)
  <2>1. DOMAIN values = 1..Len(values) /\ Len(values) \in Nat
    BY PlaceInCollapse
  <2> QED
    BY <2>1, FS_Interval DEF Observed
<1>14. IsFiniteSet(Observed(values))
  <2> DEFINE parent == [m \in DOMAIN values |-> values[m].parent]
  <2>1. Observed(values) = {parent[m] : m \in DOMAIN values}
    BY <1>13
  <2>2. DOMAIN parent = DOMAIN values /\ parent = [m \in DOMAIN values |-> parent[m]]
    OBVIOUS
  <2> HIDE DEF parent
  <2> QED
    BY <1>13, <2>1, <2>2, Values
<1>15. IsFiniteSet(A) /\ IsFiniteSet(L)
  BY <1>14, FS_Subset DEF Ahead, LevelOrAhead
<1> HIDE DEF f, g, A, L
<1>16. IsFiniteSet({f[m] : m \in 1..(k - 1)}) /\ Cardinality({f[m] : m \in 1..(k - 1)}) <= k - 1
  <2> DEFINE S == 1..(k - 1)
  <2>1. IsFiniteSet(S) /\ DOMAIN f = S /\ f = [m \in S |-> f[m]] /\ Cardinality(S) = k - 1
    BY <1>10, <1>12
  <2> HIDE DEF S
  <2>2. IsFiniteSet({f[m] : m \in S}) /\ Cardinality({f[m] : m \in S}) <= Cardinality(S)
    BY <2>1, Values
  <2> QED
    BY <2>1, <2>2 DEF S
<1>17. Cardinality({g[m] : m \in 1..k}) = k
  <2> DEFINE S == 1..k
  <2>1. IsFiniteSet(S) /\ DOMAIN g = S /\ g = [m \in S |-> g[m]] /\ Cardinality(S) = k /\ \A i, m \in S : g[i] = g[m] => i = m
    BY <1>10, <1>11, <1>12
  <2> HIDE DEF S
  <2>2. Cardinality({g[m] : m \in S}) = Cardinality(S)
    BY <2>1, Values
  <2> QED
    BY <2>1, <2>2 DEF S
<1>18. Cardinality(A) \in Nat /\ Cardinality(L) \in Nat
  BY <1>15, FS_CardinalityType
<1>19. Cardinality(A) <= k - 1
  <2>1. Cardinality(A) <= Cardinality({f[m] : m \in 1..(k - 1)}) /\ Cardinality({f[m] : m \in 1..(k - 1)}) \in Nat
    BY <1>8, <1>16, FS_Subset, FS_CardinalityType
  <2> QED
    BY <1>6, <1>16, <1>18, <2>1
<1>20. k <= Cardinality(L)
  BY <1>9, <1>15, <1>17, FS_Subset
<1>21. values[k].tie = [first |-> Cardinality(A) + 1, last |-> Cardinality(L)]
  BY <1>1, <1>2, <1>4, <1>5
<1>22. Cardinality(A) < k
  BY <1>6, <1>18, <1>19
<1> QED
  BY <1>18, <1>20, <1>21, <1>22 DEF A, L, s

(* So an endpoint is called exact only when every order of ties agrees.    *)
LEMMA StatusIsExact ==
  ASSUME NEW segments, NEW order, NEW values, Collapse(segments, order, values),
         NEW p \in Observed(values), NEW b \in Nat
  PROVE  LET status == TieBoundaryStatus(values, p, b)
             score == NativeScore(values, p)
         IN /\ status = "INCLUDED_EXACT" <=> Cardinality(LevelOrAhead(values, score)) <= b
            /\ status = "EXCLUDED_EXACT" <=> Cardinality(Ahead(values, score)) >= b
<1>1. PICK k \in DOMAIN values : values[k].parent = p
  BY RankInCollapse
<1>2. GlobalRank(values, p) = k /\ NativeScore(values, p) = values[k].score
  BY <1>1, RankInCollapse
<1> DEFINE ahead == Cardinality(Ahead(values, values[k].score))
           level == Cardinality(LevelOrAhead(values, values[k].score))
<1>3. /\ ahead \in Nat /\ level \in Nat /\ ahead < k /\ k <= level
      /\ values[k].tie = [first |-> ahead + 1, last |-> level]
  BY TieIs
<1> HIDE DEF ahead, level
<1>4. values[k].tie.first = ahead + 1 /\ values[k].tie.last = level /\ k \in Nat
  BY <1>3, PlaceInCollapse
<1>5. TieBoundaryStatus(values, p, b) =
        IF ahead + 1 <= b /\ level > b THEN "TIE_SPANS_BOUNDARY" ELSE IF k <= b THEN "INCLUDED_EXACT" ELSE "EXCLUDED_EXACT"
  BY <1>2, <1>4 DEF TieBoundaryStatus
<1> QED
  BY <1>2, <1>3, <1>4, <1>5 DEF ahead, level

(* An endpoint's statuses are those of its ties.                           *)
LEMMA EndpointRowIs ==
  ASSUME NEW frontier, NEW values, NEW row \in SemanticEndpointRows(frontier, values)
  PROVE  /\ row.primaryStatus = TieBoundaryStatus(values, row.endpoint, ProtectedPrimaryK)
         /\ row.denseStatus = TieBoundaryStatus(values, row.endpoint, MaxDenseDepth)
<1> DEFINE endpoints == {v.endpoint : v \in frontier}
           scored == endpoints \cap Observed(values)
           best == Best({NativeScore(values, p) : p \in scored})
           first == IF scored = {} THEN None
                    ELSE CHOOSE p \in scored : NativeScore(values, p) = best /\ \A q \in scored : NativeScore(values, q) = best => p <= q
           views(p) == {v \in frontier : v.endpoint = p}
           anchor(p) == Representative(views(p)).anchor
           edges(p) == Edges(views(p))
           gap(p) == NativeScore(values, p) - NativeScore(values, anchor(p))
           two == Best({NativeScore(values, q) : q \in scored \ {first}})
           ambiguous == Cardinality(scored) < 2
           primary(p) == TieBoundaryStatus(values, p, ProtectedPrimaryK)
           dense(p) == TieBoundaryStatus(values, p, MaxDenseDepth)
           of(p) == [endpoint |-> p, anchor |-> anchor(p), views |-> views(p), edges |-> edges(p), gap |-> gap(p),
                     topOne |-> best, topTwo |-> two, ambiguous |-> ambiguous,
                     primaryStatus |-> primary(p), denseStatus |-> dense(p)]
<1>1. SemanticEndpointRows(frontier, values) = {of(p) : p \in endpoints}
  BY DEF SemanticEndpointRows
<1> HIDE DEF views, anchor, edges, gap, best, two, ambiguous, first, scored, primary, dense, endpoints
<1>2. \A p : of(p).endpoint = p /\ of(p).primaryStatus = primary(p) /\ of(p).denseStatus = dense(p)
  OBVIOUS
<1> HIDE DEF of
<1>3. PICK p : row = of(p)
  BY <1>1
<1>4. row.endpoint = p /\ row.primaryStatus = primary(p) /\ row.denseStatus = dense(p)
  BY <1>2, <1>3
<1> QED
  BY <1>4 DEF primary, dense

(* The endpoints of a completion are called what they are.                 *)
LEMMA EndpointsExact ==
  ASSUME NEW segments, Artifact(segments), NEW frontier, NEW values, values = CollapseActiveScores(segments),
         NEW K \in Nat, K = ProtectedPrimaryK, NEW row \in SemanticEndpointRows(frontier, values),
         row.endpoint \in Observed(values), NEW b \in {ProtectedPrimaryK, MaxDenseDepth}
  PROVE  LET status == IF b = ProtectedPrimaryK THEN row.primaryStatus ELSE row.denseStatus
             score == NativeScore(values, row.endpoint)
         IN /\ status = "INCLUDED_EXACT" <=> Cardinality(LevelOrAhead(values, score)) <= b
            /\ status = "EXCLUDED_EXACT" <=> Cardinality(Ahead(values, score)) >= b
<1>1. PICK order : Collapse(segments, order, values)
  BY CollapseIs DEF Collapse
<1> DEFINE p == row.endpoint
           status == IF b = ProtectedPrimaryK THEN row.primaryStatus ELSE row.denseStatus
<1>2. row.primaryStatus = TieBoundaryStatus(values, p, ProtectedPrimaryK) /\ row.denseStatus = TieBoundaryStatus(values, p, MaxDenseDepth)
  BY EndpointRowIs
<1>3. status = TieBoundaryStatus(values, p, b)
  BY <1>2
<1>4. b \in Nat
  BY RankingAssumption DEF RankingAssumption
<1> HIDE DEF status
<1> QED
  BY <1>1, <1>3, <1>4, StatusIsExact DEF status

(* Induction up to a number.                                               *)
LEMMA ClimbTo ==
  ASSUME NEW n \in Nat, NEW T, 0 \in T, \A i \in 1..n : i - 1 \in T => i \in T
  PROVE  0..n \subseteq T
<1> DEFINE S == {i \in Nat : i <= n => i \in T}
<1>1. \A i \in Nat : i \in S => i + 1 \in S
  <2> SUFFICES ASSUME NEW i \in Nat, i \in S, i + 1 <= n PROVE i + 1 \in T
    OBVIOUS
  <2>1. i + 1 \in 1..n /\ (i + 1) - 1 = i /\ i \in T
    OBVIOUS
  <2> QED
    BY <2>1
<1>2. 0 \in S
  OBVIOUS
<1> HIDE DEF S
<1>3. Nat \subseteq S
  BY <1>1, <1>2, Climb
<1> QED
  BY <1>3 DEF S

-----------------------------------------------------------------------------
(* Siblings.                                                               *)

(* What is packaged are the parents of an artifact.                        *)
Packaged(q, segments) ==
  /\ Artifact(segments) /\ \A i \in DOMAIN segments : Traits[segments[i].parent].bytes > 0
  /\ q.values = CollapseActiveScores(segments)
  /\ DOMAIN q.primary = 1..ProtectedPrimaryK

SiblingKeys(q) == [p \in SiblingCandidates(q) |-> SiblingKey(q, p)]
SiblingOrder(q) == InOrder(SiblingCandidates(q), LAMBDA p, r : KeyLess(SiblingKey(q, p), SiblingKey(q, r)))

(* Siblings are parents with a body, next to a primary one.                *)
LEMMA SiblingsAre ==
  ASSUME NEW q, NEW segments, Packaged(q, segments)
  PROVE  /\ SiblingCandidates(q) \subseteq Parents /\ IsFiniteSet(SiblingCandidates(q))
         /\ Cardinality(SiblingCandidates(q)) <= Cardinality(Parents)
         /\ \A p \in SiblingCandidates(q) :
               /\ p \in Int /\ Traits[p].symbol \in Int /\ Traits[p].bytes \in Nat \ {0}
               /\ FileOrder(q, Traits[p].path) \in Int
<1>1. PICK order : Collapse(segments, order, q.values)
  BY CollapseIs DEF Packaged, Collapse
<1>2. Observed(q.values) = {segments[j].parent : j \in DOMAIN segments}
  BY <1>1, ScoresAre
<1>3. \A j \in DOMAIN segments : segments[j].parent \in Parents /\ Traits[segments[j].parent].bytes > 0
  BY RowIs DEF Packaged
<1>4. /\ IsFiniteSet(Parents) /\ \A p \in Parents : p \in Int /\ Traits[p].bytes \in Nat /\ Traits[p].symbol \in Int
      /\ ProtectedPrimaryK \in Nat
  BY PackagingAssumption, RankingAssumption DEF PackagingAssumption, RankingAssumption
<1>5. SiblingCandidates(q) \subseteq Observed(q.values)
  BY DEF SiblingCandidates
<1>6. SiblingCandidates(q) \subseteq Parents
  BY <1>2, <1>3, <1>5
<1>7. IsFiniteSet(SiblingCandidates(q)) /\ Cardinality(SiblingCandidates(q)) <= Cardinality(Parents)
  BY <1>4, <1>6, FS_Subset
<1>8. ASSUME NEW p \in SiblingCandidates(q)
      PROVE  FileOrder(q, Traits[p].path) \in Int
  <2> DEFINE path == Traits[p].path
             T == {i \in DOMAIN q.primary : Traits[q.primary[i]].path = path}
  <2>1. DOMAIN q.primary \subseteq Nat /\ T \in SUBSET Nat
    BY <1>4 DEF Packaged
  <2>2. T # {}
    BY DEF SiblingCandidates, Paths, PrimarySet
  <2>3. PICK i \in T : \A j \in T : i <= j
    <3> HIDE DEF T
    <3> QED
      BY <2>1, <2>2, LeastNumber
  <2>4. \A j \in 1..(i - 1) : j \in DOMAIN q.primary /\ ~(i <= j)
    BY <1>4, <2>3 DEF Packaged
  <2>5. \A j \in 1..(i - 1) : Traits[q.primary[j]].path # path
    BY <2>3, <2>4
  <2> DEFINE o == FileOrder(q, path)
  <2>6. o \in DOMAIN q.primary
    BY <2>3, <2>5 DEF FileOrder
  <2> QED
    BY <2>1, <2>6
<1>9. \A p \in SiblingCandidates(q) : Traits[p].bytes > 0
  BY <1>2, <1>3, <1>5
<1> QED
  BY <1>4, <1>6, <1>7, <1>8, <1>9

(* They have an order.                                                     *)
LEMMA SiblingsOrdered ==
  ASSUME NEW q, NEW segments, Packaged(q, segments)
  PROVE  LET b == Behind(SiblingCandidates(q), SiblingKeys(q))
         IN LinearOn(SiblingCandidates(q), b) /\ Lists(SiblingOrder(q), SiblingCandidates(q), b)
<1> DEFINE S == SiblingCandidates(q)
           key == SiblingKeys(q)
           b == Behind(S, key)
           order == SiblingOrder(q)
           place(x) == Cardinality({y \in S : KeyLess(SiblingKey(q, y), SiblingKey(q, x))})
<1>1. \A p \in S : key[p] = <<Asc(FileOrder(q, Traits[p].path)), Asc(Traits[p].symbol), Asc(p)>>
  BY DEF SiblingKeys, SiblingKey
<1>2. \A p \in S : p \in Int /\ Traits[p].symbol \in Int /\ FileOrder(q, Traits[p].path) \in Int
  BY SiblingsAre
<1>3. IsFiniteSet(S) /\ Cardinality(S) \in Nat
  BY SiblingsAre, FS_CardinalityType
<1>4. order = [i \in 1..Cardinality(S) |-> CHOOSE x \in S : place(x) = i - 1]
  BY DEF SiblingOrder, InOrder
<1>5. \A x \in S : place(x) = Cardinality(b[x])
  <2>1. \A x \in S : b[x] = {y \in S : KeyLess(SiblingKey(q, y), SiblingKey(q, x))}
    BY DEF Behind, SiblingKeys
  <2> QED
    BY <2>1
<1> HIDE DEF S, key, place, order
<1>6. Keyed(S, key, 3)
  <2>1. \A v : Asc(v).order = "asc" /\ Asc(v).value = v
    BY DEF Asc
  <2>2. \A p \in S : /\ Len(key[p]) = 3 /\ key[p][1] = Asc(FileOrder(q, Traits[p].path))
                     /\ key[p][2] = Asc(Traits[p].symbol) /\ key[p][3] = Asc(p)
    BY <1>1
  <2>3. \A v \in Int : Asc(v) \in Components
    BY DEF Asc, Components
  <2>4. \A p \in S, i \in 1..3 : key[p][i] \in Components /\ key[p][i].order = "asc"
    BY <1>2, <2>1, <2>2, <2>3
  <2>5. ASSUME NEW x \in S, NEW y \in S, Level(key[x][3], key[y][3]) PROVE x = y
    BY <1>2, <2>1, <2>2, <2>5 DEF Level, Better
  <2> QED
    BY <2>2, <2>4, <2>5 DEF Keyed
<1>7. LinearOn(S, b)
  BY <1>6, KeysOrder
<1> HIDE DEF b
<1>8. ASSUME NEW i \in 1..Cardinality(S)
      PROVE  order[i] \in S /\ Cardinality(b[order[i]]) = i - 1
  <2>1. i - 1 \in 0..(Cardinality(S) - 1)
    BY <1>3
  <2>2. \E x \in S : Cardinality(b[x]) = i - 1
    BY <1>3, <1>7, <2>1, PlacesTaken
  <2>3. \E x \in S : place(x) = i - 1
    BY <1>5, <2>2
  <2>4. order[i] = CHOOSE x \in S : place(x) = i - 1
    BY <1>4
  <2>5. order[i] \in S /\ place(order[i]) = i - 1
    BY <2>3, <2>4
  <2> QED
    BY <1>5, <2>5
<1>9. DOMAIN order = 1..Cardinality(S)
  BY <1>4
<1> QED
  BY <1>7, <1>8, <1>9 DEF Lists, S, key, b, order

StartOfSiblings == [emitted |-> <<>>, omissions |-> {}, bytes |-> 0]
EmitAll(order, count, bytes, f) ==
  [i \in 0..Len(order) |-> IF i = 0 THEN StartOfSiblings ELSE EmitSibling(f[i - 1], order[i], count, bytes)]
Emissions(order, count, bytes) == CHOOSE f : f = EmitAll(order, count, bytes, f)

(* The package is the last of the emissions.                               *)
LEMMA PackageSiblingsIs ==
  ASSUME NEW q, NEW count, NEW bytes
  PROVE  PackageSiblings(q, count, bytes) = Emissions(SiblingOrder(q), count, bytes)[Len(SiblingOrder(q))]
  BY Zenon DEF PackageSiblings, Emissions, EmitAll, SiblingOrder, StartOfSiblings

(* What nothing speaks against has no reason.                              *)
LEMMA NoReasonHolds ==
  ASSUME NEW a, NEW b, NEW c, ~a, ~b, ~c, NEW x, NEW y, NEW z
  PROVE  FirstReason(<<<<a, x>>, <<b, y>>, <<c, z>>>>) = NoReason
<1> DEFINE reasons == <<<<a, x>>, <<b, y>>, <<c, z>>>>
<1>1. {i \in DOMAIN reasons : reasons[i][1]} = {}
  OBVIOUS
<1> HIDE DEF reasons
<1> QED
  BY <1>1 DEF FirstReason, reasons

(* The first i of a list, packaged.                                        *)
FirstOnes(order, i) == {order[k] : k \in 1..i}
AllSoFar(order, f, i) == [emitted |-> [k \in 1..i |-> order[k]], omissions |-> {}, bytes |-> SumOf(f, FirstOnes(order, i))]
BodySizes == [p \in Parents |-> Traits[p].bytes]
Room(order) ==
  /\ Len(order) \in Nat /\ DOMAIN order = 1..Len(order) /\ Len(order) <= Cardinality(Parents)
  /\ \A i \in 1..Len(order) : order[i] \in Parents /\ Traits[order[i]].bytes \in Nat \ {0}
  /\ \A i, j \in 1..Len(order) : order[i] = order[j] => i = j

(* With room for all parents, each one fits.                               *)
LEMMA NextFits ==
  ASSUME NEW order, Room(order), NEW i \in 1..Len(order)
  PROVE  EmitSibling(AllSoFar(order, BodySizes, i - 1), order[i], Cardinality(Parents), SumOf(BodySizes, Parents))
           = AllSoFar(order, BodySizes, i)
<1> DEFINE old == AllSoFar(order, BodySizes, i - 1)
           T == FirstOnes(order, i - 1)
           p == order[i]
           all == SumOf(BodySizes, Parents)
           e == [k \in 1..(i - 1) |-> order[k]]
<1>1. /\ p \in Parents /\ Traits[p].bytes \in Nat \ {0} /\ BodySizes[p] = Traits[p].bytes
      /\ i \in Nat \ {0} /\ i <= Cardinality(Parents) /\ Cardinality(Parents) \in Nat
  <2>1. IsFiniteSet(Parents)
    BY PackagingAssumption DEF PackagingAssumption
  <2>2. Cardinality(Parents) \in Nat
    BY <2>1, FS_CardinalityType
  <2> QED
    BY <2>2 DEF Room, BodySizes
<1>2. \A k \in 1..(i - 1) : k \in 1..Len(order) /\ k # i
  BY DEF Room
<1>3. T \subseteq Parents /\ p \notin T /\ FirstOnes(order, i) = T \cup {p}
  <2>1. T \subseteq Parents /\ p \notin T
    BY <1>2 DEF Room, FirstOnes
  <2>2. 1..i = (1..(i - 1)) \cup {i}
    BY <1>1
  <2>3. FirstOnes(order, i) = T \cup {p}
    BY <2>2 DEF FirstOnes
  <2> QED
    BY <2>1, <2>3
<1>4. IsFiniteSet(Parents) /\ IsFiniteSet(T) /\ \A y \in Parents : BodySizes[y] \in Nat
  BY <1>3, PackagingAssumption, FS_Subset DEF PackagingAssumption, BodySizes
<1> HIDE DEF T, p, all
<1>5. SumOf(BodySizes, T) \in Int /\ SumOf(BodySizes, T \cup {p}) = SumOf(BodySizes, T) + Traits[p].bytes
  <2>1. \A y \in T \cup {p} : BodySizes[y] \in Int
    BY <1>1, <1>3, <1>4
  <2>2. SumOf(BodySizes, T) \in Int /\ SumOf(BodySizes, T \cup {p}) = SumOf(BodySizes, T) + BodySizes[p]
    BY <1>3, <1>4, <2>1, SumOfMore
  <2> QED
    BY <1>1, <2>2
<1>6. SumOf(BodySizes, T \cup {p}) <= all
  BY <1>1, <1>3, <1>4, SumOfPart DEF all
<1>7. e \in Seq(Parents) /\ Len(e) = i - 1 /\ Append(e, p) = [k \in 1..i |-> order[k]]
  <2>1. \A k \in 1..(i - 1) : order[k] \in Parents
    BY <1>2 DEF Room
  <2>2. e \in Seq(Parents) /\ Len(e) = i - 1
    BY <1>1, <2>1
  <2> DEFINE a == Append(e, p)
             c == [k \in 1..i |-> order[k]]
  <2>3. DOMAIN a = 1..i /\ a = [k \in 1..i |-> a[k]] /\ \A k \in 1..i : a[k] = IF k = i THEN p ELSE e[k]
    <3>1. a \in Seq(Parents) /\ Len(a) = i /\ a[i] = p /\ \A k \in 1..(i - 1) : a[k] = e[k]
      BY <1>1, <2>2, AppendProperties
    <3> HIDE DEF a
    <3>2. DOMAIN a = 1..i /\ a = [k \in 1..i |-> a[k]]
      BY <3>1
    <3>3. \A k \in 1..i : k = i \/ k \in 1..(i - 1)
      BY <1>1
    <3> QED
      BY <3>1, <3>2, <3>3
  <2>4. \A k \in 1..i : (IF k = i THEN p ELSE e[k]) = order[k]
    BY <1>1 DEF p
  <2> HIDE DEF a, e
  <2>5. a = c
    BY <2>3, <2>4
  <2> QED
    BY <2>2, <2>5 DEF a
<1> HIDE DEF e
<1>8. old = [emitted |-> e, omissions |-> {}, bytes |-> SumOf(BodySizes, T)]
  BY DEF AllSoFar, e, T
<1> HIDE DEF old
<1> DEFINE n == Cardinality(Parents)
           a == Traits[p].bytes <= 0
           b == Len(old.emitted) >= n
           c == old.bytes + Traits[p].bytes > all
           why == FirstReason(<<<<a, "SIBLING_MISSING_BODY">>, <<b, "SIBLING_COUNT_CAP">>, <<c, "SIBLING_BYTE_CAP">>>>)
<1>9. ~a /\ ~b /\ ~c
  <2>1. old.bytes + Traits[p].bytes = SumOf(BodySizes, T \cup {p})
    BY <1>5, <1>8
  <2>2. SumOf(BodySizes, T \cup {p}) \in Int /\ all \in Int
    BY <1>1, <1>3, <1>4, SumOfPart DEF all
  <2> QED
    BY <1>1, <1>6, <1>7, <1>8, <2>1, <2>2
<1>10. EmitSibling(old, p, n, all)
         = IF why = NoReason THEN [emitted |-> Append(old.emitted, p), omissions |-> old.omissions, bytes |-> old.bytes + Traits[p].bytes]
           ELSE [old EXCEPT !.omissions = @ \cup {[parent |-> p, why |-> why]}]
  BY DEF EmitSibling
<1> HIDE DEF a, b, c
<1>11. why = NoReason
  BY <1>9, NoReasonHolds
<1> HIDE DEF why
<1>12. EmitSibling(old, p, n, all) = [emitted |-> Append(e, p), omissions |-> {}, bytes |-> SumOf(BodySizes, T) + Traits[p].bytes]
  BY <1>8, <1>10, <1>11
<1>14. AllSoFar(order, BodySizes, i) = [emitted |-> Append(e, p), omissions |-> {}, bytes |-> SumOf(BodySizes, T) + Traits[p].bytes]
  BY <1>3, <1>5, <1>7 DEF AllSoFar
<1> QED
  BY <1>12, <1>14 DEF old, p, all

(* So all are emitted in the end.                                          *)
LEMMA AllAreEmitted ==
  ASSUME NEW order, Room(order)
  PROVE  Emissions(order, Cardinality(Parents), SumOf(BodySizes, Parents))[Len(order)] = AllSoFar(order, BodySizes, Len(order))
<1> DEFINE n == Len(order)
           count == Cardinality(Parents)
           bytes == SumOf(BodySizes, Parents)
           f == [i \in 0..n |-> AllSoFar(order, BodySizes, i)]
           state == Emissions(order, count, bytes)
<1>1. n \in Nat
  BY DEF Room
<1>2. \A i \in 1..n : EmitSibling(f[i - 1], order[i], count, bytes) = f[i]
  <2> SUFFICES ASSUME NEW i \in 1..n PROVE EmitSibling(f[i - 1], order[i], count, bytes) = f[i]
    OBVIOUS
  <2>1. i \in 0..n /\ i - 1 \in 0..n
    BY <1>1
  <2>2. f[i - 1] = AllSoFar(order, BodySizes, i - 1) /\ f[i] = AllSoFar(order, BodySizes, i)
    BY <2>1
  <2> HIDE DEF f
  <2> QED
    BY <2>2, NextFits
<1>3. f[0] = StartOfSiblings
  <2>1. FirstOnes(order, 0) = {}
    BY DEF FirstOnes
  <2>2. SumOf(BodySizes, {}) = 0
    BY SumOfNothing
  <2>3. [k \in 1..0 |-> order[k]] = <<>>
    OBVIOUS
  <2>4. f[0] = AllSoFar(order, BodySizes, 0)
    BY <1>1
  <2> QED
    BY <2>1, <2>2, <2>3, <2>4 DEF AllSoFar, StartOfSiblings
<1>4. f = [i \in 0..n |-> f[i]]
  OBVIOUS
<1>5. f[n] = AllSoFar(order, BodySizes, n)
  BY <1>1
<1> HIDE DEF f, count, bytes
<1>6. f = EmitAll(order, count, bytes, f)
  <2>1. \A i \in 0..n : f[i] = IF i = 0 THEN StartOfSiblings ELSE EmitSibling(f[i - 1], order[i], count, bytes)
    BY <1>1, <1>2, <1>3
  <2> QED
    BY <1>4, <2>1 DEF EmitAll
<1>7. state = EmitAll(order, count, bytes, state)
  BY <1>6 DEF Emissions
<1> HIDE DEF state
<1>8. \A i \in 0..n : state[i] = IF i = 0 THEN StartOfSiblings ELSE EmitSibling(state[i - 1], order[i], count, bytes)
  <2> DEFINE g == EmitAll(order, count, bytes, state)
  <2>1. \A i \in 0..n : g[i] = IF i = 0 THEN StartOfSiblings ELSE EmitSibling(state[i - 1], order[i], count, bytes)
    BY DEF EmitAll
  <2> HIDE DEF g
  <2>2. g = state
    BY <1>7 DEF g
  <2> QED
    BY <2>1, <2>2
<1> DEFINE T == {i \in 0..n : state[i] = f[i]}
<1>9. 0 \in T
  BY <1>1, <1>3, <1>8
<1>10. \A i \in 1..n : i - 1 \in T => i \in T
  BY <1>1, <1>2, <1>8
<1> HIDE DEF T
<1>11. 0..n \subseteq T
  BY <1>1, <1>9, <1>10, ClimbTo
<1>12. state[n] = f[n]
  BY <1>1, <1>11 DEF T
<1> QED
  BY <1>5, <1>12 DEF state, count, bytes

(* Every sibling fits a budget made for all parents.                       *)
LEMMA SomeBudgetPackagesAll ==
  ASSUME NEW q, NEW segments, Packaged(q, segments)
  PROVE  LET all == PackageSiblings(q, Cardinality(Parents), SumOf(BodySizes, Parents)).emitted
         IN {all[k] : k \in DOMAIN all} = SiblingCandidates(q)
<1> DEFINE S == SiblingCandidates(q)
           b == Behind(S, SiblingKeys(q))
           order == SiblingOrder(q)
           all == PackageSiblings(q, Cardinality(Parents), SumOf(BodySizes, Parents)).emitted
<1>1. LinearOn(S, b) /\ Lists(order, S, b)
  BY SiblingsOrdered
<1>2. /\ IsFiniteSet(S) /\ S \subseteq Parents /\ Cardinality(S) <= Cardinality(Parents)
      /\ \A p \in S : Traits[p].bytes \in Nat \ {0}
  BY SiblingsAre
<1> DEFINE pick(i) == CHOOSE x \in S : Cardinality({y \in S : KeyLess(SiblingKey(q, y), SiblingKey(q, x))}) = i - 1
<1>0. order = [i \in 1..Cardinality(S) |-> pick(i)]
  BY DEF SiblingOrder, InOrder
<1> HIDE DEF S, b, order, pick
<1>3. order = [i \in 1..Cardinality(S) |-> order[i]]
  BY <1>0
<1>4. /\ Cardinality(S) \in Nat /\ \A x \in S : \E i \in DOMAIN order : order[i] = x
      /\ \A i, j \in DOMAIN order : order[i] = order[j] => i = j
  BY <1>1, <1>2, Listed
<1>5. DOMAIN order = 1..Cardinality(S) /\ Len(order) = Cardinality(S) /\ \A i \in 1..Len(order) : order[i] \in S
  <2>1. Len(order) = Cardinality(S)
    BY <1>3, <1>4
  <2> QED
    BY <1>1, <2>1 DEF Lists
<1>6. Room(order)
  BY <1>2, <1>4, <1>5 DEF Room
<1>7. all = [k \in 1..Len(order) |-> order[k]]
  <2>1. PackageSiblings(q, Cardinality(Parents), SumOf(BodySizes, Parents)) = AllSoFar(order, BodySizes, Len(order))
    BY <1>6, PackageSiblingsIs, AllAreEmitted DEF order
  <2> QED
    BY <2>1 DEF AllSoFar
<1> HIDE DEF all
<1>8. DOMAIN all = 1..Len(order) /\ \A k \in 1..Len(order) : all[k] = order[k]
  BY <1>7
<1> QED
  BY <1>4, <1>5, <1>8 DEF all, S

MissingWith(q, extras) == [i \in Missing(q, PrimarySet(q) \cup extras) |-> MissClass(q, q.groups[i])]

(* What a row says is missing.                                             *)
LEMMA ScoredMissing ==
  ASSUME NEW q, NEW arm, NEW cell, NEW package, NEW row, row = ScorePackagingQuery(q, arm, cell, package)
  PROVE  \E extras : row.missing = MissingWith(q, extras)
<1> DEFINE extras == {package.emitted[i] : i \in DOMAIN package.emitted}
           missing == Missing(q, PrimarySet(q) \cup extras)
           noise == {p \in extras \cap DOMAIN q.grades : q.grades[p] = 0 /\ ~PackagingAdjacent(q, p)}
           complete == missing = {}
           classes == [i \in missing |-> MissClass(q, q.groups[i])]
           ranks == [i \in missing |-> BestRank(q, q.groups[i])]
           paths == Paths(noise)
           unlabeled == extras \ DOMAIN q.grades
<1>1. row = [query |-> q.id, arm |-> arm, cell |-> cell, extras |-> extras, omissions |-> package.omissions,
             complete |-> complete, missing |-> classes, ranks |-> ranks,
             noise |-> noise, noiseFiles |-> paths, unlabeled |-> unlabeled]
  BY DEF ScorePackagingQuery
<1> HIDE DEF classes, ranks, paths, noise, complete, unlabeled, missing, extras
<1>2. row.missing = classes
  BY <1>1
<1>3. classes = MissingWith(q, extras)
  BY DEF classes, missing, MissingWith
<1> QED
  BY <1>2, <1>3

(* A miss is put down to packaging exactly when a sibling would mend it.   *)
LEMMA MissesTold ==
  ASSUME NEW q, NEW segments, Packaged(q, segments), NEW contract, NEW row \in EvaluatePackaging(contract, q),
         NEW i \in DOMAIN row.missing
  PROVE  row.missing[i] = "SIBLING_NOT_PACKAGED" <=> q.groups[i] \cap SiblingCandidates(q) # {}
<1>1. \E arm, cell, package : row = ScorePackagingQuery(q, arm, cell, package)
  BY Zenon DEF EvaluatePackaging
<1>2. PICK extras : row.missing = MissingWith(q, extras)
  BY <1>1, ScoredMissing
<1> DEFINE G == q.groups[i]
<1>3. row.missing[i] = MissClass(q, G) /\ G \cap PrimarySet(q) = {}
  BY <1>2 DEF Missing, MissingWith
<1>4. MissClass(q, G) = "SIBLING_NOT_PACKAGED" <=> Paths(G \cap Observed(q.values)) \cap Paths(PrimarySet(q)) # {}
  BY DEF MissClass
<1>5. Paths(G \cap Observed(q.values)) \cap Paths(PrimarySet(q)) # {}
        <=> \E p \in G \cap Observed(q.values) : Traits[p].path \in Paths(PrimarySet(q))
  BY DEF Paths
<1>6. G \cap SiblingCandidates(q) # {}
        <=> \E p \in G \cap Observed(q.values) : p \notin PrimarySet(q) /\ Traits[p].path \in Paths(PrimarySet(q))
  BY DEF SiblingCandidates
<1>7. \A p \in G : p \notin PrimarySet(q)
  BY <1>3
<1> HIDE DEF G
<1>8. MissClass(q, G) = "SIBLING_NOT_PACKAGED" <=> G \cap SiblingCandidates(q) # {}
  BY <1>4, <1>5, <1>6, <1>7
<1> QED
  BY <1>3, <1>8 DEF G

-----------------------------------------------------------------------------
(* Closures.                                                               *)

(* The reason is that of the first that holds.                             *)
LEMMA FirstReasonIs ==
  ASSUME NEW reasons, NEW n \in Nat, DOMAIN reasons = 1..n
  PROVE  \/ FirstReason(reasons) = NoReason /\ \A i \in 1..n : ~reasons[i][1]
         \/ \E k \in 1..n : /\ reasons[k][1] /\ FirstReason(reasons) = reasons[k][2]
                            /\ \A i \in 1..(k - 1) : ~reasons[i][1]
<1> DEFINE H == {i \in DOMAIN reasons : reasons[i][1]}
           k == CHOOSE i \in H : \A j \in H : i <= j
<1>1. FirstReason(reasons) = IF H = {} THEN NoReason ELSE reasons[k][2]
  BY DEF FirstReason
<1>2. H \in SUBSET Nat
  OBVIOUS
<1>3. CASE H = {}
  BY <1>1, <1>3
<1>4. CASE H # {}
  <2>1. \E i \in H : \A j \in H : i <= j
    <3> HIDE DEF H
    <3> QED
      BY <1>2, <1>4, LeastNumber
  <2>2. k \in H /\ \A j \in H : k <= j
    BY <2>1
  <2>3. \A i \in 1..(k - 1) : i \in 1..n /\ ~(k <= i)
    BY <2>2
  <2> HIDE DEF k
  <2>4. k \in 1..n /\ reasons[k][1] /\ \A i \in 1..(k - 1) : ~reasons[i][1]
    BY <2>2, <2>3
  <2> QED
    BY <1>1, <1>4, <2>4
<1> QED
  BY <1>3, <1>4

Words == {"ROLE_NOT_CONTRACT", "SELF_CYCLE", "ALREADY_PRIMARY", "MISSING_TARGET_PARENT", "TARGET_NOT_PRODUCTION",
          "BODY_INCOMPLETE", "DUPLICATE_TARGET_PARENT_PRIMARY", "DUPLICATE_TARGET_PARENT_REQUEST"}

(* Giving no reason is none of them.                                       *)
LEMMA WordsAreReasons == NoReason \notin Words
  BY Zenon DEF NoReason, Words

(* What the reason says of a fact.                                         *)
LEMMA OmissionIs ==
  ASSUME NEW f, NEW primary, NEW chosen
  PROVE  LET why == ClosureOmission(f, primary, chosen)
         IN /\ why = NoReason => f.endpoint \in Parents /\ \A pair \in chosen : pair[2] # f.endpoint
            /\ why = "DUPLICATE_TARGET_PARENT_REQUEST" =>
                  <<f.anchor, f.endpoint>> \notin chosen /\ \E pair \in chosen : pair[2] = f.endpoint
            /\ why = "DUPLICATE_TARGET_PARENT_PRIMARY" => <<f.anchor, f.endpoint>> \in chosen
<1> DEFINE r1 == ClosureRoleClass(f.occurrence.role) = "UNDECLARED_SIGNATURE_ROLE"
           r2 == f.anchor = f.endpoint
           r3 == \E i \in DOMAIN primary : primary[i] = f.endpoint
           r4 == f.endpoint \notin Parents
           r5 == ~Traits[f.endpoint].production
           r6 == Traits[f.endpoint].bytes = 0
           r7 == <<f.anchor, f.endpoint>> \in chosen
           r8 == \E pair \in chosen : pair[2] = f.endpoint
           reasons == <<
        <<r1, "ROLE_NOT_CONTRACT">>,
        <<r2, "SELF_CYCLE">>,
        <<r3, "ALREADY_PRIMARY">>,
        <<r4, "MISSING_TARGET_PARENT">>,
        <<r5, "TARGET_NOT_PRODUCTION">>,
        <<r6, "BODY_INCOMPLETE">>,
        <<r7, "DUPLICATE_TARGET_PARENT_PRIMARY">>,
        <<r8, "DUPLICATE_TARGET_PARENT_REQUEST">>>>
           why == ClosureOmission(f, primary, chosen)
<1>1. why = FirstReason(reasons)
  BY DEF ClosureOmission
<1> HIDE DEF r1, r2, r3, r4, r5, r6, r7, r8, why
<1>2. /\ reasons[4][1] <=> r4
      /\ reasons[7][1] <=> r7
      /\ reasons[8][1] <=> r8
      /\ DOMAIN reasons = 1..8
  OBVIOUS
<1>3. /\ reasons[1][2] = "ROLE_NOT_CONTRACT" /\ reasons[2][2] = "SELF_CYCLE" /\ reasons[3][2] = "ALREADY_PRIMARY"
      /\ reasons[4][2] = "MISSING_TARGET_PARENT" /\ reasons[5][2] = "TARGET_NOT_PRODUCTION"
      /\ reasons[6][2] = "BODY_INCOMPLETE" /\ reasons[7][2] = "DUPLICATE_TARGET_PARENT_PRIMARY"
      /\ reasons[8][2] = "DUPLICATE_TARGET_PARENT_REQUEST"
  OBVIOUS
<1> HIDE DEF reasons
<1>4. \A k \in 1..8 : reasons[k][2] \in Words
  BY <1>3 DEF Words
<1>5. \/ why = NoReason /\ \A i \in 1..8 : ~reasons[i][1]
      \/ \E k \in 1..8 : reasons[k][1] /\ why = reasons[k][2] /\ \A i \in 1..(k - 1) : ~reasons[i][1]
  BY <1>1, <1>2, FirstReasonIs
<1>6. why = NoReason => ~r4 /\ ~r8
  BY <1>2, <1>4, <1>5, WordsAreReasons
<1>7. why = "DUPLICATE_TARGET_PARENT_REQUEST" => ~r7 /\ r8
  <2> SUFFICES ASSUME why = "DUPLICATE_TARGET_PARENT_REQUEST" PROVE ~r7 /\ r8
    OBVIOUS
  <2>1. why # NoReason
    BY WordsAreReasons DEF Words
  <2>2. PICK k \in 1..8 : reasons[k][1] /\ why = reasons[k][2] /\ \A i \in 1..(k - 1) : ~reasons[i][1]
    BY <1>5, <2>1
  <2>3. k = 8
    BY <1>3, <2>2
  <2> QED
    BY <1>2, <2>2, <2>3
<1>8. why = "DUPLICATE_TARGET_PARENT_PRIMARY" => r7
  <2> SUFFICES ASSUME why = "DUPLICATE_TARGET_PARENT_PRIMARY" PROVE r7
    OBVIOUS
  <2>1. why # NoReason
    BY WordsAreReasons DEF Words
  <2>2. PICK k \in 1..8 : reasons[k][1] /\ why = reasons[k][2] /\ \A i \in 1..(k - 1) : ~reasons[i][1]
    BY <1>5, <2>1
  <2>3. k = 7
    BY <1>3, <2>2
  <2> QED
    BY <1>2, <2>2, <2>3
<1> QED
  BY <1>6, <1>7, <1>8 DEF r4, r7, r8, why

IsList(s) == Len(s) \in Nat /\ DOMAIN s = 1..Len(s) /\ s = [i \in 1..Len(s) |-> s[i]]

(* A list with one more element.                                           *)
LEMMA Appended ==
  ASSUME NEW s, IsList(s), NEW e
  PROVE  LET t == Append(s, e)
         IN /\ IsList(t) /\ Len(t) = Len(s) + 1 /\ DOMAIN t = DOMAIN s \cup {Len(s) + 1}
            /\ \A i \in DOMAIN s : t[i] = s[i]
            /\ t[Len(s) + 1] = e
<1> DEFINE n == Len(s)
           S == {s[i] : i \in 1..n} \cup {e}
           t == Append(s, e)
<1>1. n \in Nat /\ DOMAIN s = 1..n /\ s = [i \in 1..n |-> s[i]]
  BY DEF IsList
<1>2. \A i \in 1..n : s[i] \in S
  OBVIOUS
<1>3. e \in S
  OBVIOUS
<1> HIDE DEF S
<1>4. s \in Seq(S)
  <2> HIDE DEF n
  <2>1. [i \in 1..n |-> s[i]] \in Seq(S)
    BY <1>1, <1>2
  <2> QED
    BY <1>1, <2>1
<1>5. t \in Seq(S) /\ Len(t) = n + 1 /\ t[n + 1] = e /\ \A i \in 1..n : t[i] = s[i]
  BY <1>3, <1>4, AppendProperties
<1> HIDE DEF t, n
<1>6. DOMAIN t = 1..(n + 1) /\ t = [i \in 1..(n + 1) |-> t[i]]
  BY <1>5
<1>7. 1..(n + 1) = (1..n) \cup {n + 1}
  BY <1>1
<1> QED
  BY <1>1, <1>5, <1>6, <1>7 DEF IsList, t, n

StartOfClosures == [rows |-> <<>>, chosen |-> {}, bytes |-> 0]
ClosureAll(order, primary, f) ==
  [i \in 0..Len(order) |-> IF i = 0 THEN StartOfClosures ELSE ClosureRow(f[i - 1], order[i], primary)]
Closures(order, primary) == CHOOSE f : f = ClosureAll(order, primary, f)
ClosureOrder(graph, primary) ==
  InOrder(ContractFacts(graph, primary), LAMBDA f, g : KeyLess(ClosureKey(f, primary), ClosureKey(g, primary)))

(* The closures are the rows of the last state.                            *)
LEMMA ClosureRowsAre ==
  ASSUME NEW graph, NEW primary
  PROVE  ClosureRowsForQuery(graph, primary)
           = Closures(ClosureOrder(graph, primary), primary)[Len(ClosureOrder(graph, primary))].rows
  BY Zenon DEF ClosureRowsForQuery, Closures, ClosureAll, ClosureOrder, StartOfClosures

(* The recursion of the closures, row by row.                              *)
LEMMA ClosuresAre ==
  ASSUME NEW order, Len(order) \in Nat, NEW primary
  PROVE  LET state == Closures(order, primary)
         IN /\ state[0] = StartOfClosures
            /\ \A i \in 1..Len(order) : state[i] = ClosureRow(state[i - 1], order[i], primary)
<1> DEFINE n == Len(order)
           Runs(f, k) == f[0] = StartOfClosures /\ \A i \in 1..k : f[i] = ClosureRow(f[i - 1], order[i], primary)
           S == {k \in Nat : \E f : Runs(f, k)}
           state == Closures(order, primary)
<1>1. 0 \in S
  <2> DEFINE f == [i \in 0..0 |-> StartOfClosures]
  <2>1. f[0] = StartOfClosures
    OBVIOUS
  <2> HIDE DEF f
  <2>2. Runs(f, 0)
    BY <2>1
  <2> QED
    BY <2>2
<1>2. ASSUME NEW k \in Nat, k \in S PROVE k + 1 \in S
  <2>1. PICK f : Runs(f, k)
    BY <1>2
  <2> DEFINE last == ClosureRow(f[k], order[k + 1], primary)
             g == [i \in 0..(k + 1) |-> IF i <= k THEN f[i] ELSE last]
  <2>2. g[0] = StartOfClosures /\ (\A i \in 0..k : g[i] = f[i]) /\ g[k + 1] = last
    <3> HIDE DEF last
    <3>1. 0 \in 0..(k + 1) /\ 0 <= k /\ k + 1 \in 0..(k + 1) /\ ~(k + 1 <= k)
      OBVIOUS
    <3> QED
      BY <2>1, <3>1
  <2> HIDE DEF g
  <2>3. ASSUME NEW i \in 1..(k + 1) PROVE g[i] = ClosureRow(g[i - 1], order[i], primary)
    <3>1. CASE i = k + 1
      <4>1. i - 1 = k /\ k \in 0..k
        BY <3>1
      <4> QED
        BY <2>2, <3>1, <4>1
    <3>2. CASE i # k + 1
      <4>1. i \in 1..k /\ i \in 0..k /\ i - 1 \in 0..k
        BY <3>2
      <4>2. g[i] = f[i] /\ g[i - 1] = f[i - 1]
        BY <2>2, <4>1
      <4> QED
        BY <2>1, <4>1, <4>2
    <3> QED
      BY <3>1, <3>2
  <2>4. Runs(g, k + 1)
    BY <2>2, <2>3
  <2> HIDE DEF Runs
  <2> QED
    BY <2>4
<1>3. n \in S
  <2> HIDE DEF S
  <2>1. Nat \subseteq S
    BY <1>1, <1>2, Climb
  <2> QED
    BY <2>1
<1>4. PICK f : Runs(f, n)
  BY <1>3
<1> DEFINE h == [i \in 0..n |-> f[i]]
<1>5. h = ClosureAll(order, primary, h)
  <2>1. \A i \in 0..n : h[i] = IF i = 0 THEN StartOfClosures ELSE ClosureRow(h[i - 1], order[i], primary)
    <3> SUFFICES ASSUME NEW i \in 0..n
                 PROVE  h[i] = IF i = 0 THEN StartOfClosures ELSE ClosureRow(h[i - 1], order[i], primary)
      OBVIOUS
    <3>1. CASE i = 0
      BY <1>4, <3>1
    <3>2. CASE i # 0
      <4>1. i \in 1..n /\ i - 1 \in 0..n
        BY <3>2
      <4>2. h[i] = f[i] /\ h[i - 1] = f[i - 1]
        BY <4>1
      <4> HIDE DEF h
      <4> QED
        BY <1>4, <3>2, <4>1, <4>2
    <3> QED
      BY <3>1, <3>2
  <2>2. h = [i \in 0..n |-> h[i]]
    OBVIOUS
  <2> HIDE DEF h
  <2> QED
    BY <2>1, <2>2 DEF ClosureAll
<1> HIDE DEF h
<1>6. state = ClosureAll(order, primary, state)
  BY <1>5 DEF Closures
<1> HIDE DEF state
<1>7. \A i \in 0..n : state[i] = IF i = 0 THEN StartOfClosures ELSE ClosureRow(state[i - 1], order[i], primary)
  <2> DEFINE g == ClosureAll(order, primary, state)
  <2>1. \A i \in 0..n : g[i] = IF i = 0 THEN StartOfClosures ELSE ClosureRow(state[i - 1], order[i], primary)
    BY DEF ClosureAll
  <2> HIDE DEF g
  <2>2. g = state
    BY <1>6 DEF g
  <2> QED
    BY <2>1, <2>2
<1>8. 0 \in 0..n /\ \A i \in 1..n : i \in 0..n /\ i # 0
  OBVIOUS
<1> QED
  BY <1>7, <1>8 DEF state, n

-----------------------------------------------------------------------------
(* The ledger of the closures.                                             *)
ChargedIn(rows) == {i \in DOMAIN rows : rows[i].ordinal > 0}
CountedIn(rows) == {i \in DOMAIN rows : rows[i].primaryOrdinal > 0}
ContractIn(rows) ==
  {i \in DOMAIN rows : rows[i].why = NoReason \/ rows[i].why \in
      {"DUPLICATE_TARGET_PARENT_PRIMARY", "DUPLICATE_TARGET_PARENT_REQUEST"}}
NamedIn(rows, S) == {<<rows[i].fact.anchor, rows[i].fact.endpoint>> : i \in S}
CostsIn(rows) == [i \in DOMAIN rows |-> Traits[rows[i].fact.endpoint].bytes]
UpTo(rows, i) == {j \in ChargedIn(rows) : rows[j].ordinal <= rows[i].ordinal}

RowOk(row) ==
  /\ row.ordinal \in Nat /\ row.primaryOrdinal \in Nat
  /\ row.ordinal > 0 <=> row.why = NoReason
  /\ row.primaryOrdinal > 0 <=> row.why \in {NoReason, "DUPLICATE_TARGET_PARENT_REQUEST"}

SameName(v, w) == v.fact.anchor = w.fact.anchor /\ v.fact.endpoint = w.fact.endpoint

ChargedOnce(rows) ==
  /\ \A i \in ContractIn(rows) : \E j \in ChargedIn(rows) : rows[j].fact.endpoint = rows[i].fact.endpoint
  /\ \A i, j \in ChargedIn(rows) : rows[i].fact.endpoint = rows[j].fact.endpoint => i = j
CountedOnce(rows) ==
  /\ NamedIn(rows, CountedIn(rows)) = NamedIn(rows, ContractIn(rows))
  /\ \A i, j \in CountedIn(rows) : SameName(rows[i], rows[j]) => i = j
Consecutive(rows) == {rows[i].ordinal : i \in ChargedIn(rows)} = 1..Cardinality(ChargedIn(rows))
AddingUp(rows, bytes) ==
  /\ \A i \in ChargedIn(rows) : CostsIn(rows)[i] \in Int
  /\ bytes = SumOf(CostsIn(rows), ChargedIn(rows))
  /\ \A i \in ChargedIn(rows) : rows[i].bytes = SumOf(CostsIn(rows), UpTo(rows, i))

Ledger(s) ==
  /\ IsList(s.rows) /\ \A i \in DOMAIN s.rows : RowOk(s.rows[i])
  /\ s.chosen = NamedIn(s.rows, CountedIn(s.rows))
  /\ ChargedOnce(s.rows) /\ CountedOnce(s.rows) /\ Consecutive(s.rows) /\ AddingUp(s.rows, s.bytes)

(* One more row.                                                           *)
More(rows, m, r, new) ==
  /\ IsList(rows) /\ IsList(new) /\ m = Len(rows) + 1 /\ Len(new) = m /\ m \notin DOMAIN rows
  /\ DOMAIN new = DOMAIN rows \cup {m} /\ new[m] = r /\ \A i \in DOMAIN rows : new[i] = rows[i]

(* Rows with one more.                                                     *)
LEMMA RowAdded ==
  ASSUME NEW rows, IsList(rows), NEW r, NEW new, new = Append(rows, r)
  PROVE  More(rows, Len(rows) + 1, r, new)
<1>1. Len(rows) + 1 \notin DOMAIN rows
  BY DEF IsList
<1> QED
  BY <1>1, Appended DEF More

(* What is charged, counted and contracted after one more row.             *)
LEMMA SetsAfter ==
  ASSUME NEW rows, NEW m, NEW r, NEW new, More(rows, m, r, new)
  PROVE  /\ ChargedIn(new) = ChargedIn(rows) \cup (IF r.ordinal > 0 THEN {m} ELSE {})
         /\ CountedIn(new) = CountedIn(rows) \cup (IF r.primaryOrdinal > 0 THEN {m} ELSE {})
         /\ ContractIn(new) = ContractIn(rows) \cup
               (IF r.why = NoReason \/ r.why \in {"DUPLICATE_TARGET_PARENT_PRIMARY", "DUPLICATE_TARGET_PARENT_REQUEST"}
                THEN {m} ELSE {})
         /\ ChargedIn(rows) \subseteq DOMAIN rows /\ CountedIn(rows) \subseteq DOMAIN rows /\ ContractIn(rows) \subseteq DOMAIN rows
         /\ IsFiniteSet(ChargedIn(rows)) /\ IsFiniteSet(CountedIn(rows))
         /\ \A i \in DOMAIN rows : CostsIn(new)[i] = CostsIn(rows)[i]
         /\ CostsIn(new)[m] = Traits[r.fact.endpoint].bytes
<1>1. DOMAIN new = DOMAIN rows \cup {m} /\ new[m] = r /\ m \notin DOMAIN rows /\ \A i \in DOMAIN rows : new[i] = rows[i]
  BY DEF More
<1>2. IsFiniteSet(DOMAIN rows)
  <2>1. DOMAIN rows = 1..Len(rows) /\ Len(rows) \in Nat
    BY DEF More, IsList
  <2> QED
    BY <2>1, FirstNumbers
<1>3. IsFiniteSet(ChargedIn(rows)) /\ IsFiniteSet(CountedIn(rows))
  BY <1>2, FS_Subset DEF ChargedIn, CountedIn
<1>4. ChargedIn(new) = ChargedIn(rows) \cup (IF r.ordinal > 0 THEN {m} ELSE {})
  BY <1>1 DEF ChargedIn
<1>5. CountedIn(new) = CountedIn(rows) \cup (IF r.primaryOrdinal > 0 THEN {m} ELSE {})
  BY <1>1 DEF CountedIn
<1>6. ContractIn(new) = ContractIn(rows) \cup
               (IF r.why = NoReason \/ r.why \in {"DUPLICATE_TARGET_PARENT_PRIMARY", "DUPLICATE_TARGET_PARENT_REQUEST"}
                THEN {m} ELSE {})
  BY <1>1 DEF ContractIn
<1>7. ChargedIn(rows) \subseteq DOMAIN rows /\ CountedIn(rows) \subseteq DOMAIN rows /\ ContractIn(rows) \subseteq DOMAIN rows
  BY DEF ChargedIn, CountedIn, ContractIn
<1>8. /\ \A i \in DOMAIN rows : CostsIn(new)[i] = CostsIn(rows)[i]
      /\ CostsIn(new)[m] = Traits[r.fact.endpoint].bytes
  BY <1>1 DEF CostsIn
<1> QED
  BY <1>3, <1>4, <1>5, <1>6, <1>7, <1>8

(* What ClosureRow appends.                                                *)
Appending(s, t, f, r) ==
  LET request == "DUPLICATE_TARGET_PARENT_REQUEST"
      counted == r.why \in {NoReason, request}
  IN /\ RowOk(r) /\ r.fact = f /\ t.rows = Append(s.rows, r)
     /\ t.chosen = IF counted THEN s.chosen \cup {<<f.anchor, f.endpoint>>} ELSE s.chosen
     /\ r.why = NoReason => /\ r.ordinal = Cardinality(ChargedIn(s.rows)) + 1
                            /\ r.bytes = s.bytes + Traits[f.endpoint].bytes /\ t.bytes = r.bytes
                            /\ f.endpoint \in Parents /\ \A pair \in s.chosen : pair[2] # f.endpoint
     /\ r.why # NoReason => t.bytes = s.bytes
     /\ r.why = request => <<f.anchor, f.endpoint>> \notin s.chosen /\ \E pair \in s.chosen : pair[2] = f.endpoint
     /\ r.why = "DUPLICATE_TARGET_PARENT_PRIMARY" => <<f.anchor, f.endpoint>> \in s.chosen

(* Finitely many rows are charged or counted, under finitely many names.   *)
LEMMA NamesFew ==
  ASSUME NEW rows, IsList(rows)
  PROVE  IsFiniteSet(NamedIn(rows, CountedIn(rows))) /\ IsFiniteSet(ChargedIn(rows)) /\ IsFiniteSet(CountedIn(rows))
<1> DEFINE S == CountedIn(rows)
           name == [i \in S |-> <<rows[i].fact.anchor, rows[i].fact.endpoint>>]
<1>1. IsFiniteSet(S) /\ IsFiniteSet(ChargedIn(rows))
  <2>1. IsFiniteSet(DOMAIN rows)
    BY FirstNumbers DEF IsList
  <2> QED
    BY <2>1, FS_Subset DEF CountedIn, ChargedIn
<1>2. NamedIn(rows, S) = {name[i] : i \in S} /\ DOMAIN name = S /\ name = [i \in S |-> name[i]]
  BY DEF NamedIn
<1> HIDE DEF name, S
<1>3. IsFiniteSet({name[i] : i \in S})
  BY <1>1, <1>2, Values
<1> QED
  BY <1>1, <1>2, <1>3 DEF S

(* A row of a closure is such a row.                                       *)
LEMMA RowAppended ==
  ASSUME NEW s, IsList(s.rows), s.chosen = NamedIn(s.rows, CountedIn(s.rows)), NEW f, NEW primary,
         NEW t, t = ClosureRow(s, f, primary)
  PROVE  \E r : Appending(s, t, f, r)
<1> DEFINE why == ClosureOmission(f, primary, s.chosen)
           counted == why \in {NoReason, "DUPLICATE_TARGET_PARENT_REQUEST"}
           bytes == s.bytes + Traits[f.endpoint].bytes
           charged == Cardinality({i \in DOMAIN s.rows : s.rows[i].ordinal > 0}) + 1
           within == {pair \in s.chosen : pair[1] = f.anchor}
           r == [fact |-> f, why |-> why, ordinal |-> IF why = NoReason THEN charged ELSE 0,
                 primaryOrdinal |-> IF counted THEN Cardinality(within) + 1 ELSE 0,
                 bytes |-> IF why = NoReason THEN bytes ELSE 0]
<1>1. t = [rows |-> Append(s.rows, r),
           chosen |-> IF counted THEN s.chosen \cup {<<f.anchor, f.endpoint>>} ELSE s.chosen,
           bytes |-> IF why = NoReason THEN bytes ELSE s.bytes]
  BY DEF ClosureRow
<1>2. IsFiniteSet(ChargedIn(s.rows)) /\ IsFiniteSet(s.chosen)
  BY NamesFew
<1>3. charged = Cardinality(ChargedIn(s.rows)) + 1 /\ charged \in Nat \ {0}
  <2>1. Cardinality(ChargedIn(s.rows)) \in Nat
    BY <1>2, FS_CardinalityType
  <2> QED
    BY <2>1 DEF ChargedIn
<1>4. Cardinality(within) \in Nat
  BY <1>2, FS_Subset, FS_CardinalityType
<1>5. /\ why = NoReason => f.endpoint \in Parents /\ \A pair \in s.chosen : pair[2] # f.endpoint
      /\ why = "DUPLICATE_TARGET_PARENT_REQUEST" =>
            <<f.anchor, f.endpoint>> \notin s.chosen /\ \E pair \in s.chosen : pair[2] = f.endpoint
      /\ why = "DUPLICATE_TARGET_PARENT_PRIMARY" => <<f.anchor, f.endpoint>> \in s.chosen
  BY OmissionIs
<1> HIDE DEF why, charged, within, bytes
<1>6. /\ r.fact = f /\ r.why = why /\ r.ordinal = (IF why = NoReason THEN charged ELSE 0)
      /\ r.primaryOrdinal = (IF counted THEN Cardinality(within) + 1 ELSE 0)
      /\ r.bytes = (IF why = NoReason THEN bytes ELSE 0)
  OBVIOUS
<1> HIDE DEF r
<1>7. /\ t.rows = Append(s.rows, r) /\ t.chosen = (IF counted THEN s.chosen \cup {<<f.anchor, f.endpoint>>} ELSE s.chosen)
      /\ t.bytes = (IF why = NoReason THEN bytes ELSE s.bytes)
  BY <1>1
<1>8. RowOk(r)
  BY <1>3, <1>4, <1>6 DEF RowOk
<1>9. Appending(s, t, f, r)
  BY <1>3, <1>5, <1>6, <1>7, <1>8 DEF Appending, bytes
<1> QED
  BY <1>9

(* A name is charged and counted once after one more row.                  *)
LEMMA OnceAfter ==
  ASSUME NEW s, Ledger(s), NEW t, NEW f, NEW r, Appending(s, t, f, r)
  PROVE  ChargedOnce(t.rows) /\ CountedOnce(t.rows) /\ t.chosen = NamedIn(t.rows, CountedIn(t.rows))
<1> DEFINE rows == s.rows
           new == t.rows
           m == Len(rows) + 1
           pair == <<f.anchor, f.endpoint>>
           request == "DUPLICATE_TARGET_PARENT_REQUEST"
           primary == "DUPLICATE_TARGET_PARENT_PRIMARY"
           chosen == s.chosen
           C == ChargedIn(rows)
           D == CountedIn(rows)
           K == ContractIn(rows)
<1>1. More(rows, m, r, new) /\ RowOk(r) /\ r.fact = f
  <2>1. IsList(rows) /\ new = Append(rows, r) /\ RowOk(r) /\ r.fact = f
    BY DEF Ledger, Appending
  <2> QED
    BY <2>1, RowAdded
<1>2. /\ new[m] = r /\ m \notin DOMAIN rows /\ \A i \in DOMAIN rows : new[i] = rows[i]
  BY <1>1 DEF More
<1>3. /\ ChargedIn(new) = C \cup (IF r.why = NoReason THEN {m} ELSE {})
      /\ CountedIn(new) = D \cup (IF r.why \in {NoReason, request} THEN {m} ELSE {})
      /\ ContractIn(new) = K \cup (IF r.why = NoReason \/ r.why \in {primary, request} THEN {m} ELSE {})
      /\ C \subseteq DOMAIN rows /\ D \subseteq DOMAIN rows /\ K \subseteq DOMAIN rows
  BY <1>1, SetsAfter DEF RowOk
<1>4. chosen = NamedIn(rows, D) /\ ChargedOnce(rows) /\ CountedOnce(rows) /\ \A i \in DOMAIN rows : RowOk(rows[i])
  BY DEF Ledger
<1>5. /\ t.chosen = (IF r.why \in {NoReason, request} THEN chosen \cup {pair} ELSE chosen)
      /\ r.why = NoReason => \A p \in chosen : p[2] # f.endpoint
      /\ r.why = request => pair \notin chosen /\ \E p \in chosen : p[2] = f.endpoint
      /\ r.why = primary => pair \in chosen
  BY DEF Appending
<1>6. D \subseteq K /\ C \subseteq D
  BY <1>4 DEF ChargedIn, CountedIn, ContractIn, RowOk
<1>7. /\ \A i \in K : \E j \in C : rows[j].fact.endpoint = rows[i].fact.endpoint
      /\ \A i, j \in C : rows[i].fact.endpoint = rows[j].fact.endpoint => i = j
  BY <1>4 DEF ChargedOnce
<1>8. /\ NamedIn(rows, D) = NamedIn(rows, K)
      /\ \A i, j \in D : SameName(rows[i], rows[j]) => i = j
  BY <1>4 DEF CountedOnce
<1>9. \A S \in SUBSET DOMAIN rows : NamedIn(new, S) = NamedIn(rows, S) /\ NamedIn(new, S \cup {m}) = NamedIn(rows, S) \cup {pair}
  BY <1>1, <1>2 DEF NamedIn
<1>10. /\ \A i \in D : <<rows[i].fact.anchor, rows[i].fact.endpoint>> \in chosen
       /\ \A p \in chosen : \E i \in D : p = <<rows[i].fact.anchor, rows[i].fact.endpoint>>
  BY <1>4 DEF NamedIn
<1> HIDE DEF rows, new, m, chosen, C, D, K
<1>11. t.chosen = NamedIn(new, CountedIn(new))
  BY <1>3, <1>4, <1>5, <1>9
<1>12. NamedIn(new, CountedIn(new)) = NamedIn(new, ContractIn(new))
  <2>1. CASE r.why \in {NoReason, request}
    BY <1>3, <1>8, <1>9, <2>1
  <2>2. CASE r.why = primary /\ r.why # NoReason
    <3>1. CountedIn(new) = D /\ ContractIn(new) = K \cup {m}
      BY <1>3, <2>2
    <3>2. NamedIn(new, D) = chosen /\ NamedIn(new, K \cup {m}) = chosen \cup {pair} /\ pair \in chosen
      BY <1>3, <1>4, <1>5, <1>8, <1>9, <2>2
    <3> QED
      BY <3>1, <3>2
  <2>3. CASE r.why \notin {NoReason, request, primary}
    BY <1>3, <1>8, <1>9, <2>3
  <2> QED
    BY <2>1, <2>2, <2>3
<1>13. ASSUME NEW i \in CountedIn(new), NEW j \in CountedIn(new),
              SameName(new[i], new[j])
       PROVE  i = j
  <2>1. ASSUME NEW k \in D, m \in CountedIn(new), new[k].fact.anchor = f.anchor, new[k].fact.endpoint = f.endpoint
        PROVE  FALSE
    <3>1. r.why \in {NoReason, request}
      <4>1. m \notin D
        BY <1>2, <1>3
      <4> QED
        BY <1>3, <2>1, <4>1
    <3>2. pair \in chosen
      BY <1>2, <1>3, <1>10, <2>1
    <3> QED
      BY <1>5, <3>1, <3>2
  <2>2. (i \in D \/ i = m) /\ (j \in D \/ j = m)
    BY <1>3
  <2>3. CASE i \in D /\ j \in D
    BY <1>2, <1>3, <1>8, <1>13, <2>3
  <2>4. CASE i = m \/ j = m
    BY <1>1, <1>2, <1>13, <2>1, <2>2, <2>4 DEF SameName
  <2> QED
    BY <2>2, <2>3, <2>4
<1>14. ASSUME NEW i \in ContractIn(new)
       PROVE  \E j \in ChargedIn(new) : new[j].fact.endpoint = new[i].fact.endpoint
  <2>1. ASSUME NEW k \in K PROVE \E j \in ChargedIn(new) : new[j].fact.endpoint = rows[k].fact.endpoint
    BY <1>2, <1>3, <1>7
  <2>2. CASE i \in K
    BY <1>2, <1>3, <2>1, <2>2
  <2>3. CASE i \notin K
    <3>1. i = m /\ r.why \in {NoReason, primary, request}
      BY <1>3, <2>3
    <3>2. CASE r.why = NoReason
      BY <1>3, <3>1, <3>2
    <3>3. CASE r.why # NoReason
      <4>1. \E p \in chosen : p[2] = f.endpoint
        BY <1>5, <3>1, <3>3
      <4>2. PICK k \in D : rows[k].fact.endpoint = f.endpoint
        BY <1>10, <4>1
      <4> QED
        BY <1>1, <1>2, <1>6, <2>1, <3>1, <4>2
    <3> QED
      BY <3>2, <3>3
  <2> QED
    BY <2>2, <2>3
<1>15. ASSUME NEW i \in ChargedIn(new), NEW j \in ChargedIn(new), new[i].fact.endpoint = new[j].fact.endpoint
       PROVE  i = j
  <2>1. ASSUME NEW k \in C, m \in ChargedIn(new), new[k].fact.endpoint = f.endpoint
        PROVE  FALSE
    <3>1. r.why = NoReason
      <4>1. m \notin C
        BY <1>2, <1>3
      <4> QED
        BY <1>3, <2>1, <4>1
    <3>2. <<rows[k].fact.anchor, rows[k].fact.endpoint>> \in chosen /\ rows[k].fact.endpoint = f.endpoint
      BY <1>2, <1>3, <1>6, <1>10, <2>1
    <3> QED
      BY <1>5, <3>1, <3>2
  <2>2. (i \in C \/ i = m) /\ (j \in C \/ j = m)
    BY <1>3
  <2>3. CASE i \in C /\ j \in C
    BY <1>2, <1>3, <1>7, <1>15, <2>3
  <2>4. CASE i = m \/ j = m
    BY <1>1, <1>2, <1>15, <2>1, <2>2, <2>4
  <2> QED
    BY <2>2, <2>3, <2>4
<1>16. ChargedOnce(new)
  BY <1>14, <1>15 DEF ChargedOnce
<1>17. CountedOnce(new)
  BY <1>12, <1>13 DEF CountedOnce
<1> QED
  BY <1>11, <1>16, <1>17 DEF new

(* Charges stay consecutive and add up after one more row.                 *)
LEMMA SumsAfter ==
  ASSUME NEW s, Ledger(s), NEW t, NEW f, NEW r, Appending(s, t, f, r)
  PROVE  Consecutive(t.rows) /\ AddingUp(t.rows, t.bytes)
<1> DEFINE rows == s.rows
           new == t.rows
           m == Len(rows) + 1
           C == ChargedIn(rows)
           c == CostsIn(rows)
           d == CostsIn(new)
           n == Cardinality(C)
<1>1. More(rows, m, r, new) /\ RowOk(r) /\ r.fact = f
  <2>1. IsList(rows) /\ new = Append(rows, r) /\ RowOk(r) /\ r.fact = f
    BY DEF Ledger, Appending
  <2> QED
    BY <2>1, RowAdded
<1>2. /\ new[m] = r /\ m \notin DOMAIN rows /\ \A i \in DOMAIN rows : new[i] = rows[i]
  BY <1>1 DEF More
<1>3. /\ ChargedIn(new) = C \cup (IF r.why = NoReason THEN {m} ELSE {})
      /\ C \subseteq DOMAIN rows /\ IsFiniteSet(C)
      /\ \A i \in DOMAIN rows : d[i] = c[i]
      /\ d[m] = Traits[f.endpoint].bytes
  BY <1>1, SetsAfter DEF RowOk
<1>4. Consecutive(rows) /\ AddingUp(rows, s.bytes) /\ \A i \in DOMAIN rows : rows[i].ordinal \in Nat
  BY DEF Ledger, RowOk
<1>5. {rows[i].ordinal : i \in C} = 1..n
  BY <1>4 DEF Consecutive
<1>6. /\ \A i \in C : c[i] \in Int
      /\ s.bytes = SumOf(c, C)
      /\ \A i \in C : rows[i].bytes = SumOf(c, UpTo(rows, i))
  BY <1>4 DEF AddingUp
<1>7. n \in Nat
  BY <1>3, FS_CardinalityType
<1>8. /\ r.why = NoReason => /\ r.ordinal = n + 1 /\ r.bytes = s.bytes + Traits[f.endpoint].bytes /\ t.bytes = r.bytes
                             /\ f.endpoint \in Parents
      /\ r.why # NoReason => t.bytes = s.bytes
  BY DEF Appending
<1>9. \A i : UpTo(rows, i) \subseteq C
  BY DEF UpTo
<1>10. m \notin C
  BY <1>2, <1>3
<1> HIDE DEF rows, new, m, C, c, d, n
<1>11. \A T \in SUBSET C : SumOf(d, T) = SumOf(c, T) /\ IsFiniteSet(T)
  <2> SUFFICES ASSUME NEW T \in SUBSET C PROVE SumOf(d, T) = SumOf(c, T) /\ IsFiniteSet(T)
    OBVIOUS
  <2>1. IsFiniteSet(T)
    BY <1>3, FS_Subset
  <2>2. \A i \in T : c[i] = d[i]
    BY <1>3
  <2> QED
    BY <2>1, <2>2, SumOfSame
<1>12. CASE r.why # NoReason
  <2>1. ChargedIn(new) = C
    BY <1>3, <1>12
  <2>2. \A i \in C : new[i].ordinal = rows[i].ordinal /\ new[i].bytes = rows[i].bytes
    BY <1>2, <1>3
  <2>3. \A i \in C : UpTo(new, i) = UpTo(rows, i)
    <3>1. ChargedIn(rows) = C
      BY DEF C
    <3> QED
      BY <2>1, <2>2, <3>1 DEF UpTo
  <2>4. {new[i].ordinal : i \in C} = {rows[i].ordinal : i \in C}
    BY <2>2
  <2>5. Consecutive(new)
    BY <1>5, <2>1, <2>4 DEF Consecutive, n
  <2>6. \A i \in C : d[i] \in Int
    BY <1>3, <1>6
  <2>7. t.bytes = SumOf(d, C)
    BY <1>6, <1>8, <1>11, <1>12
  <2>8. \A i \in C : new[i].bytes = SumOf(d, UpTo(new, i))
    BY <1>6, <1>9, <1>11, <2>2, <2>3
  <2>9. AddingUp(new, t.bytes)
    BY <2>1, <2>6, <2>7, <2>8 DEF AddingUp, d
  <2> QED
    BY <2>5, <2>9 DEF new
<1>13. CASE r.why = NoReason
  <2>1. ChargedIn(new) = C \cup {m} /\ r.ordinal = n + 1
    BY <1>3, <1>8, <1>13
  <2>2. \A i \in C : new[i].ordinal = rows[i].ordinal /\ new[i].bytes = rows[i].bytes /\ rows[i].ordinal \in 1..n
    BY <1>2, <1>3, <1>5
  <2>3. Cardinality(C \cup {m}) = n + 1
    BY <1>3, <1>10, FS_AddElement DEF n
  <2>4. {new[i].ordinal : i \in C \cup {m}} = {rows[i].ordinal : i \in C} \cup {n + 1}
    BY <1>2, <2>1, <2>2
  <2>5. 1..(n + 1) = (1..n) \cup {n + 1}
    BY <1>7
  <2>6. Consecutive(new)
    BY <1>5, <2>1, <2>3, <2>4, <2>5 DEF Consecutive
  <2>7. d[m] \in Int
    <3>1. f.endpoint \in Parents
      BY <1>8, <1>13
    <3>2. Traits[f.endpoint].bytes \in Nat
      BY <3>1, PackagingAssumption DEF PackagingAssumption
    <3> QED
      BY <1>3, <3>2
  <2>8. \A i \in C \cup {m} : d[i] \in Int
    BY <1>3, <1>6, <2>7
  <2>9. SumOf(d, C \cup {m}) = SumOf(d, C) + d[m]
    BY <1>3, <1>10, <2>8, SumOfMore
  <2>10. t.bytes = SumOf(d, C \cup {m}) /\ r.bytes = t.bytes
    BY <1>3, <1>6, <1>8, <1>11, <1>13, <2>9
  <2>11. ASSUME NEW i \in C PROVE UpTo(new, i) = UpTo(rows, i)
    <3>1. new[m].ordinal = n + 1 /\ new[i].ordinal = rows[i].ordinal /\ rows[i].ordinal \in 1..n
      BY <1>2, <2>1, <2>2
    <3>2. ~(new[m].ordinal <= new[i].ordinal)
      BY <1>7, <3>1
    <3>3. ChargedIn(rows) = C
      BY DEF C
    <3> QED
      BY <2>1, <2>2, <3>1, <3>2, <3>3 DEF UpTo
  <2>12. UpTo(new, m) = C \cup {m}
    <3>1. \A i \in C \cup {m} : new[i].ordinal <= new[m].ordinal
      BY <1>2, <1>7, <2>1, <2>2
    <3> QED
      BY <2>1, <3>1 DEF UpTo
  <2>13. \A i \in C \cup {m} : new[i].bytes = SumOf(d, UpTo(new, i))
    <3>1. \A i \in C : new[i].bytes = SumOf(d, UpTo(new, i))
      BY <1>6, <1>9, <1>11, <2>2, <2>11
    <3>2. new[m].bytes = SumOf(d, UpTo(new, m))
      BY <1>2, <2>10, <2>12
    <3> QED
      BY <3>1, <3>2
  <2>14. AddingUp(new, t.bytes)
    BY <2>1, <2>8, <2>10, <2>13 DEF AddingUp, d
  <2> QED
    BY <2>6, <2>14 DEF new
<1> QED
  BY <1>12, <1>13

(* The ledger goes on row by row.                                          *)
LEMMA LedgerKept ==
  ASSUME NEW s, Ledger(s), NEW f, NEW primary
  PROVE  Ledger(ClosureRow(s, f, primary))
<1> DEFINE t == ClosureRow(s, f, primary)
<1>1. IsList(s.rows) /\ s.chosen = NamedIn(s.rows, CountedIn(s.rows)) /\ \A i \in DOMAIN s.rows : RowOk(s.rows[i])
  BY DEF Ledger
<1>2. PICK r : Appending(s, t, f, r)
  BY <1>1, RowAppended
<1> HIDE DEF t
<1>3. IsList(t.rows) /\ \A i \in DOMAIN t.rows : RowOk(t.rows[i])
  <2>1. t.rows = Append(s.rows, r) /\ RowOk(r)
    BY <1>2 DEF Appending
  <2>2. More(s.rows, Len(s.rows) + 1, r, t.rows)
    BY <1>1, <2>1, RowAdded
  <2> QED
    BY <1>1, <2>1, <2>2 DEF More
<1>4. ChargedOnce(t.rows) /\ CountedOnce(t.rows) /\ t.chosen = NamedIn(t.rows, CountedIn(t.rows))
  BY <1>2, OnceAfter
<1>5. Consecutive(t.rows) /\ AddingUp(t.rows, t.bytes)
  BY <1>2, SumsAfter
<1> QED
  BY <1>3, <1>4, <1>5 DEF Ledger, t

(* The ledger begins empty.                                                *)
LEMMA LedgerBegins == Ledger(StartOfClosures)
<1> DEFINE rows == <<>>
<1>1. StartOfClosures.rows = rows /\ StartOfClosures.chosen = {} /\ StartOfClosures.bytes = 0
  BY DEF StartOfClosures
<1>2. DOMAIN rows = {} /\ IsList(rows)
  BY DEF IsList
<1>3. ChargedIn(rows) = {} /\ CountedIn(rows) = {} /\ ContractIn(rows) = {}
  BY <1>2 DEF ChargedIn, CountedIn, ContractIn
<1>4. NamedIn(rows, {}) = {} /\ 1..Cardinality({}) = {} /\ SumOf(CostsIn(rows), {}) = 0
  BY FS_EmptySet, SumOfNothing DEF NamedIn
<1> HIDE DEF rows
<1> QED
  BY <1>1, <1>2, <1>3, <1>4 DEF Ledger, ChargedOnce, CountedOnce, Consecutive, AddingUp

(* The contracts of primary parents name finitely many declarations.       *)
LEMMA FactsFinite ==
  ASSUME NEW graph, ResolvedGraph(graph), NEW primary, NEW n \in Nat, DOMAIN primary = 1..n
  PROVE  IsFiniteSet(ContractFacts(graph, primary))
<1> DEFINE P == (1..n) \X graph
           f == [p \in P |-> Fact(p[2], primary[p[1]])]
<1>1. IsFiniteSet(P)
  <2>1. IsFiniteSet(1..n) /\ IsFiniteSet(graph)
    BY FS_Interval DEF ResolvedGraph
  <2> QED
    BY <2>1, FS_Product
<1>2. ContractFacts(graph, primary) \subseteq {f[p] : p \in P}
  <2> SUFFICES ASSUME NEW c \in ContractFacts(graph, primary) PROVE \E p \in P : f[p] = c
    OBVIOUS
  <2>1. c \in ReachableFacts(graph, {primary[i] : i \in DOMAIN primary})
    BY DEF ContractFacts
  <2>2. PICK seed \in {primary[i] : i \in DOMAIN primary}, o \in graph : c = Fact(o, seed)
    BY <2>1 DEF ReachableFacts
  <2>3. PICK i \in 1..n : primary[i] = seed
    BY <2>2
  <2>4. <<i, o>> \in P /\ f[<<i, o>>] = c
    BY <2>2, <2>3
  <2> QED
    BY <2>4
<1>3. DOMAIN f = P /\ f = [p \in P |-> f[p]]
  OBVIOUS
<1> HIDE DEF P, f
<1>4. IsFiniteSet({f[p] : p \in P})
  BY <1>1, <1>3, Values
<1> QED
  BY <1>2, <1>4, FS_Subset

(* The closures of a query are the rows of a ledger.                       *)
LEMMA ClosuresLedger ==
  ASSUME NEW graph, ResolvedGraph(graph), NEW primary, NEW n \in Nat, DOMAIN primary = 1..n
  PROVE  \E s : Ledger(s) /\ ClosureRowsForQuery(graph, primary) = s.rows
<1> DEFINE S == ContractFacts(graph, primary)
           pick(i) == CHOOSE x \in S :
                         Cardinality({y \in S : KeyLess(ClosureKey(y, primary), ClosureKey(x, primary))}) = i - 1
           order == ClosureOrder(graph, primary)
           m == Cardinality(S)
           state == Closures(order, primary)
           T == {i \in 0..m : Ledger(state[i])}
<1>1. m \in Nat
  BY FactsFinite, FS_CardinalityType
<1>2. order = [i \in 1..m |-> pick(i)]
  BY DEF ClosureOrder, InOrder
<1> HIDE DEF pick, m, S
<1>3. Len(order) = m
  <2> HIDE DEF order
  <2> QED
    BY <1>1, <1>2
<1>4. ClosureRowsForQuery(graph, primary) = state[m].rows
  BY <1>3, ClosureRowsAre
<1>5. state[0] = StartOfClosures /\ \A i \in 1..m : state[i] = ClosureRow(state[i - 1], order[i], primary)
  BY <1>1, <1>3, ClosuresAre
<1> HIDE DEF state, order
<1>6. 0 \in T
  BY <1>1, <1>5, LedgerBegins
<1>7. ASSUME NEW i \in 1..m, i - 1 \in T PROVE i \in T
  <2>1. Ledger(ClosureRow(state[i - 1], order[i], primary))
    BY <1>7, LedgerKept
  <2>2. i \in 0..m /\ Ledger(state[i])
    BY <1>1, <1>5, <2>1
  <2> QED
    BY <2>2
<1> HIDE DEF T
<1>8. m \in T
  <2>1. 0..m \subseteq T
    BY <1>1, <1>6, <1>7, ClimbTo
  <2> QED
    BY <1>1, <2>1
<1> QED
  BY <1>4, <1>8 DEF T

(* What ClosureChargesOnce says of the closures of a query.                *)
ChargesOnce(rows) ==
  /\ ChargedOnce(rows) /\ Consecutive(rows)
  /\ \A i \in ChargedIn(rows) : rows[i].bytes = SumOf(CostsIn(rows), UpTo(rows, i))
  /\ NamedIn(rows, CountedIn(rows)) = NamedIn(rows, ContractIn(rows))
  /\ Cardinality(CountedIn(rows)) = Cardinality(NamedIn(rows, CountedIn(rows)))

(* A ledger charges once.                                                  *)
LEMMA LedgerCharges ==
  ASSUME NEW s, Ledger(s)
  PROVE  ChargesOnce(s.rows)
<1> DEFINE rows == s.rows
           S == CountedIn(rows)
           name == [i \in S |-> <<rows[i].fact.anchor, rows[i].fact.endpoint>>]
<1>1. IsList(rows) /\ ChargedOnce(rows) /\ CountedOnce(rows) /\ Consecutive(rows) /\ AddingUp(rows, s.bytes)
  BY DEF Ledger
<1>2. IsFiniteSet(S)
  BY <1>1, NamesFew
<1>3. \A i, j \in S : SameName(rows[i], rows[j]) => i = j
  BY <1>1 DEF CountedOnce
<1>4. \A i, j \in S : name[i] = name[j] => i = j
  <2>1. ASSUME NEW i \in S, NEW j \in S, name[i] = name[j] PROVE SameName(rows[i], rows[j])
    BY <2>1 DEF SameName
  <2> QED
    BY <1>3, <2>1
<1>5. NamedIn(rows, S) = {name[i] : i \in S} /\ DOMAIN name = S /\ name = [i \in S |-> name[i]]
  BY DEF NamedIn
<1> HIDE DEF name, S
<1>6. Cardinality({name[i] : i \in S}) = Cardinality(S)
  BY <1>2, <1>4, <1>5, Values
<1> QED
  BY <1>1, <1>5, <1>6 DEF ChargesOnce, AddingUp, CountedOnce, S

(* Applied to the evidence.                                                *)
LEMMA ChargesOnceOf ==
  ASSUME stage = "completed" => ChargesOnce(completed.closures)
  PROVE  ClosureChargesOnce
BY DEF ClosureChargesOnce, ChargesOnce, ChargedOnce, Consecutive, UpTo, NamedIn, CostsIn, ChargedIn, CountedIn, ContractIn

(* The evidence over the collapsed scores of an artifact.                  *)
LEMMA EvidenceIs ==
  ASSUME NEW graph, NEW query, NEW values, NEW evidence, evidence = CompletionEvidence(graph, query, values)
  PROVE  /\ evidence.values = values /\ DOMAIN evidence.primary = 1..ProtectedPrimaryK
         /\ \E frontier : evidence.endpoints = SemanticEndpointRows(frontier, values)
         /\ evidence.closures = ClosureRowsForQuery(graph, evidence.primary)
<1> DEFINE hits == CompletionRankHits(values)
           anchors == SelectAnchorGroup(query, hits)
           reached == ReachableFacts(graph, {anchors[i] : i \in DOMAIN anchors})
           frontier == BuildFrontierTrace(Candidates(reached, query, anchors, CompleteGraphEdgeStats(graph), hits,
                                                     "anchor-edge-bidirectional"), anchors).final
           primary == SubSeq(hits, 1, ProtectedPrimaryK)
           hints == HintRowsForQuery(frontier, values)
<1>1. evidence = [values |-> values, primary |-> primary, endpoints |-> SemanticEndpointRows(frontier, values),
                  closures |-> ClosureRowsForQuery(graph, primary), hints |-> hints]
  BY DEF CompletionEvidence
<1>2. DOMAIN primary = 1..ProtectedPrimaryK
  <2>1. ProtectedPrimaryK \in Nat /\ MaxDenseDepth \in Nat
    BY PackagingAssumption, RankingAssumption DEF PackagingAssumption, RankingAssumption
  <2>2. hits = [i \in 1..MaxDenseDepth |-> values[i].parent]
    BY DEF CompletionRankHits
  <2> HIDE DEF hits
  <2> QED
    BY <2>1, <2>2
<1> HIDE DEF primary, hints, frontier
<1> QED
  BY <1>1, <1>2

-----------------------------------------------------------------------------
(* What a report is made from: the evidence from an artifact of the        *)
(* request, the rows of a replay from such evidence.                       *)
Evident(segments) == completed = CompletionEvidence(input.graph, input.query, CollapseActiveScores(segments))
Replayed(segments, contract) ==
  /\ Packaged(replay.query, segments)
  /\ replay.rows \in {{}, EvaluatePackaging(contract, replay.query)}

ReportInv ==
  /\ input.graph \in Graphs
  /\ stage = "completed" => \E segments \in Segments : Evident(segments)
  /\ stage = "replayed" => \E segments \in Segments, contract \in Contracts : Replayed(segments, contract)

(* Artifacts are of parents with bodies.                                   *)
LEMMA ArtifactsAre ==
  ASSUME NEW segments \in Segments
  PROVE  Artifact(segments) /\ \A i \in DOMAIN segments : Traits[segments[i].parent].bytes > 0
BY PackagingAssumption DEF PackagingAssumption, Artifact

(* What is reported of evidence is exact.                                  *)
LEMMA EvidenceExact ==
  ASSUME ReportInv
  PROVE  ClosureChargesOnce /\ TieStatusExact
<1>1. CASE stage # "completed"
  BY <1>1 DEF ClosureChargesOnce, TieStatusExact
<1>2. CASE stage = "completed"
  <2>1. PICK segments \in Segments : Evident(segments)
    BY <1>2 DEF ReportInv
  <2> DEFINE values == CollapseActiveScores(segments)
  <2>2. Artifact(segments)
    BY ArtifactsAre
  <2>3. completed = CompletionEvidence(input.graph, input.query, values)
    BY <2>1 DEF Evident
  <2> HIDE DEF values
  <2>4. completed.values = values /\ DOMAIN completed.primary = 1..ProtectedPrimaryK
    BY <2>3, EvidenceIs
  <2>5. completed.closures = ClosureRowsForQuery(input.graph, completed.primary)
    BY <2>3, EvidenceIs
  <2>6. PICK frontier : completed.endpoints = SemanticEndpointRows(frontier, values)
    BY <2>3, EvidenceIs
  <2>7. ProtectedPrimaryK \in Nat
    BY PackagingAssumption DEF PackagingAssumption
  <2>8. ResolvedGraph(input.graph)
    BY SelectionAssumption DEF SelectionAssumption, ReportInv
  <2>9. PICK s : Ledger(s) /\ completed.closures = s.rows
    BY <2>4, <2>5, <2>7, <2>8, ClosuresLedger
  <2>10. ClosureChargesOnce
    <3>1. ChargesOnce(completed.closures)
      BY <2>9, LedgerCharges
    <3> QED
      BY <3>1, ChargesOnceOf
  <2>11. TieStatusExact
    <3>1. ASSUME NEW row \in completed.endpoints, NEW b \in {ProtectedPrimaryK, MaxDenseDepth},
                 row.endpoint \in Observed(completed.values)
          PROVE  LET status == IF b = ProtectedPrimaryK THEN row.primaryStatus ELSE row.denseStatus
                     score == NativeScore(completed.values, row.endpoint)
                 IN /\ status = "INCLUDED_EXACT" <=> Cardinality(LevelOrAhead(completed.values, score)) <= b
                    /\ status = "EXCLUDED_EXACT" <=> Cardinality(Ahead(completed.values, score)) >= b
      BY <2>2, <2>4, <2>6, <2>7, <3>1, EndpointsExact DEF values
    <3> QED
      BY <3>1 DEF TieStatusExact, Ahead, LevelOrAhead
  <2> QED
    BY <2>10, <2>11
<1> QED
  BY <1>1, <1>2

(* So is what is reported of a replay.                                     *)
LEMMA ReplayExact ==
  ASSUME ReportInv
  PROVE  MissClassTellsRemedy
<1> DEFINE q == replay.query
           all == PackageSiblings(q, Cardinality(Parents), SumOf(BodySizes, Parents)).emitted
<1>1. ASSUME stage = "replayed", NEW row \in replay.rows, NEW i \in DOMAIN row.missing
      PROVE  row.missing[i] = "SIBLING_NOT_PACKAGED" <=> q.groups[i] \cap {all[k] : k \in DOMAIN all} # {}
  <2>1. PICK segments \in Segments, contract \in Contracts : Replayed(segments, contract)
    BY <1>1 DEF ReportInv
  <2>2. Packaged(q, segments) /\ row \in EvaluatePackaging(contract, q)
    BY <1>1, <2>1 DEF Replayed
  <2>3. {all[k] : k \in DOMAIN all} = SiblingCandidates(q)
    BY <2>2, SomeBudgetPackagesAll
  <2> HIDE DEF all, q
  <2>4. row.missing[i] = "SIBLING_NOT_PACKAGED" <=> q.groups[i] \cap SiblingCandidates(q) # {}
    BY <1>1, <2>2, MissesTold
  <2> QED
    BY <2>3, <2>4
<1> QED
  BY <1>1 DEF MissClassTellsRemedy, BodySizes

(* Completing a query makes evidence from an artifact.                     *)
LEMMA CompleteReports ==
  ASSUME ReportInv, Complete
  PROVE  ReportInv'
<1>1. stage' = "completed" /\ input' = input
  BY DEF Complete
<1>2. PICK segments \in Segments : completed' = CompletionEvidence(input.graph, input.query, CollapseActiveScores(segments))
  BY DEF Complete
<1>3. Evident(segments)'
  BY <1>1, <1>2 DEF Evident
<1> QED
  BY <1>1, <1>3 DEF ReportInv

(* Replaying it keeps to that artifact.                                    *)
LEMMA ReplayReports ==
  ASSUME ReportInv, Replay
  PROVE  ReportInv'
<1>1. stage = "completed" /\ stage' = "replayed" /\ input' = input
  BY DEF Replay
<1>2. PICK segments \in Segments : Evident(segments)
  BY <1>1 DEF ReportInv
<1>3. completed.values = CollapseActiveScores(segments) /\ DOMAIN completed.primary = 1..ProtectedPrimaryK
  BY <1>2, EvidenceIs DEF Evident
<1>4. PICK unit \in Units, contract \in Contracts :
        LET q == [id |-> "q", primary |-> completed.primary, values |-> completed.values, hints |-> completed.hints,
                  groups |-> unit.groups, grades |-> unit.grades]
            rows == IF unit.primary # completed.primary THEN {} ELSE EvaluatePackaging(contract, q)
        IN replay' = [query |-> q, rows |-> rows, decision |-> DecidePackaging(contract, rows)]
  BY DEF Replay
<1> DEFINE q == [id |-> "q", primary |-> completed.primary, values |-> completed.values, hints |-> completed.hints,
                 groups |-> unit.groups, grades |-> unit.grades]
           rows == IF unit.primary # completed.primary THEN {} ELSE EvaluatePackaging(contract, q)
           decision == DecidePackaging(contract, rows)
<1>5. q.primary = completed.primary /\ q.values = completed.values
  OBVIOUS
<1>6. replay' = [query |-> q, rows |-> rows, decision |-> decision]
  BY <1>4
<1>7. rows \in {{}, EvaluatePackaging(contract, q)}
  OBVIOUS
<1> HIDE DEF q, rows, decision
<1>8. replay'.query = q /\ replay'.rows = rows
  BY <1>6
<1>9. Packaged(q, segments)
  BY <1>3, <1>5, ArtifactsAre DEF Packaged
<1>10. Packaged(replay'.query, segments) /\ replay'.rows \in {{}, EvaluatePackaging(contract, replay'.query)}
  BY <1>7, <1>8, <1>9
<1>11. Replayed(segments, contract)'
  BY <1>10 DEF Replayed, Packaged, Artifact
<1> QED
  BY <1>1, <1>11 DEF ReportInv

(* Every step of the diagnostics keeps to what reports are made from.      *)
LEMMA ReportInductive ==
  ASSUME ReportInv, [DiagnosticsNext]_<<vars, packagingVars>>
  PROVE  ReportInv'
<1>1. CASE SelectAnchors
  BY <1>1 DEF SelectAnchors, ReportInv
<1>2. CASE Reach
  BY <1>2 DEF Reach, ReportInv
<1>3. CASE SelectByMetadata
  BY <1>3 DEF SelectByMetadata, ReportInv
<1>4. CASE SelectByEdges
  <2>1. stage' \in {"bundle", "failed"} /\ input' = input
    BY <1>4 DEF SelectByEdges
  <2> QED
    BY <2>1 DEF ReportInv
<1>5. CASE SelectInFrontier
  <2>1. stage' \in {"bundle", "failed"} /\ input' = input
    BY <1>5 DEF SelectInFrontier
  <2> QED
    BY <2>1 DEF ReportInv
<1>6. CASE Package
  BY <1>6 DEF Package, ReportInv
<1>7. CASE Label
  BY <1>7 DEF Label, ReportInv
<1>8. CASE Complete
  BY <1>8, CompleteReports
<1>9. CASE Replay
  BY <1>9, ReplayReports
<1>10. CASE UNCHANGED <<vars, packagingVars>>
  <2>1. stage' = stage /\ input' = input /\ completed' = completed /\ replay' = replay
    BY <1>10 DEF vars, packagingVars
  <2>2. \A segments : Evident(segments) => Evident(segments)'
    BY <2>1 DEF Evident
  <2>3. \A segments, contract : Replayed(segments, contract) => Replayed(segments, contract)'
    BY <2>1 DEF Replayed, Packaged, Artifact
  <2> QED
    BY <2>1, <2>2, <2>3 DEF ReportInv
<1> QED
  BY <1>1, <1>2, <1>3, <1>4, <1>5, <1>6, <1>7, <1>8, <1>9, <1>10 DEF DiagnosticsNext, Evaluate, Next, Select

(* The diagnostics start without a report.                                 *)
LEMMA ReportInitially ==
  ASSUME DiagnosticsInit
  PROVE  ReportInv
BY DEF DiagnosticsInit, Init, ReportInv

(* Reports are made from artifacts and graphs of the request.              *)
THEOREM ReportInvariance == DiagnosticsSpec => []ReportInv
  BY ReportInitially, ReportInductive, PTL DEF DiagnosticsSpec

(* Charges, ties and misses are what a run reports them to be: a body is   *)
(* charged once however many contracts name it, a place is called exact    *)
(* only when no order of equal scores could move it, and a miss is put     *)
(* down to packaging exactly when some sibling budget would mend it.       *)
THEOREM ReportsAreExact == DiagnosticsSpec => []ReportExact
<1>1. ReportInv => ReportExact
  BY EvidenceExact, ReplayExact DEF ReportExact
<1> QED
  BY <1>1, ReportInvariance, PTL

-----------------------------------------------------------------------------
(* The laboratory, of which either part runs beside the other.             *)
LabInv ==
  /\ IInv
  /\ \/ part = "review" /\ DiagnosticsIdle
     \/ part = "diagnostics" /\ DiagnosticsInv /\ ReportInv

(* Either part keeps to itself.                                            *)
LEMMA LabInductive ==
  ASSUME LabInv, [LabNext]_labVars
  PROVE  LabInv'
<1>1. CASE part = "review" /\ ReviewNext /\ UNCHANGED <<diagnosticsVars, part>>
  <2>1. IInv'
    BY <1>1, Inductive DEF LabInv
  <2>2. DiagnosticsIdle /\ DiagnosticsIdle' /\ part' = part
    BY <1>1 DEF LabInv, DiagnosticsIdle, diagnosticsVars, vars, packagingVars
  <2> QED
    BY <1>1, <2>1, <2>2 DEF LabInv
<1>2. CASE part = "diagnostics" /\ DiagnosticsNext /\ UNCHANGED <<reviewVars, part>>
  <2>1. IInv'
    BY <1>2, Inductive DEF LabInv
  <2>2. DiagnosticsInv' /\ ReportInv' /\ part' = part
    BY <1>2, DiagnosticsInductive, ReportInductive DEF LabInv
  <2> QED
    BY <1>2, <2>1, <2>2 DEF LabInv
<1>3. CASE UNCHANGED labVars
  <2>1. part' = part /\ UNCHANGED reviewVars /\ UNCHANGED <<vars, packagingVars>>
    BY <1>3 DEF labVars, diagnosticsVars
  <2>2. IInv'
    BY <2>1, Inductive DEF LabInv
  <2>3. CASE part = "review"
    <3>1. DiagnosticsIdle'
      BY <2>1, <2>3 DEF LabInv, DiagnosticsIdle, vars, packagingVars
    <3> QED
      BY <2>1, <2>2, <2>3, <3>1 DEF LabInv
  <2>4. CASE part = "diagnostics"
    <3>1. DiagnosticsInv' /\ ReportInv'
      BY <2>1, <2>4, DiagnosticsInductive, ReportInductive DEF LabInv
    <3> QED
      BY <2>1, <2>2, <2>4, <3>1 DEF LabInv
  <2> QED
    BY <2>3, <2>4 DEF LabInv
<1> QED
  BY <1>1, <1>2, <1>3 DEF LabNext

(* Either part starts as it does alone.                                    *)
LEMMA LabInitially == LabInit => LabInv
BY Initially, DiagnosticsInitially, ReportInitially DEF LabInit, LabInv

(* A behaviour of the laboratory keeps what its part keeps.                *)
THEOREM LabInvariance == LabSpec => []LabInv
  BY LabInitially, LabInductive, PTL DEF LabSpec

(* All that the runs check of the laboratory holds of either part beside   *)
(* the other, provided the protected parents of a query differ in body.    *)
THEOREM LabIsSound ==
  ProtectedBodiesDiffer =>
    (LabSpec => [](/\ SelectionRestsOnOneChain /\ EitherSideSettles /\ FrozenLabelsEvaluate
                   /\ EvaluationNeverFails /\ CapsKeepBridgesAndBest /\ ReportExact))
<1> SUFFICES ASSUME ProtectedBodiesDiffer
             PROVE  LabSpec => [](/\ SelectionRestsOnOneChain /\ EitherSideSettles /\ FrozenLabelsEvaluate
                                  /\ EvaluationNeverFails /\ CapsKeepBridgesAndBest /\ ReportExact)
  OBVIOUS
<1>1. LabInv => /\ SelectionRestsOnOneChain /\ EitherSideSettles /\ FrozenLabelsEvaluate
                /\ EvaluationNeverFails /\ CapsKeepBridgesAndBest /\ ReportExact
  <2> SUFFICES ASSUME LabInv
               PROVE  /\ SelectionRestsOnOneChain /\ EitherSideSettles /\ FrozenLabelsEvaluate
                      /\ EvaluationNeverFails /\ CapsKeepBridgesAndBest /\ ReportExact
    OBVIOUS
  <2>1. IInv
    BY DEF LabInv
  <2>2. SelectionRestsOnOneChain
    BY <2>1, OneChain
  <2>3. EitherSideSettles
    BY <2>1, EitherSide DEF EitherSideSettles
  <2>4. FrozenLabelsEvaluate
    BY <2>1, FrozenEvaluates DEF FrozenLabelsEvaluate
  <2>5. CASE DiagnosticsIdle
    <3>1. stage = "idle"
      BY <2>5 DEF DiagnosticsIdle
    <3> QED
      BY <2>2, <2>3, <2>4, <3>1
      DEF EvaluationNeverFails, CapsKeepBridgesAndBest, ByFrontier, Chosen, ReportExact, ClosureChargesOnce,
          TieStatusExact, MissClassTellsRemedy
  <2>6. CASE DiagnosticsInv /\ ReportInv
    <3>1. EvaluationNeverFails /\ CapsKeepBridgesAndBest
      BY <2>6 DEF DiagnosticsInv
    <3>2. ReportExact
      BY <2>6, EvidenceExact, ReplayExact DEF ReportExact
    <3> QED
      BY <2>2, <2>3, <2>4, <3>1, <3>2
  <2> QED
    BY <2>5, <2>6 DEF LabInv
<1> QED
  BY <1>1, LabInvariance, PTL
=============================================================================
