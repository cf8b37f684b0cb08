------------------------------- MODULE Review -------------------------------
(***************************************************************************)
(* The review protocol of the relation diagnostics (`dev relations review',*)
(* internal/relationdiag/review.go): emissions are frozen before any label *)
(* exists, a packet is prepared from them, two reviewers grade it blind,   *)
(* their grades are reconciled, an owner adopts the reconciliation as a    *)
(* whole, and the adopted labels are joined to the frozen emissions.       *)
(*                                                                         *)
(* Every command reads files, and ends by writing files one after another; *)
(* it may be killed between two writes or in the middle of one.  A digest  *)
(* is modelled by the value it is the digest of, so that two digests are   *)
(* equal exactly when the values are.                                      *)
(***************************************************************************)
EXTENDS Integers, Sequences, FiniteSets, FiniteSetsExt

CONSTANTS
    NoFile,        \* what a reader sees of an absent file
    Contract,      \* the compiled series: [members, queries, features, hints, closures]
    Completions,   \* name of a completion directory -> what is in it
    Inputs,        \* name of a request payload -> [query -> [text, protected, groups, cohorts]]
    Bodies,        \* parent -> its source span; parents without a body are absent
    Cells,         \* the frozen budget grid: [family, count, bytes]
    ProtectedK,    \* ProtectedPrimaryK
    Gradings,      \* the grades a reviewer may give, over a whole packet
    Rulings,       \* the grades an adjudicator may give to every conflict
    Reviewers,     \* pass -> the [id, family] of those who may fill it in
    MaxSteps       \* bound: commands started, files handed in, kills and edits of a behaviour

ReviewAssumption ==
    /\ Contract.queries \in Nat \ {0}
    /\ IsFiniteSet(DOMAIN Completions)
    /\ \A d \in DOMAIN Completions :
          IsFiniteSet(Completions[d].features \cup Completions[d].hints \cup Completions[d].closures)
    /\ \A payload \in DOMAIN Inputs : \A q \in DOMAIN Inputs[payload] :
          IsFiniteSet(Inputs[payload][q].protected) /\ IsFiniteSet(DOMAIN Inputs[payload][q].groups)
ASSUME ReviewAssumption

VARIABLES
    files,     \* file -> its content, NoFile when absent or cut short
    writing,   \* what the running command still has to write
    source,    \* "indexed" while the source trees are those the bodies cite
    steps      \* how many of those there were so far

reviewVars == <<files, writing, source, steps>>

Passes == {"pass-1", "pass-2"}
SelectionFiles == <<"selection", "checksums">>   \* the tables are written between the two
Selection == {SelectionFiles[i] : i \in 1..Len(SelectionFiles)}
Inputs3 == {"pass-1-grades", "pass-2-grades", "adjudication", "adoption"}
FileNames == {"emissions", "prepared", "prelabels", "pass-1", "pass-2", "adoption-input",
              "frozen", "owner-adoption", "adjudications"} \cup Selection \cup Inputs3

-----------------------------------------------------------------------------
(* Completion directories *)

\* What a row set says of a query.
Of(rows, q) == {r \in rows : r.query = q}
All(dirs, field) == UNION {Completions[d][field] : d \in dirs}
Traces(dirs) == All(dirs, "traces")

LoadReviewCompletion(d) ==
    /\ d.verified
    /\ d.traces # {}
    /\ \A r \in d.features \cup d.hints \cup d.closures : r.query \in d.traces

ValidateReviewMember(d) ==
    \E m \in Contract.members :
        /\ m.corpus = d.corpus
        /\ m.checksum = d.checksum
        /\ m.queries = Cardinality(d.traces)

\* Both prepare commands accept exactly the series of the contract.
ImmutableSeries(dirs) ==
    /\ Cardinality(dirs) = Cardinality(Contract.members)
    /\ \A d \in dirs : LoadReviewCompletion(Completions[d]) /\ ValidateReviewMember(Completions[d])
    /\ \A d, e \in dirs : d # e => /\ Completions[d].corpus # Completions[e].corpus
                                 /\ Completions[d].traces \cap Completions[e].traces = {}
    /\ Cardinality(Traces(dirs)) = Contract.queries
    /\ Cardinality(All(dirs, "features")) = Contract.features
    /\ Cardinality(All(dirs, "hints")) = Contract.hints
    /\ Cardinality(All(dirs, "closures")) = Contract.closures

\* The sets of directories either command lets through.
Series == {dirs \in SUBSET DOMAIN Completions : ImmutableSeries(dirs)}

ValidateReviewQueries(payload, dirs) ==
    /\ DOMAIN Inputs[payload] = Traces(dirs)
    /\ \A q \in DOMAIN Inputs[payload] :
        /\ Cardinality(Inputs[payload][q].protected) = ProtectedK
        /\ \A g \in DOMAIN Inputs[payload][q].groups : Inputs[payload][q].groups[g] # {}

-----------------------------------------------------------------------------
(* The emissions frozen before labels *)

Rows(dirs, cell) == All(dirs, IF cell.family = "closure" THEN "closures" ELSE "hints")
WithinCell(row, cell) == row.omission = "" /\ cell.count \in row.counts /\ cell.bytes \in row.sizes

\* One control: the candidates a cell admits for a query, and why it drops the rest.
EmissionControl(dirs, q, cell) ==
    LET rows == Of(Rows(dirs, cell), q)
        candidates == {r \in rows : r.omission = ""}
        counted == {r \in candidates : cell.count \in r.counts}
        emitted == {r \in rows : WithinCell(r, cell)}
    IN [candidates |-> Cardinality(candidates),
        emitted |-> Cardinality(emitted),
        bytes |-> MapThenSumSet(LAMBDA r : r.bytes, emitted),
        omitted |-> [why \in {"COUNT_CAP", "BYTE_CAP"} \cup {r.omission : r \in rows \ candidates} |->
                        CASE why = "COUNT_CAP" -> Cardinality(candidates \ counted)
                          [] why = "BYTE_CAP" -> Cardinality(counted \ emitted)
                          [] OTHER -> Cardinality({r \in rows : r.omission = why})]]

\* All of them, as a set: TLC evaluates it once.
ReviewEmissionControls ==
    UNION {{[series |-> dirs, query |-> q, cell |-> cell, control |-> EmissionControl(dirs, q, cell)] :
               q \in Traces(dirs), cell \in Cells} : dirs \in Series}

\* What a query shows before labels: everything but its draft groups.
Prelabel(payload) ==
    [q \in DOMAIN Inputs[payload] |-> [text |-> Inputs[payload][q].text, protected |-> Inputs[payload][q].protected]]

\* The freeze holds the controls; they are a function of the series it names here.
EmissionFreeze(dirs, payload) == [queries |-> Prelabel(payload), series |-> dirs]
Controls(freeze) == {e \in ReviewEmissionControls : e.series = freeze.series}
ControlOf(freeze, q, cell) == (CHOOSE e \in Controls(freeze) : e.query = q /\ e.cell = cell).control

ReadReviewEmissionFreeze(file) ==
    /\ files[file] # NoFile
    /\ Cardinality(DOMAIN files[file].queries) = Contract.queries

ValidReviewPolicyControl(control, cell) ==
    /\ control.emitted <= control.candidates
    /\ control.emitted <= cell.count
    /\ control.bytes <= cell.bytes

-----------------------------------------------------------------------------
(* The packet *)

ReviewAttachmentID(q, parent) == <<q, Bodies[parent]>>

GroupsOf(payload, q) == DOMAIN Inputs[payload][q].groups

\* What each delivery family, the protected primaries and the draft groups refer to.
References(dirs, payload) ==
    LET row(family, from, r) == {<<r.query, r.target, family>>, <<r.query, r.source, from>>}
        protected(q) == {<<q, p, "protected_primary">> : p \in Inputs[payload][q].protected}
        drafted(q) == {<<q, p, "truth_source">> : p \in UNION {Inputs[payload][q].groups[g] : g \in GroupsOf(payload, q)}}
    IN (UNION {row("semantic", "semantic_source", r) : r \in All(dirs, "features")})
       \cup (UNION {row("closure", "closure_source", r) : r \in All(dirs, "closures")})
       \cup (UNION {row("hint", "hint_source", r) : r \in All(dirs, "hints")})
       \cup (UNION {protected(q) \cup drafted(q) : q \in DOMAIN Inputs[payload]})

\* Parents with one body are one candidate, under every family that refers to one of them.
CandidatesOf(dirs, payload) ==
    LET refs == {r \in References(dirs, payload) : r[2] \in DOMAIN Bodies}
        id(r) == ReviewAttachmentID(r[1], r[2])
    IN {[id |-> id(r), query |-> r[1], families |-> {t[3] : t \in {u \in refs : id(u) = id(r)}}] : r \in refs}

RelationsOf(dirs) ==
    LET of(family, field) ==
            {[id |-> <<family, r.query, r.source, r.target>>, query |-> r.query, family |-> family,
              source |-> ReviewAttachmentID(r.query, r.source),
              target |-> ReviewAttachmentID(r.query, r.target)] : r \in All(dirs, field)}
    IN of("semantic", "features") \cup of("hint", "hints") \cup of("closure", "closures")

\* What a packet shows for each series and each payload; TLC evaluates it once.
Packets == {[dirs |-> dirs, queries |-> payload, candidates |-> CandidatesOf(dirs, payload), relations |-> RelationsOf(dirs)] :
               dirs \in Series, payload \in DOMAIN Inputs}
Shown(prepared) == CHOOSE e \in Packets : e.dirs = prepared.dirs /\ e.queries = prepared.queries
ReviewCandidates(prepared) == Shown(prepared).candidates
Relations(prepared) == Shown(prepared).relations

CandidateIDs(prepared) == {c.id : c \in ReviewCandidates(prepared)}
RelationIDs(prepared) == {r.id : r \in Relations(prepared)}

EmissionIDs(prepared, q, cell) ==
    {ReviewAttachmentID(q, r.target) : r \in {x \in Of(Rows(prepared.dirs, cell), q) : WithinCell(x, cell)}}

EmissionRelations(prepared, q, cell) ==
    {r \in Relations(prepared) : r.query = q /\ r.family = cell.family /\ r.target \in EmissionIDs(prepared, q, cell)}

Packet(prepared, pass) == [prepared |-> prepared, pass |-> pass]

ValidReviewPrelabelControls(prelabel, prepared) ==
    \A q \in Traces(prepared.dirs), cell \in Cells :
        /\ \E e \in Controls(prelabel) : e.query = q /\ e.cell = cell
        /\ ValidReviewPolicyControl(ControlOf(prelabel, q, cell), cell)
        /\ Cardinality(EmissionIDs(prepared, q, cell)) <= ControlOf(prelabel, q, cell).emitted
        /\ EmissionIDs(prepared, q, cell) \subseteq {c.id : c \in Of(ReviewCandidates(prepared), q)}

ReadReviewPrepared ==
    LET prepared == files["prepared"]
    IN /\ prepared # NoFile
       /\ \A p \in Passes : files[p] = Packet(prepared, p)
       /\ ReadReviewEmissionFreeze("prelabels")
       /\ files["prelabels"] = prepared.prelabel
       /\ files["prelabels"].queries = Prelabel(prepared.queries)
       /\ ValidReviewPrelabelControls(files["prelabels"], prepared)

-----------------------------------------------------------------------------
(* Grades *)

\* The groups of a query are fixed by the packet; a reviewer may only use them.
ReviewQueryTopologyGroupIDs(prepared, id) ==
    LET owner == {c.query : c \in {x \in ReviewCandidates(prepared) \cup Relations(prepared) : x.id = id}}
    IN UNION {GroupsOf(prepared.queries, q) : q \in owner}

ValidReviewGradeFor(prepared, id, g) ==
    LET allowed == ReviewQueryTopologyGroupIDs(prepared, id)
    IN /\ g.grade \in 0..2
       /\ IF g.grade = 2 THEN g.groups # {} /\ g.groups \subseteq allowed ELSE g.groups = {}
       /\ IF g.hard THEN g.grade = 0 /\ g.reason # "" /\ g.hardGroups # {} /\ g.hardGroups \subseteq allowed
                    ELSE g.reason = "" /\ g.hardGroups = {}

\* A relation is subordinate to the parent it points at.
Subordinate(grade, target) ==
    /\ grade.grade <= target.grade
    /\ grade.grade = 2 => grade.groups \subseteq target.groups

RelationsSubordinate(prepared, labels) ==
    \A r \in Relations(prepared) : Subordinate(labels[r.id], labels[r.target])

ValidateReviewPass(pass) ==
    LET prepared == files["prepared"]
    IN /\ pass.prepared = prepared
       /\ pass.packet = files[pass.pass]
       /\ ReadReviewPrepared
       /\ DOMAIN pass.grades = CandidateIDs(prepared) \cup RelationIDs(prepared)
       /\ \A id \in DOMAIN pass.grades : ValidReviewGradeFor(prepared, id, pass.grades[id])
       /\ RelationsSubordinate(prepared, pass.grades)

-----------------------------------------------------------------------------
(* Reconciliation *)

ReviewLabel(grade, groups, hard, hardGroups) ==
    [grade |-> grade, groups |-> groups, hard |-> hard, hardGroups |-> hardGroups]

\* Bug: only the first reviewer's grade of 2 is contested.
FirstReviewerContests(l, r) == l.grade = 2 /\ (r.grade # 2 \/ l.groups # r.groups)

\* Only a grade of 2 is contested: 0 against 1 settles on 0.
Conflict(l, r) == 2 \in {l.grade, r.grade} /\ (l.grade # r.grade \/ l.groups # r.groups)

Settled(l, r) ==
    LET hard == l.hard /\ r.hard /\ l.reason = r.reason /\ l.hardGroups = r.hardGroups
    IN ReviewLabel(IF l.grade = r.grade THEN l.grade ELSE 0,
             IF l.grade = 2 /\ r.grade = 2 THEN l.groups ELSE {},
             hard, IF hard THEN l.hardGroups ELSE {})

Reconcile(one, two, entries) ==
    [id \in DOMAIN one |->
        IF Conflict(one[id], two[id])
        THEN ReviewLabel(entries[id].grade, entries[id].groups, entries[id].hard, entries[id].hardGroups)
        ELSE Settled(one[id], two[id])]

\* Every conflict needs its entry; the rest of the entries is validated and unused.
Reconcilable(prepared, one, two, entries) ==
    /\ \A id \in DOMAIN one : Conflict(one[id], two[id]) => id \in DOMAIN entries
    /\ RelationsSubordinate(prepared, Reconcile(one, two, entries))

NoEntries == [id \in {} |-> NoFile]

AdjudicationBinds(adjudication, one, two) ==
    /\ adjudication.prepared = files["prepared"]
    /\ adjudication.one = one
    /\ adjudication.two = two
    /\ \A id \in DOMAIN adjudication.entries :
          ValidReviewGradeFor(files["prepared"], id, adjudication.entries[id])

\* reconcileReview over the two pass files, and the adjudication when one is named.
CanReconcile(adjudicated) ==
    LET one == files["pass-1-grades"]
        two == files["pass-2-grades"]
        adjudication == files["adjudication"]
    IN /\ one # NoFile /\ two # NoFile
       /\ one.pass # two.pass
       /\ one.reviewer.family # two.reviewer.family
       /\ one.reviewer.id # two.reviewer.id
       /\ ValidateReviewPass(one) /\ ValidateReviewPass(two)
       /\ adjudicated => adjudication # NoFile /\ AdjudicationBinds(adjudication, one, two)
       /\ Reconcilable(files["prepared"], one.grades, two.grades,
                       IF adjudicated THEN adjudication.entries ELSE NoEntries)

Reconciled(adjudicated) ==
    LET one == files["pass-1-grades"]
        two == files["pass-2-grades"]
    IN [prepared |-> files["prepared"], one |-> one, two |-> two, prelabel |-> files["prepared"].prelabel,
        labels |-> Reconcile(one.grades, two.grades,
                             IF adjudicated THEN files["adjudication"].entries ELSE NoEntries)]

ValidReviewAdoption(adoption, base) ==
    /\ adoption.adopted
    /\ adoption.frozen = base
    /\ adoption.prelabel = base.prelabel

-----------------------------------------------------------------------------
(* The evaluation of a cell *)

ProtectedIDs(prepared, q) == {c.id : c \in {x \in Of(ReviewCandidates(prepared), q) : "protected_primary" \in x.families}}
Grade2Groups(labels, ids) == UNION {labels[id].groups : id \in {i \in ids : labels[i].grade = 2}}
Baseline(prepared, labels, q) == Grade2Groups(labels, ProtectedIDs(prepared, q))

ParentOutcome(label) ==
    CASE label.hard -> "HARD_NEGATIVE"
      [] ~label.hard /\ label.grade = 2 -> "GRADE_2"
      [] ~label.hard /\ label.grade = 1 -> "SUPPORT"
      [] OTHER -> "NOISE"

\* A delivery is useful when parent and relation share a required group.
DeliveryOutcome(parent, relation) ==
    LET shared == IF parent.grade = 2 /\ relation.grade = 2 THEN parent.groups \cap relation.groups ELSE {}
    IN CASE parent.hard \/ relation.hard -> [is |-> "HARD_NEGATIVE", groups |-> {}]
         [] ~(parent.hard \/ relation.hard) /\ shared # {} -> [is |-> "USEFUL", groups |-> shared]
         [] OTHER -> [is |-> IF 1 \in {parent.grade, relation.grade} THEN "SUPPORT" ELSE "NOISE", groups |-> {}]

Outcomes(of, S) == [o \in {"HARD_NEGATIVE", "GRADE_2", "USEFUL", "SUPPORT", "NOISE"} |-> Cardinality({x \in S : of[x] = o})]

\* Bug: a group the protected primaries already cover counts as new.
AddedAgain(added, groups, base) == Cardinality(added \cap groups)

\* What an emission adds to the groups the protected primaries cover.
NewGroupCount(added, groups, base) == Cardinality((added \cap groups) \ base)

QueryCell(prepared, labels, q, cell) ==
    LET control == ControlOf(prepared.prelabel, q, cell)
        base == Baseline(prepared, labels, q)
        parents == EmissionIDs(prepared, q, cell)
        relations == EmissionRelations(prepared, q, cell)
        parentAdded == Grade2Groups(labels, parents)
        delivered == [r \in relations |-> DeliveryOutcome(labels[r.target], labels[r.id])]
        deliveryAdded == UNION {delivered[r].groups : r \in relations}
        groups == GroupsOf(prepared.queries, q)
    IN [query |-> q, cell |-> cell, control |-> control,
        groups |-> Cardinality(groups), baseline |-> Cardinality(base \cap groups),
        parentNew |-> NewGroupCount(parentAdded, groups, base),
        parentComplete |-> Cardinality((base \cup parentAdded) \cap groups),
        deliveryNew |-> NewGroupCount(deliveryAdded, groups, base),
        deliveryComplete |-> Cardinality((base \cup deliveryAdded) \cap groups),
        parents |-> Cardinality(parents), deliveries |-> Cardinality(relations),
        parentOutcomes |-> Outcomes([p \in parents |-> ParentOutcome(labels[p])], parents),
        deliveryOutcomes |-> Outcomes([r \in relations |-> delivered[r].is], relations)]

EvaluateReviewPolicyCells(prepared, labels) ==
    {QueryCell(prepared, labels, q, cell) : q \in Traces(prepared.dirs), cell \in Cells}

\* The equations every row has to satisfy.
DenominatorEquation(row) ==
    LET total(outcomes) == MapThenSumSet(LAMBDA o : outcomes[o], DOMAIN outcomes)
    IN /\ row.control.emitted <= row.control.candidates
       /\ row.control.emitted <= row.cell.count
       /\ row.control.bytes <= row.cell.bytes
       /\ row.parents = total(row.parentOutcomes)
       /\ row.deliveries = total(row.deliveryOutcomes)
       /\ row.parentComplete = row.baseline + row.parentNew
       /\ row.deliveryComplete = row.baseline + row.deliveryNew
       /\ row.parentComplete <= row.groups
       /\ row.deliveryComplete <= row.groups

\* Every row counts under all its scopes; the global scope is checked against the rows.
ReviewPolicyScopes(prepared, q) ==
    LET d == CHOOSE x \in prepared.dirs : q \in Completions[x].traces
    IN {<<"global", "all">>, <<"corpus", Completions[d].corpus>>, <<"language", Completions[d].language>>}
       \cup {<<"cohort", c>> : c \in Inputs[prepared.queries][q].cohorts}

Totals(rows) ==
    LET sum(of(_)) == MapThenSumSet(of, rows)
    IN [queries |-> Cardinality(rows), candidates |-> sum(LAMBDA r : r.control.candidates),
        emitted |-> sum(LAMBDA r : r.control.emitted), bytes |-> sum(LAMBDA r : r.control.bytes),
        abstained |-> Cardinality({r \in rows : r.control.candidates = 0}),
        groups |-> sum(LAMBDA r : r.groups), baseline |-> sum(LAMBDA r : r.baseline),
        parentComplete |-> sum(LAMBDA r : r.parentComplete), deliveryComplete |-> sum(LAMBDA r : r.deliveryComplete),
        parents |-> sum(LAMBDA r : r.parents), deliveries |-> sum(LAMBDA r : r.deliveries)]

AggregateReviewPolicyCells(prepared, rows) ==
    {[scope |-> scope, cell |-> cell,
      totals |-> Totals({r \in rows : r.cell = cell /\ scope \in ReviewPolicyScopes(prepared, r.query)})] :
        cell \in Cells, scope \in UNION {ReviewPolicyScopes(prepared, r.query) : r \in rows}}

AggregatesAgree(rows, aggregates) ==
    \A cell \in Cells :
        \E a \in aggregates :
            /\ a.scope = <<"global", "all">>
            /\ a.cell = cell
            /\ a.totals = Totals({r \in rows : r.cell = cell})

\* What evaluation refuses although the labels are valid.
EvaluationAccepts(prepared, labels) ==
    /\ \A q \in Traces(prepared.dirs) :
          /\ Cardinality(ProtectedIDs(prepared, q)) = ProtectedK
          /\ Baseline(prepared, labels, q) \subseteq GroupsOf(prepared.queries, q)
    /\ LET rows == EvaluateReviewPolicyCells(prepared, labels)
       IN /\ \A row \in rows : DenominatorEquation(row)
          /\ AggregatesAgree(rows, AggregateReviewPolicyCells(prepared, rows))

\* Bug: the labels are not bound to the packet they are joined to.
FrozenForAnyPacket ==
    LET frozen == files["frozen"]
    IN /\ frozen # NoFile /\ files["owner-adoption"] # NoFile
       /\ ValidReviewAdoption(files["owner-adoption"], frozen.base)
       /\ frozen.adoption = files["owner-adoption"]
       /\ DOMAIN frozen.base.labels = CandidateIDs(files["prepared"]) \cup RelationIDs(files["prepared"])

ValidatedReviewFrozenLabels ==
    LET frozen == files["frozen"]
        prepared == files["prepared"]
    IN /\ frozen # NoFile /\ files["owner-adoption"] # NoFile
       /\ frozen.base.prepared = prepared
       /\ frozen.base.prelabel = prepared.prelabel
       /\ ValidReviewAdoption(files["owner-adoption"], frozen.base)
       /\ frozen.adoption = files["owner-adoption"]
       /\ DOMAIN frozen.base.labels = CandidateIDs(prepared) \cup RelationIDs(prepared)
       /\ RelationsSubordinate(prepared, frozen.base.labels)

-----------------------------------------------------------------------------
(* The commands.  One runs at a time; its writes follow. *)

Start(writes) ==
    /\ writing = <<>>
    /\ steps < MaxSteps
    /\ steps' = steps + 1
    /\ writing' = writes
    /\ UNCHANGED <<files, source>>

To(file, content) == [file |-> file, content |-> content]

PrepareReviewEmissions(dirs, payload) ==
    /\ ValidateReviewQueries(payload, dirs)
    /\ Start(<<To("emissions", EmissionFreeze(dirs, payload))>>)

\* Bodies are read again from the source trees before they enter the packet.
PrepareReview(dirs, payload) ==
    LET prepared == [dirs |-> dirs, queries |-> payload, prelabel |-> files["emissions"]]
    IN /\ ValidateReviewQueries(payload, dirs)
       /\ source = "indexed"
       /\ ReadReviewEmissionFreeze("emissions")
       /\ files["emissions"].queries = Prelabel(payload)
       /\ \A r \in References(dirs, payload) : r[2] \in DOMAIN Bodies
       /\ files["emissions"].series = dirs   \* the controls it holds, computed again
       /\ Start(<<To("prepared", prepared), To("prelabels", files["emissions"]),
                  To("pass-1", Packet(prepared, "pass-1")), To("pass-2", Packet(prepared, "pass-2"))>>)

\* Without --adoption, freeze only writes what the owner has to adopt.
PrepareReviewAdoption(adjudicated) ==
    /\ CanReconcile(adjudicated)
    /\ Start(<<To("adoption-input", [frozen |-> Reconciled(adjudicated),
                                     prelabel |-> files["prepared"].prelabel, adopted |-> FALSE])>>)

FreezeReview(adjudicated) ==
    LET base == Reconciled(adjudicated)
        adoption == files["adoption"]
    IN /\ CanReconcile(adjudicated)
       /\ adoption # NoFile
       /\ ValidReviewAdoption(adoption, base)
       /\ Start(<<To("frozen", [base |-> base, adoption |-> adoption]), To("owner-adoption", adoption)>>
                \o IF adjudicated THEN <<To("adjudications", files["adjudication"])>> ELSE <<>>)

SelectReview ==
    LET labels == files["frozen"].base.labels
        evidence == [frozen |-> files["frozen"], prelabel |-> files["prelabels"], prepared |-> files["prepared"]]
    IN /\ ReadReviewPrepared
       /\ ValidatedReviewFrozenLabels
       /\ \A f \in Selection : files[f] = NoFile
       /\ EvaluationAccepts(files["prepared"], labels)
       /\ Start([i \in 1..Len(SelectionFiles) |-> To(SelectionFiles[i], evidence)])

WriteReviewJSON ==
    /\ writing # <<>>
    /\ files' = [files EXCEPT ![Head(writing).file] = Head(writing).content]
    /\ writing' = Tail(writing)
    /\ UNCHANGED <<source, steps>>

\* A file cut short no longer decodes, which readers cannot tell from its absence.
Killed ==
    /\ writing # <<>>
    /\ steps < MaxSteps
    /\ steps' = steps + 1
    /\ writing' = <<>>
    /\ files' \in {files, [files EXCEPT ![Head(writing).file] = NoFile]}
    /\ UNCHANGED source

-----------------------------------------------------------------------------
(* People *)

Hand(file, content) ==
    /\ writing = <<>>
    /\ steps < MaxSteps
    /\ steps' = steps + 1
    /\ files[file] # content
    /\ files' = [files EXCEPT ![file] = content]
    /\ UNCHANGED <<writing, source>>

\* A reviewer fills in a packet; the file may outlive the packet.
GradesOf(p) == IF p = "pass-1" THEN "pass-1-grades" ELSE "pass-2-grades"

Grade(p, reviewer, grades) ==
    /\ files[p] # NoFile
    /\ files["prepared"] # NoFile
    /\ Hand(GradesOf(p), [prepared |-> files[p].prepared, packet |-> files[p], pass |-> p,
                          reviewer |-> reviewer, grades |-> grades])

Adjudicate(g) ==
    LET one == files["pass-1-grades"]
        two == files["pass-2-grades"]
    IN /\ one # NoFile /\ two # NoFile
       /\ DOMAIN one.grades = DOMAIN two.grades
       /\ Hand("adjudication",
               [prepared |-> one.prepared, one |-> one, two |-> two,
                entries |-> [id \in {i \in DOMAIN one.grades : Conflict(one.grades[i], two.grades[i])} |-> g]])

Adopt == files["adoption-input"] # NoFile /\ Hand("adoption", [files["adoption-input"] EXCEPT !.adopted = TRUE])

\* Somebody edits the reviewed source, or empties the output directory.
EditSource ==
    /\ writing = <<>>
    /\ steps < MaxSteps
    /\ steps' = steps + 1
    /\ source = "indexed"
    /\ source' = "edited"
    /\ UNCHANGED <<files, writing>>
ClearSelection ==
    /\ writing = <<>>
    /\ steps < MaxSteps
    /\ steps' = steps + 1
    /\ \E f \in Selection : files[f] # NoFile
    /\ files' = [f \in FileNames |-> IF f \in Selection THEN NoFile ELSE files[f]]
    /\ UNCHANGED <<writing, source>>

Commands ==
    \/ \E dirs \in Series, payload \in DOMAIN Inputs :
          PrepareReviewEmissions(dirs, payload) \/ PrepareReview(dirs, payload)
    \/ \E adjudicated \in BOOLEAN : PrepareReviewAdoption(adjudicated) \/ FreezeReview(adjudicated)
    \/ SelectReview
    \/ WriteReviewJSON
    \/ Killed

People ==
    \/ \E p \in Passes, grades \in Gradings : \E reviewer \in Reviewers[p] : Grade(p, reviewer, grades)
    \/ \E g \in Rulings : Adjudicate(g)
    \/ Adopt
    \/ EditSource
    \/ ClearSelection

ReviewInit ==
    /\ files = [f \in FileNames |-> NoFile]
    /\ writing = <<>>
    /\ source = "indexed"
    /\ steps = 0

ReviewNext == Commands \/ People
ReviewSpec == ReviewInit /\ [][ReviewNext]_reviewVars

-----------------------------------------------------------------------------
(* Properties *)

\* A finished evaluation rests on one chain: its files are all there and agree,
\* its labels were adopted as a whole, both graders saw the very packet that is
\* evaluated, they are two, and the emissions were frozen for its queries.
SelectionRestsOnOneChain ==
    files["checksums"] # NoFile =>
        LET evidence == files["checksums"]
            base == evidence.frozen.base
        IN /\ \A f \in Selection : files[f] = evidence
           /\ base.prepared = evidence.prepared
           /\ \A pass \in {base.one, base.two} : pass.packet.prepared = evidence.prepared
           /\ base.one.reviewer.family # base.two.reviewer.family
           /\ evidence.frozen.adoption.frozen = base
           /\ evidence.prelabel.queries = Prelabel(evidence.prepared.queries)
           /\ \A id \in DOMAIN base.labels : base.labels[id].grade <= 2
                 /\ (base.labels[id].grade = 2 => 2 \in {base.one.grades[id].grade, base.two.grades[id].grade})

\* What a request should do and only the evaluation insists on: the protected
\* parents of a query have different bodies.
ProtectedBodiesDiffer ==
    \A payload \in DOMAIN Inputs : \A q \in DOMAIN Inputs[payload] :
        \A p, r \in Inputs[payload][q].protected :
            p \in DOMAIN Bodies /\ r \in DOMAIN Bodies /\ Bodies[p] = Bodies[r] => p = r

\* Labels that were validly frozen for the packet on disk can be evaluated: no
\* equation of the evaluation fails after the labels have been paid for.
FrozenLabelsEvaluate ==
    ReadReviewPrepared /\ ValidatedReviewFrozenLabels =>
        EvaluationAccepts(files["prepared"], files["frozen"].base.labels)

\* Two valid passes can always be reconciled: taking one reviewer's side in every
\* conflict never leaves a relation above the parent it points at.
EitherSideSettles ==
    LET one == files["pass-1-grades"]
        two == files["pass-2-grades"]
    IN one # NoFile /\ two # NoFile =>
          (ValidateReviewPass(one) /\ ValidateReviewPass(two) =>
              \A side \in {one, two} : Reconcilable(files["prepared"], one.grades, two.grades, side.grades))
=============================================================================
