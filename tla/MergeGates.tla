------------------------------- MODULE MergeGates -------------------------------
(***************************************************************************)
(* The gates a coverage model passes, as operators over a document:        *)
(* tools/coverage.py, evidence_collector.py, evidence_gate.py (the local   *)
(* gate), coverage_gate.py and opa_input.py (the merge gate),              *)
(* baseline_gate.py and ci_evidence_check.py (the CI check).               *)
(*                                                                         *)
(* A document is [kind, items]; kind "model" is an object with an items    *)
(* array.  in_scope is "True", "False", or "truthy" for a value that is    *)
(* neither: the gates differ on it.  A gate is the condition under which   *)
(* it accepts; an exception is a denial, as every gate fails closed.       *)
(***************************************************************************)
EXTENDS Naturals, Sequences, FiniteSets, SequencesExt

CONSTANTS
    None,
    Junk,          \* an element of items that is not an object
    Raises,        \* what a function that raised did not return
    Contents,      \* what a captured artifact file may hold
    RawSessions,   \* session ids as written
    Norm,          \* their strip-and-casefold; "" if empty or not ASCII
    VERIFIER_ROLE

ASSUME GateConstants ==
    /\ None \notin Contents
    /\ DOMAIN Norm = RawSessions
--------------------------------------------------------------------------------
(*----------------------- coverage.py, evidence_collector.py ------------*)
ALLOWED_TRANSITIONS ==
    {<<"unproven", "proven">>, <<"unproven", "failed">>,
     <<"failed", "unproven">>, <<"proven", "unproven">>}

assert_transition(frm, to) == <<frm, to>> \in ALLOWED_TRANSITIONS

assert_field_authority(field, actor_agent, human_signed) ==
    \/ field = "status" /\ actor_agent = VERIFIER_ROLE
    \/ field = "in_scope" /\ human_signed

(* The items in scope, as no verdict depends on their order; an element    *)
(* without get raises.                                                     *)
in_scope_items(items) ==
    IF Junk \in ToSet(items) THEN Raises ELSE {i \in ToSet(items) : i.in_scope # "False"}

has_unproven_in_scope(items) == \E i \in in_scope_items(items) : i.status # "proven"

is_complete(items) ==
    /\ Junk \notin ToSet(items)
    /\ in_scope_items(items) # {}
    /\ ~has_unproven_in_scope(items)

(* The digest of an artifact: as no two contents collide, the content.     *)
_rederive(artifact) == artifact

(* The record over an artifact's output; the sessions and the kind are     *)
(* stamped on by the prover.                                               *)
collect(test_file, output, kind, verifier, implementer) ==
    [form |-> "valid", test_file |-> test_file, output_hash |-> _rederive(output),
     evidence_kind |-> kind, verifier_session_id |-> verifier,
     implementer_session_id |-> implementer]

(* form: "valid"; "malformed", four non-empty strings with a bad hash or   *)
(* time; "partial", a field missing, empty or not a string.                *)
validate_evidence_record(record) == record.form = "valid"

_evidence_complete(evidence) == evidence # None /\ evidence.form # "partial"

_norm_session(s) == IF s = None THEN "" ELSE Norm[s]

(*------------------------------ evidence_gate.py -----------------------*)
check_slice(evidence, artifact, ledger) ==
    /\ evidence # None
    /\ validate_evidence_record(evidence)
    /\ artifact # None /\ _rederive(artifact) = evidence.output_hash
    /\ LET vs == _norm_session(evidence.verifier_session_id)
           is == _norm_session(evidence.implementer_session_id)
           valid == {_norm_session(s) : s \in ledger} \ {""}
       IN  vs # "" /\ is # "" /\ vs # is /\ {vs, is} \subseteq valid

(* artifacts: id -> what was captured for it. *)
check_model(doc, ledger, artifacts) ==
    /\ doc.kind = "model"
    /\ \A n \in DOMAIN doc.items : doc.items[n] # Junk
    /\ \A item \in in_scope_items(doc.items) :
          /\ item.status = "proven"
          /\ check_slice(item.evidence, artifacts[item.id], ledger)

(*------------------------------ coverage_gate.py -----------------------*)
_model_shape_denial(doc) == doc.kind # "model"

_distinct_sessions(evidence) ==
    LET vs == _norm_session(evidence.verifier_session_id)
        is == _norm_session(evidence.implementer_session_id)
    IN  vs # "" /\ is # "" /\ vs # is

(* Rules 1 to 4; without an evidence object every field of it is absent.   *)
_item_denied(item) ==
    \/ item.status # "proven"
    \/ ~_evidence_complete(item.evidence)
    \/ ~_distinct_sessions(item.evidence)
    \/ item.type = "WIRING" /\ item.evidence.evidence_kind # "integration"

(* Mutant of deny_merge: only an item left unproven denies, not a failed one. *)
deny_merge_unproven(doc) ==
    \/ _model_shape_denial(doc)
    \/ LET items == {i \in ToSet(doc.items) : i # Junk /\ i.in_scope = "True"}
       IN  items = {} \/ \E i \in items : i.status = "unproven"

(* Only in_scope `is True` counts, and no such item at all is a denial; an *)
(* element that is not an object is passed over.                           *)
deny_merge(doc) ==
    \/ _model_shape_denial(doc)
    \/ LET items == {i \in ToSet(doc.items) : i # Junk /\ i.in_scope = "True"}
       IN  items = {} \/ \E i \in items : _item_denied(i)

(* The step of coverage-gate.yml: without a model there is nothing to deny.*)
python_gate(doc) == doc.kind = "absent" \/ ~deny_merge(doc)

(* The ids Conftest is told about; an element without get raises.          *)
build_opa_input(doc) ==
    LET scope == {i \in ToSet(doc.items) : i.in_scope # "False"}
        unproven == {i \in scope : i.status # "proven"}
        bare == {i \in scope \ unproven : i.evidence = None}
    IN  IF doc.kind # "model" \/ Junk \in ToSet(doc.items) THEN Raises
        ELSE [unproven_in_scope |-> {i.id : i \in unproven},
              missing_evidence |-> {i.id : i \in bare}]

(*------------------------------ baseline_gate.py -----------------------*)
(* A baseline is [kind, ids]; the kind is "absent" (or without a list),    *)
(* "corrupt", "in_checkout" (in the PR's own tree) or "ids".               *)
_first_occurrence(items, n) ==
    \A m \in 1 .. n - 1 : items[m].id # items[n].id

(* Mutant of baseline_gate: any occurrence of the id will do. *)
baseline_gate_any(baseline, doc) ==
    \/ baseline.kind = "absent"
    \/ baseline.kind = "ids" /\ baseline.ids = {}
    \/ /\ baseline.kind = "ids"
       /\ doc.kind = "model"
       /\ \A n \in DOMAIN doc.items : doc.items[n] # Junk
       /\ \A rid \in baseline.ids :
             \E n \in DOMAIN doc.items :
                /\ doc.items[n].id = rid
                /\ doc.items[n].in_scope # "False"

(* Every required id is in the model, and in scope where it first occurs. *)
baseline_gate(baseline, doc) ==
    \/ baseline.kind = "absent"
    \/ baseline.kind = "ids" /\ baseline.ids = {}
    \/ /\ baseline.kind = "ids"
       /\ doc.kind = "model"
       /\ \A n \in DOMAIN doc.items : doc.items[n] # Junk
       /\ \A rid \in baseline.ids :
             \E n \in DOMAIN doc.items :
                /\ doc.items[n].id = rid
                /\ _first_occurrence(doc.items, n)
                /\ doc.items[n].in_scope # "False"

(*--------------------------- ci_evidence_check.py ----------------------*)
_assert_baseline_out_of_band(baseline) == baseline.kind # "in_checkout"

(* files: what each path under the artifacts directory holds, None for a   *)
(* file that is absent; a path outside it is not in its domain.            *)
_safe_read_artifact(files, test_file) ==
    IF test_file \in DOMAIN files THEN files[test_file] ELSE None

(* The dictionary id -> artifact: of items with one id the last counts.    *)
ci_artifacts(items, files) ==
    [id \in {items[n].id : n \in DOMAIN items} |->
        LET last == CHOOSE n \in DOMAIN items :
                        /\ items[n].id = id
                        /\ \A m \in DOMAIN items : items[m].id = id => m <= n
            evidence == items[last].evidence
        IN  IF evidence = None THEN None ELSE _safe_read_artifact(files, evidence.test_file)]

(* run() returns 0.  The baseline is checked first; then an absent model   *)
(* or an absent dispatch ledger skips the check.  A model that is not an   *)
(* object, or an element that is not, raises.                              *)
ci_run(doc, ledger, files, baseline) ==
    /\ _assert_baseline_out_of_band(baseline)
    /\ doc.kind # "unreadable"
    /\ baseline_gate(baseline, doc)
    /\ \/ doc.kind = "absent"
       \/ ledger = None
       \/ /\ doc.kind = "model"
          /\ \A n \in DOMAIN doc.items : doc.items[n] # Junk
          /\ check_model(doc, ledger, ci_artifacts(doc.items, files))
================================================================================
