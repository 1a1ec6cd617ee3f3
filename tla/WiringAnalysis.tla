----------------------------- MODULE WiringAnalysis -----------------------------
(***************************************************************************)
(* tools/wiring_checker.py (the AST reachability check and its projection  *)
(* into WIRING items), wiring_dedup.py (the union with Semgrep's findings) *)
(* and the id and qualname rules of wiring_ingest.py, as operators.        *)
(*                                                                         *)
(* A file is [path, is_test, parses, defs, refs, top]: its definitions in  *)
(* source order, each [qualname, name, decorated]; the names it loads,     *)
(* calls or names as an attribute anywhere; those of its module-level      *)
(* statements.  A qualname is a dotted path within one file.               *)
(***************************************************************************)
EXTENDS Integers, Sequences, FiniteSets, SequencesExt

CONSTANTS
    Digits,    \* qualname -> sha256(qualname) % 1000
    Rank       \* qualname -> its place in string order
--------------------------------------------------------------------------------
(* The members of a finite set by ascending rank. *)
Ordered(S, rank) ==
    [k \in 1 .. Cardinality(S) |->
        CHOOSE x \in S : Cardinality({y \in S : rank[y] <= rank[x]}) = k]

(* A file that does not parse has no definitions and refers to nothing.    *)
file_defs(f) == IF f.parses THEN f.defs ELSE <<>>
referenced_names(f) == IF f.parses THEN f.refs ELSE {}

(* What a test defines is neither an entry point nor an obligation.        *)
production_defs(f) == IF f.is_test THEN <<>> ELSE file_defs(f)

(* Decorated handlers and what module-level code names.                    *)
entry_qualnames(f) ==
    {d.qualname : d \in {e \in ToSet(production_defs(f)) : e.decorated \/ e.name \in f.top}}

repo_referenced(files) == UNION {referenced_names(files[n]) : n \in DOMAIN files}
repo_entry_qualnames(files) == UNION {entry_qualnames(files[n]) : n \in DOMAIN files}

(* Entry qualnames of any file, mapped back to bare names over every file. *)
repo_entry_names(files) ==
    {d.name : d \in {e \in UNION {ToSet(file_defs(files[n])) : n \in DOMAIN files} :
                        e.qualname \in repo_entry_qualnames(files)}}

reached(files, f, d) ==
    \/ d.qualname \in entry_qualnames(f)
    \/ d.decorated
    \/ d.name \in repo_referenced(files)
    \/ d.name \in repo_entry_names(files)

(* Where the definitions outside the tests are: <<file, place in it>>.     *)
sites(files) == UNION {{n} \X DOMAIN production_defs(files[n]) : n \in DOMAIN files}

(* One obligation for each of them, in source order.                       *)
analyze(files) ==
    LET all == sites(files)
        upto(s) == {t \in all : t[1] < s[1] \/ (t[1] = s[1] /\ t[2] <= s[2])}
    IN  [k \in 1 .. Cardinality(all) |->
            LET s == CHOOSE s \in all : Cardinality(upto(s)) = k
                f == files[s[1]]
                d == production_defs(f)[s[2]]
            IN  [qualname |-> d.qualname, file |-> f.path, reachable |-> reached(files, f, d)]]

dead_code(files) ==
    {w.qualname : w \in {v \in ToSet(analyze(files)) : ~v.reachable}}

(* Ids are minted by position: REQ-WIRE-001, -002, ... (the number here).  *)
emit_wiring_items(analysis) ==
    [n \in DOMAIN analysis |->
        [id |-> n, type |-> "WIRING", status |-> "unproven", in_scope |-> "True",
         qualname |-> analysis[n].qualname, file |-> analysis[n].file,
         reachable |-> analysis[n].reachable]]

(*------------------------------ wiring_dedup.py ------------------------*)
_ast_is_orphan(item) == ~item.reachable
_semgrep_is_finding(sg) == sg.status # "clean"

(* A Semgrep-only finding becomes an unproven item with an id hashed from  *)
(* its qualname.                                                           *)
_synthesize_item(sg) ==
    [id |-> Digits[sg.qualname], type |-> "WIRING", status |-> "unproven",
     in_scope |-> "True", qualname |-> sg.qualname, file |-> "<semgrep>",
     reachable |-> FALSE]

(* The dictionaries by qualname: of several items the last one counts.     *)
_by_qualname(items) ==
    [q \in {items[n].qualname : n \in DOMAIN items} |->
        items[CHOOSE n \in DOMAIN items :
                 /\ items[n].qualname = q
                 /\ \A m \in DOMAIN items : items[m].qualname = q => m <= n]]

(* One item per qualname that either source flags, in qualname order.      *)
merge(ast_candidates, semgrep_candidates) ==
    LET ast == _by_qualname(ast_candidates)
        sg  == _by_qualname(semgrep_candidates)
        flagged == {q \in DOMAIN ast \cup DOMAIN sg :
                       \/ q \in DOMAIN ast /\ _ast_is_orphan(ast[q])
                       \/ q \in DOMAIN sg /\ _semgrep_is_finding(sg[q])}
        order == Ordered(flagged, Rank)
    IN  [n \in DOMAIN order |->
            IF order[n] \in DOMAIN ast THEN ast[order[n]] ELSE _synthesize_item(sg[order[n]])]

(*------------------------------ wiring_ingest.py -----------------------*)
(* Mutant of _select_new_candidates: existing items are matched by id.     *)
_select_by_id(candidates, items) ==
    SelectSeq(candidates, LAMBDA c : \A n \in DOMAIN items : items[n].id # c.id)

(* The candidates whose qualname neither an item nor an earlier candidate  *)
(* has; the id is compared only for a candidate that has no qualname, and  *)
(* every candidate here has one.                                           *)
_select_new_candidates(candidates, items) ==
    LET fresh(n) == /\ \A m \in DOMAIN items : items[m].qualname # candidates[n].qualname
                    /\ \A m \in 1 .. n - 1 : candidates[m].qualname # candidates[n].qualname
        kept == Ordered({n \in DOMAIN candidates : fresh(n)}, [n \in DOMAIN candidates |-> n])
    IN  [k \in DOMAIN kept |-> candidates[kept[k]]]
================================================================================
