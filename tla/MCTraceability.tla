---------------------------- MODULE MCTraceability -----------------------------
(* Two overlapping pull requests over a file under src and one under tools,*)
(* and one over a source file and a test.                                  *)
EXTENDS Traceability, TLC

CONSTANTS a, t, e, r1, r2, w, x

unit(ids, exempt) == [ids |-> ids, exempt |-> exempt, encoding |-> "utf-8"]
latin(ids) == [ids |-> ids, exempt |-> "none", encoding |-> "latin-1"]
item(evidence, link, in_scope) ==
    [evidence |-> evidence, link |-> link, in_scope |-> in_scope]

MCUnits == {unit({}, "bare"), unit({}, "reason"), unit({r1, w}, "none"),
            unit({r2}, "none"), latin({r2, x})}
MCItems == {item(FALSE, FALSE, TRUE), item(FALSE, FALSE, FALSE),
            item(TRUE, FALSE, TRUE), item(FALSE, TRUE, TRUE)}

(* The pull requests are interchangeable. *)
Symmetry == Permutations(PRs)

MCFirstTree ==
    [units |-> (a :> unit({r1, w}, "none")) @@ (t :> unit({}, "bare")) @@ (e :> unit({}, "bare")),
     has_model |-> TRUE,
     items |-> (r1 :> item(FALSE, FALSE, TRUE)) @@ (r2 :> item(FALSE, TRUE, TRUE))]
================================================================================
