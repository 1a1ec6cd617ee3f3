---------------------------- MODULE MCCoverageLedger ----------------------------
(* Two writers; a source tree in which a handler and a helper are moved,   *)
(* connected and removed; forged evidence and every kind of baseline.      *)
EXTENDS CoverageLedger

CONSTANTS c1, sv, si, SV

MCNorm == (sv :> "v") @@ (SV :> "v") @@ (si :> "i")
MCDigits == ("h" :> 1) @@ ("k" :> 2)
MCRank == ("h" :> 1) @@ ("k" :> 2)

def(q, decorated) == [qualname |-> q, name |-> q, decorated |-> decorated]
file(defs, refs) ==
    [path |-> "a.py", is_test |-> FALSE, parses |-> TRUE, defs |-> defs,
     refs |-> refs, top |-> {}]

MCFirstCode == <<file(<<def("k", FALSE)>>, {})>>
MCCodeBases ==
    {MCFirstCode,
     <<file(<<def("h", TRUE), def("k", FALSE)>>, {"k"})>>}

MCSemgrep == <<[qualname |-> "h", status |-> "finding"]>>
MCNoSemgrep == <<>>

evidence(form, hash, kind, v, i) ==
    [form |-> form, test_file |-> c1, output_hash |-> hash, evidence_kind |-> kind,
     verifier_session_id |-> v, implementer_session_id |-> i]
MCForged ==
    {evidence("valid", None, "integration", sv, si),
     evidence("valid", c1, "integration", sv, SV),
     evidence("valid", c1, "behavioral", sv, si),
     evidence("malformed", c1, "integration", sv, si),
     evidence("partial", c1, "integration", sv, si)}

baseline(kind, ids) == [kind |-> kind, ids |-> ids]
MCPRs ==
    [baseline : {baseline("absent", {}), baseline("in_checkout", {}),
                 baseline("ids", {0}), baseline("ids", {0, 1})},
     ledger : {None, {sv, si}, {si}}]
================================================================================
